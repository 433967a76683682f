------------------------ MODULE BlockingWriteProofs -------------------------
(***************************************************************************)
(* Proofs about BlockingWrite for any number of threads, instances and     *)
(* samples and any limits: the history and its instances agree and stay    *)
(* within their limits, a thread that needs room removes only what is      *)
(* acknowledged, one publishing thread always finds the room it waited     *)
(* for, and wait_for_all_acked() returns true only if all was.             *)
(***************************************************************************)
EXTENDS BlockingWrite, FiniteSetTheorems, TLAPS

(* Places of a thread that holds the mutex of the writer. *)
Owning == {"full", "room", "retry", "acked", "add"}

TypesOK ==
    /\ dep \in Deployments
    /\ last_seq \in Nat /\ history \subseteq 1..last_seq
    /\ acked \in 0..last_seq /\ next_all_acked \in 1..(last_seq + 1) /\ may_remove \in 0..2
    /\ instances \in [Keys -> Seq(Nat)]
    /\ pc \in [Publishers -> {"idle"} \cup Waiting \cup Owning]
    /\ key \in [Publishers -> Keys] /\ seq_to_remove \in [Publishers -> Nat]

(* One thread has the mutex; only waiting threads are woken, and only      *)
(* those of the deployment ever do anything.                               *)
ThreadsOK ==
    /\ \A p, q \in Publishers : pc[p] \in Owning /\ pc[q] \in Owning => p = q
    /\ signalled \subseteq {p \in Publishers : pc[p] \in Waiting}
    /\ \A p \in Publishers \ dep.publishers : pc[p] = "idle"

Busy == {p \in Publishers : pc[p] # "idle"}

(* Every sample of the history is in one place of one instance. *)
InstancesOK ==
    /\ \A k \in Keys : \A i \in DOMAIN instances[k] : instances[k][i] \in history
    /\ \A s \in history : \E k \in Keys : \E i \in DOMAIN instances[k] : instances[k][i] = s
    /\ \A k, l \in Keys : \A i \in DOMAIN instances[k], j \in DOMAIN instances[l] :
          instances[k][i] = instances[l][j] => k = l /\ i = j

(* No instance is above its limit, and the one a sample is about to be     *)
(* added to is below.                                                      *)
LimitsOK ==
    /\ \A k \in Keys : Len(instances[k]) <= dep.max_samples_per_instance
    /\ \A p \in Publishers : pc[p] = "add" => Len(instances[key[p]]) < dep.max_samples_per_instance

(* What a thread is told is acknowledged, is. *)
AcksOK ==
    /\ \A s \in history : s < next_all_acked => s <= acked
    /\ may_remove = 1 => \E s \in history : s <= acked
    /\ \A p \in Publishers : pc[p] = "acked" =>
          seq_to_remove[p] <= acked \/ seq_to_remove[p] \notin history

(* Where a thread waits for room, there is something to remove; where the  *)
(* only one has waited, there is room.                                     *)
RoomOK ==
    /\ \A p \in Publishers : pc[p] = "full" => history # {}
    /\ Cardinality(dep.publishers) = 1 =>
          \A p \in Publishers :
              pc[p] = "room" \/ (pc[p] = "try_remove" /\ may_remove = 2) => ~IsFull

(* The inductive invariant. *)
BlockingInv ==
    /\ TypesOK /\ ThreadsOK /\ InstancesOK /\ LimitsOK /\ AcksOK /\ RoomOK
    /\ last_seq + Cardinality(Busy) <= dep.writes

-----------------------------------------------------------------------------
(* What the assumption says of the deployment. *)
LEMMA DepFacts ==
    ASSUME dep \in Deployments
    PROVE  /\ dep.publishers \subseteq Publishers
           /\ dep.max_samples_per_instance \in Nat \ {0} /\ dep.max_samples \in Nat
           /\ dep.writes \in Nat
           /\ Cardinality(Keys) * dep.max_samples_per_instance <= dep.max_samples
<1>1. Cardinality(Keys) \in Nat
  BY Zenon, BlockingAssumption, FS_CardinalityType
<1>2. /\ dep.publishers \subseteq Publishers
      /\ dep.max_samples_per_instance \in Nat \ {0} /\ dep.max_samples \in Nat
      /\ dep.writes \in 0..MaxSeq /\ MaxSeq \in Nat
      /\ dep.max_samples >= Cardinality(Keys) * dep.max_samples_per_instance
  BY Zenon, BlockingAssumption
<1> QED
  BY <1>1, <1>2

(* A set of naturals has its least element as Min(). *)
LEMMA MinNat ==
    ASSUME NEW S \in SUBSET Nat, S # {}
    PROVE  Min(S) \in S /\ \A y \in S : Min(S) <= y
<1> DEFINE R == {ss \in Nat \X Nat : ss[1] < ss[2]}
<1>1. IsWellFoundedOn(R, Nat)
  BY Zenon, NatLessThanWellFounded DEF OpToRel
<1>2. PICK x \in S : \A y \in S : ~(<<y, x>> \in R)
  BY Zenon, <1>1, WFMin
<1>3. \A y \in Nat : y < x => <<y, x>> \in R
  BY Zenon
<1>4. \A y \in S : x <= y
  <2> SUFFICES ASSUME NEW y \in S, y < x PROVE FALSE
    OBVIOUS
  <2> HIDE DEF R
  <2>1. <<y, x>> \in R
    BY Zenon, <1>3
  <2> QED
    BY Zenon, <1>2, <2>1
<1> QED
  BY Zenon, <1>4 DEF Min

(* The history fits as long as no instance is above its limit, and has     *)
(* room for one more if one of them is below.                              *)
LEMMA HistoryFits ==
    ASSUME TypesOK, InstancesOK,
           \A k \in Keys : Len(instances[k]) <= dep.max_samples_per_instance
    PROVE  /\ IsFiniteSet(history) /\ Cardinality(history) \in Nat
           /\ Cardinality(history) <= dep.max_samples
           /\ \A k \in Keys : Len(instances[k]) < dep.max_samples_per_instance =>
                 Cardinality(history) < dep.max_samples
<1> DEFINE m == dep.max_samples_per_instance
           places == Keys \X (1..m)
           slots == {x \in places : x[2] <= Len(instances[x[1]])}
           f == [x \in slots |-> instances[x[1]][x[2]]]
<1>1. m \in Nat /\ dep.max_samples \in Nat /\ Cardinality(Keys) * m <= dep.max_samples
  BY Zenon, DepFacts DEF TypesOK
<1>2. IsFiniteSet(Keys) /\ Cardinality(Keys) \in Nat
  BY Zenon, BlockingAssumption, FS_CardinalityType
<1> HIDE DEF m
<1>3. IsFiniteSet(1..m) /\ Cardinality(1..m) = m
  <2>1. IsFiniteSet(1..m) /\ Cardinality(1..m) = IF 1 > m THEN 0 ELSE m - 1 + 1
    BY <1>1, FS_Interval
  <2> QED
    BY <1>1, <2>1
<1>4. IsFiniteSet(places) /\ Cardinality(places) = Cardinality(Keys) * m
  BY Zenon, <1>2, <1>3, FS_Product
<1>5. \A k \in Keys : Len(instances[k]) \in Nat /\ DOMAIN instances[k] = 1..Len(instances[k])
  BY DEF TypesOK
<1>6. f \in Surjection(slots, history)
  <2>1. \A x \in slots : f[x] \in history
    <3> SUFFICES ASSUME NEW x \in slots PROVE f[x] \in history
      BY Zenon
    <3>1. x[1] \in Keys /\ x[2] \in 1..m /\ x[2] <= Len(instances[x[1]])
      BY Zenon
    <3>2. x[2] \in DOMAIN instances[x[1]]
      BY <1>1, <1>5, <3>1
    <3> QED
      BY Zenon, <3>1, <3>2 DEF InstancesOK
  <2>2. ASSUME NEW s \in history PROVE \E x \in slots : f[x] = s
    <3>1. PICK k \in Keys : \E i \in DOMAIN instances[k] : instances[k][i] = s
      BY Zenon DEF InstancesOK
    <3>2. PICK i \in DOMAIN instances[k] : instances[k][i] = s
      BY Zenon, <3>1
    <3>3. i \in 1..m /\ i <= Len(instances[k])
      BY <1>1, <1>5 DEF m
    <3>4. <<k, i>> \in slots
      BY Zenon, <3>3
    <3> QED
      BY Zenon, <3>2, <3>4
  <2> HIDE DEF slots
  <2>3. f \in [slots -> history]
    BY Zenon, <2>1
  <2> QED
    BY Zenon, <2>2, <2>3 DEF Surjection
<1>7. slots \in SUBSET places
  BY Zenon
<1>8. /\ IsFiniteSet(slots) /\ Cardinality(slots) <= Cardinality(places)
      /\ Cardinality(places) = Cardinality(slots) => places = slots
  <2> HIDE DEF slots, places
  <2> QED
    BY Zenon, <1>4, <1>7, FS_Subset
<1>9. IsFiniteSet(history) /\ Cardinality(history) <= Cardinality(slots)
  <2> HIDE DEF slots, f
  <2> QED
    BY Zenon, <1>6, <1>8, FS_Surjection
<1>10. Cardinality(history) \in Nat /\ Cardinality(slots) \in Nat /\ Cardinality(places) \in Nat
  BY Zenon, <1>4, <1>8, <1>9, FS_CardinalityType
<1>11. ASSUME NEW k \in Keys, Len(instances[k]) < m PROVE places # slots
  <2>1. <<k, m>> \in places
    BY <1>1, <1>5, <1>11
  <2>2. <<k, m>> \notin slots
    BY <1>1, <1>5, <1>11
  <2> QED
    BY Zenon, <2>1, <2>2
<1> HIDE DEF places, slots
<1>12. Cardinality(places) <= dep.max_samples
  BY Zenon, <1>1, <1>4
<1>13. Cardinality(history) <= dep.max_samples
  BY <1>1, <1>8, <1>9, <1>10, <1>12
<1>14. ASSUME NEW k \in Keys, Len(instances[k]) < m PROVE Cardinality(history) < dep.max_samples
  <2>1. Cardinality(slots) < Cardinality(places)
    BY <1>8, <1>10, <1>11, <1>14
  <2> QED
    BY <1>1, <1>9, <1>10, <1>12, <2>1
<1> QED
  BY Zenon, <1>9, <1>10, <1>13, <1>14 DEF m

-----------------------------------------------------------------------------
(* Erase() drops one entry and keeps the others once each. *)
LEMMA EraseFacts ==
    ASSUME NEW c \in Seq(Nat), NEW i \in DOMAIN c
    PROVE  /\ Erase(c, i) \in Seq(Nat) /\ Len(c) \in Nat /\ Len(Erase(c, i)) = Len(c) - 1
           /\ \A j \in DOMAIN Erase(c, i) :
                 \E l \in DOMAIN c : l # i /\ Erase(c, i)[j] = c[l] /\ l = IF j < i THEN j ELSE j + 1
           /\ \A l \in DOMAIN c : l # i => \E j \in DOMAIN Erase(c, i) : Erase(c, i)[j] = c[l]
<1> DEFINE e == Erase(c, i)
<1>1. Len(c) \in Nat /\ DOMAIN c = 1..Len(c) /\ i \in 1..Len(c)
  OBVIOUS
<1>2. DOMAIN e = 1..(Len(c) - 1) /\ \A j \in DOMAIN e : e[j] = c[IF j < i THEN j ELSE j + 1]
  BY Zenon DEF Erase
<1>3. ASSUME NEW j \in DOMAIN e
      PROVE  \E l \in DOMAIN c : l # i /\ e[j] = c[l] /\ l = IF j < i THEN j ELSE j + 1
  <2> DEFINE l == IF j < i THEN j ELSE j + 1
  <2>1. l \in DOMAIN c /\ l # i
    BY <1>1, <1>2
  <2>2. e[j] = c[l]
    BY Zenon, <1>2
  <2> HIDE DEF e
  <2> QED
    BY Zenon, <2>1, <2>2
<1>4. e \in [1..(Len(c) - 1) -> Nat]
  <2>1. \A j \in DOMAIN e : e[j] \in Nat
    BY <1>3
  <2>2. e = [j \in 1..(Len(c) - 1) |-> e[j]]
    BY Zenon DEF Erase
  <2> QED
    BY Zenon, <1>2, <2>1, <2>2
<1>5. e \in Seq(Nat) /\ Len(e) = Len(c) - 1
  <2> DEFINE n == Len(c) - 1
  <2>1. n \in Nat /\ e \in [1..n -> Nat]
    BY <1>1, <1>4
  <2> HIDE DEF e, n
  <2>2. e \in Seq(Nat) /\ Len(e) = n
    BY <2>1
  <2> QED
    BY Zenon, <2>2 DEF n
<1>6. ASSUME NEW l \in DOMAIN c, l # i PROVE \E j \in DOMAIN e : e[j] = c[l]
  <2> DEFINE j == IF l < i THEN l ELSE l - 1
  <2>1. j \in DOMAIN e /\ l = IF j < i THEN j ELSE j + 1
    BY <1>1, <1>2, <1>6
  <2>2. e[j] = c[l]
    BY Zenon, <1>2, <2>1
  <2> HIDE DEF e, j
  <2> QED
    BY Zenon, <2>1, <2>2
<1> HIDE DEF e
<1>7. /\ e \in Seq(Nat) /\ Len(c) \in Nat /\ Len(e) = Len(c) - 1
      /\ \A j \in DOMAIN e : \E l \in DOMAIN c : l # i /\ e[j] = c[l] /\ l = IF j < i THEN j ELSE j + 1
      /\ \A l \in DOMAIN c : l # i => \E j \in DOMAIN e : e[j] = c[l]
  BY Zenon, <1>1, <1>3, <1>5, <1>6
<1> QED
  BY Zenon, <1>7 DEF e

(* remove_change_pub() takes a sample out of the history and out of its    *)
(* instance, and leaves room.                                              *)
LEMMA Removal ==
    ASSUME TypesOK, InstancesOK, LimitsOK, NEW seq, EraseChange(seq), history' = history \ {seq},
           dep' = dep
    PROVE  /\ seq \in history /\ instances' \in [Keys -> Seq(Nat)] /\ InstancesOK'
           /\ \A k \in Keys : Len(instances'[k]) <= dep.max_samples_per_instance
           /\ \A k \in Keys : Len(instances'[k]) <= Len(instances[k])
           /\ \A k \in Keys : (\E i \in DOMAIN instances[k] : instances[k][i] = seq) =>
                 Len(instances'[k]) < dep.max_samples_per_instance
           /\ ~IsFull'
<1> DEFINE m == dep.max_samples_per_instance
<1>0. \A k, l \in Keys : \A i \in DOMAIN instances[k], j \in DOMAIN instances[l] :
         instances[k][i] = instances[l][j] => k = l /\ i = j
  BY Zenon DEF InstancesOK
<1>1. PICK k \in Keys : \E i \in DOMAIN instances[k] :
         instances[k][i] = seq /\ instances' = [instances EXCEPT ![k] = Erase(@, i)]
  BY Zenon DEF EraseChange
<1>2. PICK i \in DOMAIN instances[k] :
         instances[k][i] = seq /\ instances' = [instances EXCEPT ![k] = Erase(@, i)]
  BY Zenon, <1>1
<1> DEFINE c == instances[k]
           e == Erase(c, i)
<1>3. instances \in [Keys -> Seq(Nat)] /\ c \in Seq(Nat) /\ m \in Nat
      /\ \A l \in Keys : Len(instances[l]) \in Nat /\ Len(instances[l]) <= m
  BY DepFacts DEF TypesOK, LimitsOK
<1>4. /\ e \in Seq(Nat) /\ Len(c) \in Nat /\ Len(e) = Len(c) - 1
      /\ \A j \in DOMAIN e : \E l \in DOMAIN c : l # i /\ e[j] = c[l] /\ l = IF j < i THEN j ELSE j + 1
      /\ \A l \in DOMAIN c : l # i => \E j \in DOMAIN e : e[j] = c[l]
  BY Zenon, <1>2, <1>3, EraseFacts
<1> HIDE DEF e
<1>5. /\ instances' \in [Keys -> Seq(Nat)] /\ instances'[k] = e
      /\ \A l \in Keys : l # k => instances'[l] = instances[l]
  BY Zenon, <1>2, <1>3, <1>4 DEF e
<1>6. seq \in history
  BY Zenon, <1>2 DEF InstancesOK
<1>7. Len(e) < m /\ Len(e) <= Len(c)
  BY <1>3, <1>4
<1>8. \A l \in Keys : Len(instances'[l]) <= m /\ Len(instances'[l]) <= Len(instances[l])
  <2> HIDE DEF m
  <2>1. ASSUME NEW l \in Keys, l # k
        PROVE  Len(instances'[l]) <= m /\ Len(instances'[l]) <= Len(instances[l])
    BY <1>3, <1>5, <2>1
  <2> QED
    BY <1>3, <1>4, <1>5, <1>7, <2>1
<1>9. \A l \in Keys : (\E j \in DOMAIN instances[l] : instances[l][j] = seq) => l = k
  BY Zenon, <1>2 DEF InstancesOK
<1>10. ASSUME NEW l \in Keys, NEW j \in DOMAIN instances'[l]
       PROVE  \E n \in DOMAIN instances[l] :
                 /\ instances'[l][j] = instances[l][n] /\ (l = k => n # i)
                 /\ n = IF l = k /\ ~(j < i) THEN j + 1 ELSE j
  <2>1. CASE l # k
    BY Zenon, <1>5, <2>1
  <2>2. CASE l = k
    BY Zenon, <1>4, <1>5, <2>2
  <2> QED
    BY Zenon, <2>1, <2>2
<1>11. \A l \in Keys : \A j \in DOMAIN instances'[l] : instances'[l][j] \in history'
  <2> SUFFICES ASSUME NEW l \in Keys, NEW j \in DOMAIN instances'[l]
               PROVE  instances'[l][j] \in history'
    BY Zenon
  <2>1. PICK n \in DOMAIN instances[l] : instances'[l][j] = instances[l][n] /\ (l = k => n # i)
    BY Zenon, <1>10
  <2>2. instances[l][n] \in history
    BY Zenon DEF InstancesOK
  <2>3. instances[l][n] # seq
    BY <1>0, <1>2, <2>1
  <2> QED
    BY Zenon, <2>1, <2>2, <2>3
<1>12. \A s \in history' : \E l \in Keys : \E j \in DOMAIN instances'[l] : instances'[l][j] = s
  <2> SUFFICES ASSUME NEW s \in history, s # seq
               PROVE  \E l \in Keys : \E j \in DOMAIN instances'[l] : instances'[l][j] = s
    BY Zenon
  <2>1. PICK l \in Keys : \E j \in DOMAIN instances[l] : instances[l][j] = s
    BY Zenon DEF InstancesOK
  <2>2. PICK n \in DOMAIN instances[l] : instances[l][n] = s
    BY Zenon, <2>1
  <2>3. CASE l # k
    BY Zenon, <1>5, <2>2, <2>3
  <2>4. CASE l = k
    <3>1. n # i
      BY Zenon, <1>2, <2>2, <2>4
    <3> QED
      BY Zenon, <1>4, <1>5, <2>2, <2>4, <3>1
  <2> QED
    BY Zenon, <2>3, <2>4
<1>13. ASSUME NEW l1 \in Keys, NEW l2 \in Keys, NEW j1 \in DOMAIN instances'[l1],
              NEW j2 \in DOMAIN instances'[l2], instances'[l1][j1] = instances'[l2][j2]
       PROVE  l1 = l2 /\ j1 = j2
  <2>1. PICK n1 \in DOMAIN instances[l1] :
           instances'[l1][j1] = instances[l1][n1] /\ n1 = IF l1 = k /\ ~(j1 < i) THEN j1 + 1 ELSE j1
    BY Zenon, <1>10
  <2>2. PICK n2 \in DOMAIN instances[l2] :
           instances'[l2][j2] = instances[l2][n2] /\ n2 = IF l2 = k /\ ~(j2 < i) THEN j2 + 1 ELSE j2
    BY Zenon, <1>10
  <2>3. l1 = l2 /\ n1 = n2
    <3>1. instances[l1][n1] = instances[l2][n2]
      BY Zenon, <1>13, <2>1, <2>2
    <3> QED
      BY <1>0, <3>1
  <2>4. j1 \in Nat /\ j2 \in Nat /\ i \in Nat
    <3>1. instances'[l1] \in Seq(Nat) /\ instances'[l2] \in Seq(Nat)
      BY Zenon, <1>5
    <3>2. ASSUME NEW q \in Seq(Nat), NEW j \in DOMAIN q PROVE j \in Nat
      BY <3>2
    <3>3. i \in Nat
      BY Zenon, <1>3, <3>2
    <3> QED
      BY Zenon, <1>13, <3>1, <3>2, <3>3
  <2> QED
    BY <2>1, <2>2, <2>3, <2>4
<1>14. InstancesOK'
  BY Zenon, <1>11, <1>12, <1>13 DEF InstancesOK
<1>15. ~IsFull'
  <2>1. IsFiniteSet(history) /\ Cardinality(history) \in Nat /\ Cardinality(history) <= dep.max_samples
    BY Zenon, HistoryFits DEF LimitsOK
  <2>2. Cardinality(history') = Cardinality(history) - 1
    BY Zenon, <1>6, <2>1, FS_RemoveElement
  <2>3. dep.max_samples \in Nat
    BY Zenon, DepFacts DEF TypesOK
  <2> QED
    BY <2>1, <2>2, <2>3 DEF IsFull
<1> QED
  BY Zenon, <1>5, <1>6, <1>7, <1>8, <1>9, <1>14, <1>15

-----------------------------------------------------------------------------
(* How the number of calls of write() that go on changes when p moves on. *)
LEMMA BusyFacts ==
    ASSUME TypesOK, NEW p \in Publishers, NEW place, Goto(p, place)
    PROVE  /\ Cardinality(Busy) \in Nat /\ Cardinality(Busy') \in Nat
           /\ pc[p] # "idle" /\ place # "idle" => Cardinality(Busy') = Cardinality(Busy)
           /\ pc[p] = "idle" /\ place # "idle" => Cardinality(Busy') = Cardinality(Busy) + 1
           /\ pc[p] # "idle" /\ place = "idle" => Cardinality(Busy') = Cardinality(Busy) - 1
<1>1. pc'[p] = place /\ \A q \in Publishers : q # p => pc'[q] = pc[q]
  BY Zenon DEF Goto, TypesOK
<1>2. IsFiniteSet(Busy) /\ IsFiniteSet(Busy') /\ Cardinality(Busy) \in Nat
      /\ Cardinality(Busy') \in Nat
  <2>1. Busy \in SUBSET Publishers /\ Busy' \in SUBSET Publishers
    BY Zenon DEF Busy
  <2>2. IsFiniteSet(Busy) /\ IsFiniteSet(Busy')
    BY Zenon, <2>1, BlockingAssumption, FS_Subset
  <2> QED
    BY Zenon, <2>2, FS_CardinalityType
<1>3. CASE pc[p] # "idle" /\ place # "idle"
  <2>1. Busy' = Busy
    BY Zenon, <1>1, <1>3 DEF Busy
  <2> QED
    BY Zenon, <1>2, <1>3, <2>1
<1>4. CASE pc[p] = "idle" /\ place # "idle"
  <2>1. Busy' = Busy \cup {p} /\ p \notin Busy
    BY Zenon, <1>1, <1>4 DEF Busy
  <2>2. Cardinality(Busy \cup {p}) = Cardinality(Busy) + 1
    BY Zenon, <1>2, <2>1, FS_AddElement
  <2> QED
    BY Zenon, <1>2, <1>4, <2>1, <2>2
<1>5. CASE pc[p] # "idle" /\ place = "idle"
  <2>1. Busy' = Busy \ {p} /\ p \in Busy
    BY Zenon, <1>1, <1>5 DEF Busy
  <2>2. Cardinality(Busy \ {p}) = Cardinality(Busy) - 1
    BY Zenon, <1>2, <2>1, FS_RemoveElement
  <2> QED
    BY Zenon, <1>2, <1>5, <2>1, <2>2
<1> QED
  BY Zenon, <1>2, <1>3, <1>4, <1>5

(* The thread p moves on to a place: it had the mutex, takes it while      *)
(* nobody has it, or does not need it.                                     *)
LEMMA GotoThreads ==
    ASSUME TypesOK, ThreadsOK, NEW p \in Publishers, p \in dep.publishers, dep' = dep,
           NEW place \in {"idle"} \cup Waiting \cup Owning, Goto(p, place),
           place \in Owning => Unlocked \/ pc[p] \in Owning,
           \A q \in signalled' : q \in Publishers /\ (q # p => pc[q] \in Waiting),
           p \in signalled' => place \in Waiting
    PROVE  /\ pc' \in [Publishers -> {"idle"} \cup Waiting \cup Owning]
           /\ pc'[p] = place /\ \A q \in Publishers : q # p => pc'[q] = pc[q]
           /\ ThreadsOK'
<1>1. /\ pc' \in [Publishers -> {"idle"} \cup Waiting \cup Owning]
      /\ pc'[p] = place /\ \A q \in Publishers : q # p => pc'[q] = pc[q]
  BY Zenon DEF Goto, TypesOK
<1>2. ASSUME NEW q \in Publishers, q # p, pc'[q] \in Owning, place \in Owning PROVE FALSE
  <2>1. pc[q] \in Owning
    BY Zenon, <1>1, <1>2
  <2>2. CASE Unlocked
    BY Zenon, <2>1, <2>2 DEF Unlocked, Owning, Waiting
  <2>3. CASE pc[p] \in Owning
    BY Zenon, <1>2, <2>1, <2>3 DEF ThreadsOK
  <2> QED
    BY Zenon, <1>2, <2>2, <2>3
<1>3. \A q, u \in Publishers : pc'[q] \in Owning /\ pc'[u] \in Owning => q = u
  BY Zenon, <1>1, <1>2 DEF ThreadsOK
<1>4. signalled' \subseteq {q \in Publishers : pc'[q] \in Waiting}
  BY Zenon, <1>1
<1>5. \A q \in Publishers \ dep'.publishers : pc'[q] = "idle"
  BY Zenon, <1>1 DEF ThreadsOK
<1> QED
  BY Zenon, <1>1, <1>3, <1>4, <1>5 DEF ThreadsOK

(* The only publishing thread of a deployment. *)
LEMMA OnlyOne ==
    ASSUME TypesOK, ThreadsOK, Cardinality(dep.publishers) = 1, NEW p \in dep.publishers,
           NEW q \in Publishers, q # p
    PROVE  pc[q] = "idle"
<1>1. dep.publishers \in SUBSET Publishers
  BY Zenon, DepFacts DEF TypesOK
<1>2. IsFiniteSet(dep.publishers)
  BY Zenon, <1>1, BlockingAssumption, FS_Subset
<1>3. PICK x : dep.publishers = {x}
  BY Zenon, <1>2, FS_Singleton
<1> QED
  BY Zenon, <1>3 DEF ThreadsOK

(* A step that leaves history and acknowledgements alone. *)
DataStays ==
    /\ UNCHANGED <<dep, history, last_seq, instances, acked, next_all_acked>>
    /\ may_remove' \in 0..2 /\ (may_remove' = 1 => may_remove = 1)
    /\ signalled' \subseteq signalled

(* p moves on to a place, with what the invariant says of that place. *)
MovesTo(p, place) ==
    /\ place \in {"idle"} \cup Waiting \cup Owning /\ Goto(p, place)
    /\ key' \in [Publishers -> Keys] /\ seq_to_remove' \in [Publishers -> Nat]
    /\ \A q \in Publishers \ {p} : key'[q] = key[q] /\ seq_to_remove'[q] = seq_to_remove[q]
    /\ place \in Owning => Unlocked \/ pc[p] \in Owning
    /\ p \in signalled' => place \in Waiting
    /\ place = "add" => Len(instances[key'[p]]) < dep.max_samples_per_instance
    /\ place = "acked" => IsAckedByAll(seq_to_remove'[p])
    /\ place = "full" => history # {}
    /\ Cardinality(dep.publishers) = 1 =>
          (place = "room" \/ (place = "try_remove" /\ may_remove' = 2) => ~IsFull)

LEMMA PlaceStep ==
    ASSUME BlockingInv, NEW p \in dep.publishers, NEW place, DataStays, MovesTo(p, place),
           last_seq + Cardinality(Busy') <= dep.writes
    PROVE  BlockingInv'
<1> USE DEF DataStays, MovesTo
<1>1. TypesOK /\ ThreadsOK /\ InstancesOK /\ LimitsOK /\ AcksOK /\ RoomOK
  BY Zenon DEF BlockingInv
<1>2. p \in Publishers
  BY Zenon, <1>1, DepFacts DEF TypesOK
<1>3. /\ pc' \in [Publishers -> {"idle"} \cup Waiting \cup Owning]
      /\ pc'[p] = place /\ \A q \in Publishers : q # p => pc'[q] = pc[q]
      /\ ThreadsOK'
  <2>1. \A q \in signalled' : q \in Publishers /\ (q # p => pc[q] \in Waiting)
    BY Zenon, <1>1 DEF ThreadsOK
  <2> QED
    BY Zenon, <1>1, <1>2, <2>1, GotoThreads
<1>4. TypesOK'
  BY Zenon, <1>1, <1>3 DEF TypesOK
<1>5. InstancesOK'
  BY <1>1 DEF InstancesOK
<1>6. LimitsOK'
  BY Zenon, <1>1, <1>3 DEF LimitsOK
<1>7. AcksOK'
  <2>1. /\ \A s \in history : s < next_all_acked => s <= acked
        /\ may_remove' = 1 => \E s \in history : s <= acked
    BY Zenon, <1>1 DEF AcksOK
  <2>2. ASSUME NEW q \in Publishers, pc'[q] = "acked"
        PROVE  seq_to_remove'[q] <= acked \/ seq_to_remove'[q] \notin history
    <3>1. CASE q = p
      BY Zenon, <1>3, <2>1, <2>2, <3>1 DEF IsAckedByAll
    <3>2. CASE q # p
      BY Zenon, <1>1, <1>3, <2>2, <3>2 DEF AcksOK
    <3> QED
      BY Zenon, <3>1, <3>2
  <2> QED
    BY Zenon, <2>1, <2>2 DEF AcksOK
<1>8. RoomOK'
  <2>1. \A q \in Publishers : pc'[q] = "full" => history # {}
    BY Zenon, <1>1, <1>3 DEF RoomOK
  <2>2. IsFull' = IsFull
    BY Zenon DEF IsFull
  <2>3. ASSUME Cardinality(dep.publishers) = 1, NEW q \in Publishers,
               pc'[q] = "room" \/ (pc'[q] = "try_remove" /\ may_remove' = 2)
        PROVE  ~IsFull
    <3>1. q = p
      BY Zenon, <1>1, <1>3, <2>3, OnlyOne
    <3> QED
      BY Zenon, <1>3, <2>3, <3>1
  <2> QED
    BY Zenon, <2>1, <2>2, <2>3 DEF RoomOK
<1> QED
  BY Zenon, <1>3, <1>4, <1>5, <1>6, <1>7, <1>8 DEF BlockingInv

-----------------------------------------------------------------------------
(* The history that a full writer waits on is not empty. *)
LEMMA FullFacts ==
    ASSUME TypesOK, InstancesOK, LimitsOK, IsFull
    PROVE  history # {}
<1>1. Cardinality(Keys) \in Nat /\ Cardinality(Keys) # 0
  BY Zenon, BlockingAssumption, FS_CardinalityType, FS_EmptySet
<1> DEFINE n == Cardinality(Keys)
           m == dep.max_samples_per_instance
<1>2. n \in Nat \ {0} /\ m \in Nat \ {0} /\ n * m <= dep.max_samples /\ dep.max_samples \in Nat
  BY Zenon, <1>1, DepFacts DEF TypesOK
<1> HIDE DEF n, m
<1>3. n * m >= 1
  BY <1>2
<1>4. dep.max_samples >= 1
  BY <1>2, <1>3
<1>5. Cardinality(history) >= dep.max_samples /\ Cardinality({}) = 0
  BY Zenon, FS_EmptySet DEF IsFull
<1> QED
  BY <1>2, <1>4, <1>5

(* The smallest number of the history. *)
LEMMA MinSeqFacts ==
    ASSUME TypesOK, history # {}
    PROVE  MinSeq \in history /\ MinSeq \in Nat /\ \A s \in history : MinSeq <= s
<1>1. history \in SUBSET Nat
  BY DEF TypesOK
<1> QED
  BY Zenon, <1>1, MinNat DEF MinSeq

(* p had called write() before and stays in it. *)
LEMMA StillBusy ==
    ASSUME BlockingInv, NEW p \in dep.publishers, NEW place, Goto(p, place), pc[p] # "idle",
           place # "idle"
    PROVE  last_seq + Cardinality(Busy') <= dep.writes
<1>1. TypesOK /\ last_seq + Cardinality(Busy) <= dep.writes
  BY Zenon DEF BlockingInv
<1>2. p \in Publishers
  BY Zenon, <1>1, DepFacts DEF TypesOK
<1> QED
  BY Zenon, <1>1, <1>2, BusyFacts

LEMMA WriteInv ==
    ASSUME BlockingInv, NEW p \in dep.publishers, NEW k \in Keys, Write(p, k)
    PROVE  BlockingInv'
<1> DEFINE place == IF IsFull THEN "full" ELSE "room"
<1>1. TypesOK /\ ThreadsOK /\ InstancesOK /\ LimitsOK
  BY Zenon DEF BlockingInv
<1>2. /\ Unlocked /\ pc[p] = "idle" /\ last_seq + Cardinality(Busy) < dep.writes
      /\ key' = [key EXCEPT ![p] = k] /\ Goto(p, place)
      /\ UNCHANGED <<dep, ackVars, history, last_seq, instances, acked, next_all_acked,
                     may_remove, seq_to_remove, signalled>>
  BY Zenon DEF Write, Busy
<1>3. p \in Publishers /\ dep.writes \in Nat /\ last_seq \in Nat
  BY Zenon, <1>1, DepFacts DEF TypesOK
<1>4. last_seq + Cardinality(Busy') <= dep.writes
  <2>1. Cardinality(Busy) \in Nat /\ Cardinality(Busy') = Cardinality(Busy) + 1
    BY <1>1, <1>2, <1>3, BusyFacts
  <2> QED
    BY <1>2, <1>3, <2>1
<1>5. DataStays
  BY Zenon, <1>1, <1>2 DEF DataStays, TypesOK
<1>6. IsFull => history # {}
  BY Zenon, <1>1, FullFacts
<1>7. p \notin signalled
  BY Zenon, <1>1, <1>2 DEF ThreadsOK, Waiting
<1>8. MovesTo(p, place)
  BY Zenon, <1>1, <1>2, <1>6, <1>7 DEF MovesTo, TypesOK, Owning
<1> QED
  BY Zenon, <1>4, <1>5, <1>8, PlaceStep

LEMMA AwaitRemovalInv ==
    ASSUME BlockingInv, NEW p \in dep.publishers, AwaitRemoval(p)
    PROVE  BlockingInv'
<1>1. TypesOK
  BY Zenon DEF BlockingInv
<1>2. /\ pc[p] = "full" /\ may_remove' = 0 /\ Goto(p, "try_remove")
      /\ UNCHANGED <<dep, ackVars, history, last_seq, instances, acked, next_all_acked, key,
                     seq_to_remove, signalled>>
  BY Zenon DEF AwaitRemoval
<1>3. last_seq + Cardinality(Busy') <= dep.writes
  BY Zenon, <1>2, StillBusy
<1>4. DataStays
  BY <1>2 DEF DataStays
<1>5. MovesTo(p, "try_remove")
  BY <1>1, <1>2 DEF MovesTo, TypesOK, Owning, Waiting
<1> QED
  BY Zenon, <1>3, <1>4, <1>5, PlaceStep

(* A thread that was woken for nothing waits on. *)
LEMMA SleepAgainInv ==
    ASSUME BlockingInv, NEW p \in dep.publishers, SleepAgain(p)
    PROVE  BlockingInv'
<1>1. TypesOK /\ ThreadsOK /\ InstancesOK /\ LimitsOK /\ AcksOK /\ RoomOK
      /\ last_seq + Cardinality(Busy) <= dep.writes
  BY Zenon DEF BlockingInv
<1>2. /\ signalled' \subseteq signalled
      /\ UNCHANGED <<dep, history, last_seq, instances, acked, next_all_acked, may_remove, pc,
                     key, seq_to_remove>>
  BY Zenon DEF SleepAgain
<1> QED
  BY <1>1, <1>2 DEF BlockingInv, TypesOK, ThreadsOK, InstancesOK, LimitsOK, AcksOK, RoomOK,
                    IsFull, Busy

LEMMA WriteTimesOutInv ==
    ASSUME BlockingInv, NEW p \in dep.publishers, WriteTimesOut(p)
    PROVE  BlockingInv'
<1>1. TypesOK /\ last_seq + Cardinality(Busy) <= dep.writes
  BY Zenon DEF BlockingInv
<1>2. /\ pc[p] \in Waiting /\ Goto(p, "idle") /\ signalled' = signalled \ {p}
      /\ UNCHANGED <<dep, ackVars, history, last_seq, instances, acked, next_all_acked,
                     may_remove, key, seq_to_remove>>
  BY Zenon DEF WriteTimesOut, Waiting
<1>3. p \in Publishers /\ pc[p] # "idle" /\ last_seq \in Nat /\ dep.writes \in Nat
  BY Zenon, <1>1, <1>2, DepFacts DEF TypesOK, Waiting
<1>4. last_seq + Cardinality(Busy') <= dep.writes
  <2>1. Cardinality(Busy) \in Nat /\ Cardinality(Busy') = Cardinality(Busy) - 1
    BY Zenon, <1>1, <1>2, <1>3, BusyFacts
  <2> QED
    BY <1>1, <1>3, <2>1
<1>5. DataStays
  BY Zenon, <1>1, <1>2 DEF DataStays, TypesOK
<1>6. MovesTo(p, "idle")
  BY Zenon, <1>1, <1>2 DEF MovesTo, TypesOK, Owning
<1> QED
  BY Zenon, <1>4, <1>5, <1>6, PlaceStep

(* The instance has room, or its oldest sample is looked at. *)
LEMMA CheckInstanceInv ==
    ASSUME BlockingInv, NEW p \in dep.publishers, CheckInstance(p)
    PROVE  BlockingInv'
<1> DEFINE c == instances[key[p]]
<1>1. TypesOK /\ ThreadsOK
  BY Zenon DEF BlockingInv
<1>2. /\ pc[p] \in {"retry", "room"}
      /\ UNCHANGED <<dep, ackVars, history, last_seq, instances, acked, next_all_acked,
                     may_remove, key, signalled>>
  BY Zenon DEF CheckInstance
<1>3. p \in Publishers /\ pc[p] \in Owning /\ pc[p] # "idle" /\ p \notin signalled
  BY Zenon, <1>1, <1>2, DepFacts DEF TypesOK, ThreadsOK, Owning, Waiting
<1>4. DataStays
  BY Zenon, <1>1, <1>2 DEF DataStays, TypesOK
<1>5. CASE Len(c) < dep.max_samples_per_instance
  <2>1. Goto(p, "add") /\ UNCHANGED seq_to_remove
    BY Zenon, <1>5 DEF CheckInstance
  <2>2. MovesTo(p, "add")
    BY Zenon, <1>1, <1>2, <1>3, <1>5, <2>1 DEF MovesTo, TypesOK, Owning
  <2>3. last_seq + Cardinality(Busy') <= dep.writes
    BY Zenon, <1>3, <2>1, StillBusy
  <2> QED
    BY Zenon, <1>4, <2>2, <2>3, PlaceStep
<1>6. CASE ~(Len(c) < dep.max_samples_per_instance)
  <2> DEFINE seq == Head(c)
             place == IF IsAckedByAll(seq) THEN "acked" ELSE "await_ack"
  <2>1. seq_to_remove' = [seq_to_remove EXCEPT ![p] = seq] /\ Goto(p, place)
    BY Zenon, <1>6 DEF CheckInstance
  <2>2. seq \in Nat
    <3>1. c \in Seq(Nat) /\ dep.max_samples_per_instance \in Nat \ {0}
      BY Zenon, <1>1, <1>3, DepFacts DEF TypesOK
    <3>2. c # <<>>
      BY <1>6, <3>1
    <3> QED
      BY <3>1, <3>2
  <2> HIDE DEF seq
  <2>3. seq_to_remove'[p] = seq /\ seq_to_remove' \in [Publishers -> Nat]
        /\ \A q \in Publishers \ {p} : seq_to_remove'[q] = seq_to_remove[q]
    BY Zenon, <1>1, <1>3, <2>1, <2>2 DEF TypesOK
  <2>4. /\ place \in {"idle"} \cup Waiting \cup Owning
        /\ place \in {"acked", "await_ack"} /\ place # "idle"
        /\ place = "acked" => IsAckedByAll(seq)
    BY Zenon DEF Waiting, Owning
  <2> HIDE DEF place
  <2>5. MovesTo(p, place)
    BY Zenon, <1>1, <1>2, <1>3, <2>1, <2>3, <2>4 DEF MovesTo, TypesOK
  <2>6. last_seq + Cardinality(Busy') <= dep.writes
    BY Zenon, <1>3, <2>1, <2>4, StillBusy
  <2> QED
    BY Zenon, <1>4, <2>5, <2>6, PlaceStep
<1> QED
  BY Zenon, <1>5, <1>6

LEMMA EndAckWaitInv ==
    ASSUME BlockingInv, NEW p \in dep.publishers, EndAckWait(p)
    PROVE  BlockingInv'
<1>1. TypesOK
  BY Zenon DEF BlockingInv
<1>2. /\ Unlocked /\ pc[p] = "await_ack" /\ IsAckedByAll(seq_to_remove[p]) /\ Goto(p, "acked")
      /\ signalled' = signalled \ {p}
      /\ UNCHANGED <<dep, ackVars, history, last_seq, instances, acked, next_all_acked,
                     may_remove, key, seq_to_remove>>
  BY Zenon DEF EndAckWait
<1>3. last_seq + Cardinality(Busy') <= dep.writes
  BY Zenon, <1>2, StillBusy
<1>4. DataStays
  BY Zenon, <1>1, <1>2 DEF DataStays, TypesOK
<1>5. MovesTo(p, "acked")
  BY Zenon, <1>1, <1>2 DEF MovesTo, TypesOK, Owning
<1> QED
  BY Zenon, <1>3, <1>4, <1>5, PlaceStep

-----------------------------------------------------------------------------
(* notify_one() wakes waiting threads only. *)
LEMMA NotifyFacts ==
    ASSUME ThreadsOK, NEW awake, NotifyOne(awake)
    PROVE  \A q \in signalled' : q \in Publishers /\ pc[q] \in Waiting /\ q \notin awake
<1>1. \A q \in signalled : q \in Publishers /\ pc[q] \in Waiting
  BY Zenon DEF ThreadsOK
<1> QED
  BY Zenon, <1>1 DEF NotifyOne

(* A sample is removed; the threads are left as the invariant wants them. *)
LEMMA RemovalStep ==
    ASSUME BlockingInv, NEW seq, NEW awake, RemoveChange(seq, awake), ThreadsOK',
           UNCHANGED <<dep, last_seq, next_all_acked, key, seq_to_remove>>,
           pc' \in [Publishers -> {"idle"} \cup Waiting \cup Owning],
           \A q \in Publishers : pc'[q] # "full" /\ pc'[q] # "acked",
           \A q \in Publishers : pc'[q] = "add" =>
              Len(instances'[key[q]]) < dep.max_samples_per_instance,
           last_seq + Cardinality(Busy') <= dep.writes
    PROVE  BlockingInv'
<1>1. TypesOK /\ ThreadsOK /\ InstancesOK /\ LimitsOK /\ AcksOK /\ RoomOK
  BY Zenon DEF BlockingInv
<1>2. /\ history' = history \ {seq} /\ EraseChange(seq) /\ may_remove' = 2
      /\ acked' = IF seq = acked + 1 THEN seq ELSE acked
  BY Zenon DEF RemoveChange
<1>3. /\ seq \in history /\ instances' \in [Keys -> Seq(Nat)] /\ InstancesOK' /\ ~IsFull'
      /\ \A k \in Keys : Len(instances'[k]) <= dep.max_samples_per_instance
  BY Zenon, <1>1, <1>2, Removal
<1>4. acked' \in 0..last_seq /\ acked <= acked' /\ acked \in Nat
  BY <1>1, <1>2, <1>3 DEF TypesOK
<1>5. TypesOK'
  BY <1>1, <1>2, <1>3, <1>4 DEF TypesOK
<1>6. LimitsOK'
  BY Zenon, <1>3 DEF LimitsOK
<1>7. AcksOK'
  <2>1. ASSUME NEW s \in history', s < next_all_acked' PROVE s <= acked'
    <3>1. s \in Nat /\ s <= acked
      BY <1>1, <1>2, <2>1 DEF AcksOK, TypesOK
    <3> QED
      BY <1>4, <3>1
  <2> QED
    BY <1>2, <2>1 DEF AcksOK
<1>8. RoomOK'
  BY Zenon, <1>3 DEF RoomOK
<1> QED
  BY Zenon, <1>3, <1>5, <1>6, <1>7, <1>8 DEF BlockingInv

(* A publishing thread removes a sample and moves on. *)
LEMMA ThreadRemoves ==
    ASSUME BlockingInv, NEW p \in dep.publishers, NEW seq, RemoveChange(seq, {p}),
           NEW place \in {"room", "add"}, Goto(p, place), pc[p] # "idle",
           Unlocked \/ pc[p] \in Owning,
           UNCHANGED <<dep, last_seq, next_all_acked, key, seq_to_remove>>,
           place = "add" => Len(instances'[key[p]]) < dep.max_samples_per_instance
    PROVE  BlockingInv'
<1>1. TypesOK /\ ThreadsOK
  BY Zenon DEF BlockingInv
<1>2. p \in Publishers
  BY Zenon, <1>1, DepFacts DEF TypesOK
<1>3. place \in Owning /\ place # "idle" /\ place \in {"idle"} \cup Waiting \cup Owning
  BY Zenon DEF Owning
<1>4. \A q \in signalled' : q \in Publishers /\ pc[q] \in Waiting /\ q # p
  <2>1. NotifyOne({p})
    BY Zenon DEF RemoveChange
  <2> QED
    BY Zenon, <1>1, <2>1, NotifyFacts
<1>5. /\ pc' \in [Publishers -> {"idle"} \cup Waiting \cup Owning]
      /\ pc'[p] = place /\ \A q \in Publishers : q # p => pc'[q] = pc[q]
      /\ ThreadsOK'
  BY Zenon, <1>1, <1>2, <1>3, <1>4, GotoThreads
<1>6. \A q \in Publishers : q # p => pc'[q] \notin Owning
  BY Zenon, <1>2, <1>3, <1>5 DEF ThreadsOK
<1>7. /\ \A q \in Publishers : pc'[q] # "full" /\ pc'[q] # "acked"
      /\ \A q \in Publishers : pc'[q] = "add" =>
            Len(instances'[key[q]]) < dep.max_samples_per_instance
  BY Zenon, <1>5, <1>6 DEF Owning
<1>8. last_seq + Cardinality(Busy') <= dep.writes
  BY Zenon, <1>3, StillBusy
<1> QED
  BY Zenon, <1>5, <1>7, <1>8, RemovalStep

LEMMA RemoveAckedInv ==
    ASSUME BlockingInv, NEW p \in dep.publishers, RemoveAcked(p)
    PROVE  BlockingInv'
<1> DEFINE place == "room"
<1>1. /\ pc[p] \in Owning /\ pc[p] # "idle" /\ RemoveChange(MinSeq, {p}) /\ Goto(p, place)
      /\ UNCHANGED <<dep, last_seq, next_all_acked, key, seq_to_remove>>
      /\ place \in {"room", "add"} /\ place # "add"
  BY Zenon DEF RemoveAcked, Owning
<1> HIDE DEF place
<1> QED
  BY Zenon, <1>1, ThreadRemoves

LEMMA EndRemovalWaitInv ==
    ASSUME BlockingInv, NEW p \in dep.publishers, EndRemovalWait(p)
    PROVE  BlockingInv'
<1> DEFINE place == "room"
<1>1. TypesOK /\ RoomOK
  BY Zenon DEF BlockingInv
<1>2. /\ Unlocked /\ pc[p] = "try_remove" /\ pc[p] # "idle" /\ Goto(p, place)
      /\ UNCHANGED <<dep, last_seq, next_all_acked, key, seq_to_remove>>
      /\ place \in {"room", "add"} /\ place # "add" /\ place # "idle"
  BY Zenon DEF EndRemovalWait
<1>3. CASE may_remove = 1 /\ RemoveChange(MinSeq, {p})
  <2> HIDE DEF place
  <2> QED
    BY Zenon, <1>2, <1>3, ThreadRemoves
<1>4. CASE /\ may_remove = 2 /\ signalled' = signalled \ {p}
           /\ UNCHANGED <<history, acked, instances, may_remove, acked_since>>
  <2>1. DataStays
    BY Zenon, <1>1, <1>2, <1>4 DEF DataStays, TypesOK
  <2>2. p \in Publishers
    BY Zenon, <1>1, DepFacts DEF TypesOK
  <2>3. Cardinality(dep.publishers) = 1 => ~IsFull
    BY Zenon, <1>1, <1>2, <1>4, <2>2 DEF RoomOK
  <2>4. MovesTo(p, place)
    BY Zenon, <1>1, <1>2, <1>4, <2>3 DEF MovesTo, TypesOK, Owning
  <2>5. last_seq + Cardinality(Busy') <= dep.writes
    BY Zenon, <1>2, StillBusy
  <2> QED
    BY Zenon, <2>1, <2>4, <2>5, PlaceStep
<1> QED
  BY Zenon, <1>3, <1>4 DEF EndRemovalWait

LEMMA RemoveFromInstanceInv ==
    ASSUME BlockingInv, NEW p \in dep.publishers, RemoveFromInstance(p)
    PROVE  BlockingInv'
<1> DEFINE c == instances[key[p]]
           seq == seq_to_remove[p]
<1>1. TypesOK /\ ThreadsOK /\ InstancesOK /\ LimitsOK
  BY Zenon DEF BlockingInv
<1>2. /\ pc[p] = "acked" /\ pc[p] \in Owning /\ pc[p] # "idle"
      /\ UNCHANGED <<dep, last_seq, next_all_acked, key, seq_to_remove>>
  BY Zenon DEF RemoveFromInstance, Owning
<1>3. p \in Publishers /\ key[p] \in Keys
  BY Zenon, <1>1, DepFacts DEF TypesOK
<1>4. CASE c # <<>> /\ Head(c) = seq
  <2> DEFINE place == "add"
  <2>1. RemoveChange(seq, {p}) /\ Goto(p, place)
    BY Zenon, <1>4 DEF RemoveFromInstance
  <2>2. c \in Seq(Nat)
    BY Zenon, <1>1, <1>3 DEF TypesOK
  <2>3. 1 \in DOMAIN c /\ c[1] = seq
    BY <1>4, <2>2
  <2>4. Len(instances'[key[p]]) < dep.max_samples_per_instance
    <3>1. EraseChange(seq) /\ history' = history \ {seq}
      BY Zenon, <2>1 DEF RemoveChange
    <3>2. \A k \in Keys : (\E i \in DOMAIN instances[k] : instances[k][i] = seq) =>
             Len(instances'[k]) < dep.max_samples_per_instance
      BY Zenon, <1>1, <1>2, <3>1, Removal
    <3> QED
      BY Zenon, <1>3, <2>3, <3>2
  <2>5. place \in {"room", "add"}
    BY Zenon
  <2> HIDE DEF place, seq
  <2> QED
    BY Zenon, <1>2, <2>1, <2>4, <2>5, ThreadRemoves
<1>5. CASE ~(c # <<>> /\ Head(c) = seq)
  <2>1. Goto(p, "retry") /\ UNCHANGED <<history, acked, instances, may_remove, signalled>>
    BY Zenon, <1>5 DEF RemoveFromInstance
  <2>2. DataStays
    BY Zenon, <1>1, <1>2, <2>1 DEF DataStays, TypesOK
  <2>3. p \notin signalled
    BY Zenon, <1>1, <1>2 DEF ThreadsOK, Waiting
  <2>4. MovesTo(p, "retry")
    BY Zenon, <1>1, <1>2, <2>1, <2>3 DEF MovesTo, TypesOK, Owning
  <2>5. last_seq + Cardinality(Busy') <= dep.writes
    BY Zenon, <1>2, <2>1, StillBusy
  <2> QED
    BY Zenon, <2>2, <2>4, <2>5, PlaceStep
<1> QED
  BY Zenon, <1>4, <1>5

(* A new sample goes to the end of its instance. *)
LEMMA AddChangeInv ==
    ASSUME BlockingInv, NEW p \in dep.publishers, AddChange(p)
    PROVE  BlockingInv'
<1> DEFINE place == "idle"
           k == key[p]
           c == instances[k]
           n == last_seq + 1
<1>1. /\ TypesOK /\ ThreadsOK /\ InstancesOK /\ LimitsOK /\ AcksOK /\ RoomOK
      /\ last_seq + Cardinality(Busy) <= dep.writes
  BY Zenon DEF BlockingInv
<1>2. /\ pc[p] = "add" /\ pc[p] \in Owning /\ pc[p] # "idle" /\ Goto(p, place)
      /\ last_seq' = n /\ history' = history \cup {n}
      /\ instances' = [instances EXCEPT ![k] = Append(c, n)]
      /\ UNCHANGED <<dep, ackVars, acked, next_all_acked, may_remove, key, seq_to_remove, signalled>>
  BY Zenon DEF AddChange, Owning
<1>3. /\ p \in Publishers /\ k \in Keys /\ c \in Seq(Nat) /\ n \in Nat
      /\ dep.max_samples_per_instance \in Nat /\ dep.writes \in Nat
  BY <1>1, DepFacts DEF TypesOK
<1>4. /\ pc' \in [Publishers -> {"idle"} \cup Waiting \cup Owning]
      /\ pc'[p] = place /\ \A q \in Publishers : q # p => pc'[q] = pc[q]
      /\ ThreadsOK'
  <2>1. place \in {"idle"} \cup Waiting \cup Owning /\ place \notin Owning
    BY Zenon DEF Owning
  <2>2. p \notin signalled' /\ \A q \in signalled' : q \in Publishers /\ pc[q] \in Waiting
    BY Zenon, <1>1, <1>2 DEF ThreadsOK, Waiting
  <2> HIDE DEF place
  <2> QED
    BY Zenon, <1>1, <1>2, <1>3, <2>1, <2>2, GotoThreads
<1>5. \A q \in Publishers : pc'[q] \notin Owning
  BY Zenon, <1>1, <1>2, <1>3, <1>4 DEF ThreadsOK, Owning
<1>6. /\ instances' \in [Keys -> Seq(Nat)] /\ instances'[k] = Append(c, n)
      /\ \A l \in Keys : l # k => instances'[l] = instances[l]
  <2> DEFINE a == Append(c, n)
  <2>1. a \in Seq(Nat)
    BY <1>3
  <2> HIDE DEF a, c, k
  <2>2. instances' = [instances EXCEPT ![k] = a] /\ instances \in [Keys -> Seq(Nat)]
    BY Zenon, <1>1, <1>2 DEF a, TypesOK
  <2>3. instances' \in [Keys -> Seq(Nat)] /\ instances'[k] = a
        /\ \A l \in Keys : l # k => instances'[l] = instances[l]
    BY Zenon, <1>3, <2>1, <2>2
  <2> QED
    BY Zenon, <2>3 DEF a
<1>7. /\ Len(c) \in Nat /\ DOMAIN c = 1..Len(c) /\ Len(Append(c, n)) = Len(c) + 1
      /\ DOMAIN Append(c, n) = 1..(Len(c) + 1) /\ Append(c, n)[Len(c) + 1] = n
      /\ \A i \in 1..Len(c) : Append(c, n)[i] = c[i]
  <2> HIDE DEF c, n
  <2> QED
    BY <1>3
<1>8. TypesOK'
  <2>1. history' \subseteq 1..n /\ acked \in 0..n /\ next_all_acked \in 1..(n + 1)
    <3>1. /\ last_seq \in Nat /\ history \subseteq 1..last_seq
          /\ acked \in 0..last_seq /\ next_all_acked \in 1..n
      BY Zenon, <1>1 DEF TypesOK
    <3>2. ASSUME NEW s \in history' PROVE s \in 1..n
      <4>1. s = n \/ s \in 1..last_seq
        BY Zenon, <1>2, <3>1
      <4> QED
        BY <3>1, <4>1
    <3>3. acked \in 0..n /\ next_all_acked \in 1..(n + 1)
      BY <3>1
    <3> QED
      BY Zenon, <3>2, <3>3
  <2> HIDE DEF n, k, c
  <2> QED
    BY Zenon, <1>1, <1>2, <1>3, <1>4, <1>6, <2>1 DEF TypesOK
<1>9. n \notin history
  BY <1>1 DEF TypesOK
<1>10. InstancesOK'
  <2>1. ASSUME NEW l \in Keys, NEW i \in DOMAIN instances'[l]
        PROVE  \/ i \in DOMAIN instances[l] /\ instances'[l][i] = instances[l][i]
                  /\ instances[l][i] \in history
               \/ l = k /\ i = Len(c) + 1 /\ instances'[l][i] = n
    <3>1. CASE l # k
      BY Zenon, <1>1, <1>6, <3>1 DEF InstancesOK
    <3>2. CASE l = k /\ i \in DOMAIN c
      <4>1. instances'[l][i] = instances[l][i]
        BY Zenon, <1>6, <1>7, <3>2
      <4> QED
        BY Zenon, <1>1, <1>3, <3>2, <4>1 DEF InstancesOK
    <3>3. CASE l = k /\ i \notin DOMAIN c
      <4> HIDE DEF n
      <4>1. i \in 1..(Len(c) + 1) /\ i \notin 1..Len(c)
        BY Zenon, <1>6, <1>7, <3>3
      <4>2. i = Len(c) + 1
        BY <1>7, <4>1
      <4> QED
        BY Zenon, <1>6, <1>7, <3>3, <4>2
    <3> QED
      BY Zenon, <3>1, <3>2, <3>3
  <2>2. \A l \in Keys : \A i \in DOMAIN instances'[l] : instances'[l][i] \in history'
    <3> HIDE DEF n, c, k
    <3> QED
      BY <1>2, <2>1
  <2>3. ASSUME NEW s \in history'
        PROVE  \E l \in Keys : \E i \in DOMAIN instances'[l] : instances'[l][i] = s
    <3>1. CASE s = n
      <4>1. Len(c) + 1 \in DOMAIN instances'[k] /\ instances'[k][Len(c) + 1] = s
        BY <1>6, <1>7, <3>1
      <4> HIDE DEF k, c
      <4> QED
        BY Zenon, <1>3, <4>1
    <3>2. CASE s \in history
      <4>1. PICK l \in Keys : \E i \in DOMAIN instances[l] : instances[l][i] = s
        BY Zenon, <1>1, <3>2 DEF InstancesOK
      <4>2. PICK i \in DOMAIN instances[l] : instances[l][i] = s
        BY Zenon, <4>1
      <4>3. i \in DOMAIN instances'[l] /\ instances'[l][i] = s
        <5>1. CASE l # k
          BY Zenon, <1>6, <4>2, <5>1
        <5>2. CASE l = k
          <6>1. i \in 1..Len(c) /\ i \in 1..(Len(c) + 1)
            BY <1>7, <5>2
          <6> QED
            BY Zenon, <1>6, <1>7, <4>2, <5>2, <6>1
        <5> QED
          BY Zenon, <5>1, <5>2
      <4> QED
        BY Zenon, <4>3
    <3> QED
      BY Zenon, <1>2, <3>1, <3>2
  <2>4. ASSUME NEW l1 \in Keys, NEW l2 \in Keys, NEW i \in DOMAIN instances'[l1],
               NEW j \in DOMAIN instances'[l2], instances'[l1][i] = instances'[l2][j]
        PROVE  l1 = l2 /\ i = j
    <3>1. \A l, m \in Keys : \A x \in DOMAIN instances[l], y \in DOMAIN instances[m] :
             instances[l][x] = instances[m][y] => l = m /\ x = y
      BY Zenon, <1>1 DEF InstancesOK
    <3>2. \/ i \in DOMAIN instances[l1] /\ instances'[l1][i] = instances[l1][i]
             /\ instances[l1][i] \in history
          \/ l1 = k /\ i = Len(c) + 1 /\ instances'[l1][i] = n
      BY Zenon, <2>1
    <3>3. \/ j \in DOMAIN instances[l2] /\ instances'[l2][j] = instances[l2][j]
             /\ instances[l2][j] \in history
          \/ l2 = k /\ j = Len(c) + 1 /\ instances'[l2][j] = n
      BY Zenon, <2>1
    <3> HIDE DEF n, c, k
    <3> QED
      BY <1>9, <2>4, <3>1, <3>2, <3>3
  <2> QED
    BY Zenon, <2>2, <2>3, <2>4 DEF InstancesOK
<1>11. LimitsOK'
  <2>1. Len(c) < dep.max_samples_per_instance
    BY Zenon, <1>1, <1>2, <1>3 DEF LimitsOK
  <2>2. Len(instances'[k]) <= dep.max_samples_per_instance
    BY <1>3, <1>6, <1>7, <2>1
  <2>3. \A l \in Keys : Len(instances'[l]) <= dep.max_samples_per_instance
    BY Zenon, <1>1, <1>6, <2>2 DEF LimitsOK
  <2> QED
    BY Zenon, <1>2, <1>5, <2>3 DEF LimitsOK, Owning
<1>12. AcksOK'
  <2>1. ASSUME NEW s \in history', s < next_all_acked' PROVE s <= acked'
    <3>1. s # n
      BY <1>1, <1>2, <2>1 DEF TypesOK
    <3> QED
      BY Zenon, <1>1, <1>2, <2>1, <3>1 DEF AcksOK
  <2>2. may_remove' = 1 => \E s \in history' : s <= acked'
    BY Zenon, <1>1, <1>2 DEF AcksOK
  <2> QED
    BY Zenon, <1>5, <2>1, <2>2 DEF AcksOK, Owning
<1>13. RoomOK'
  <2>1. ASSUME Cardinality(dep.publishers) = 1, NEW q \in Publishers PROVE pc'[q] = "idle"
    BY Zenon, <1>1, <1>4, <2>1, OnlyOne
  <2> QED
    BY Zenon, <1>2, <1>5, <2>1 DEF RoomOK, Owning
<1>14. last_seq' + Cardinality(Busy') <= dep'.writes
  <2>1. Cardinality(Busy) \in Nat /\ Cardinality(Busy') = Cardinality(Busy) - 1
    BY Zenon, <1>1, <1>2, <1>3, BusyFacts
  <2> QED
    BY <1>1, <1>2, <1>3, <2>1 DEF TypesOK
<1> QED
  BY Zenon, <1>4, <1>8, <1>10, <1>11, <1>12, <1>13, <1>14 DEF BlockingInv

LEMMA CheckAckedStatusInv ==
    ASSUME BlockingInv, NEW n \in 0..MaxSeq, CheckAckedStatus(n)
    PROVE  BlockingInv'
<1>1. TypesOK /\ ThreadsOK /\ InstancesOK /\ LimitsOK /\ AcksOK /\ RoomOK
      /\ last_seq + Cardinality(Busy) <= dep.writes
  BY Zenon DEF BlockingInv
<1>2. /\ Unlocked /\ n >= acked /\ n <= last_seq /\ acked' = n
      /\ next_all_acked' = IF AllAcked(history, n) THEN last_seq + 1
                           ELSE IF next_all_acked <= n THEN n + 1 ELSE next_all_acked
      /\ may_remove' = IF history # {} /\ n >= MinSeq THEN 1 ELSE may_remove
      /\ NotifyOne({})
      /\ UNCHANGED <<dep, history, last_seq, instances, pc, key, seq_to_remove>>
  BY Zenon DEF CheckAckedStatus
<1>3. n \in Nat /\ last_seq \in Nat /\ acked \in Nat
  BY <1>1, BlockingAssumption DEF TypesOK
<1>4. TypesOK'
  <2>1. acked' \in 0..last_seq /\ may_remove' \in 0..2
    BY <1>1, <1>2, <1>3 DEF TypesOK
  <2>2. next_all_acked' \in 1..(last_seq + 1)
    BY <1>1, <1>2, <1>3 DEF TypesOK
  <2> QED
    BY Zenon, <1>1, <1>2, <2>1, <2>2 DEF TypesOK
<1>5. ThreadsOK'
  <2>1. \A q \in signalled' : q \in Publishers /\ pc[q] \in Waiting
    BY Zenon, <1>1, <1>2, NotifyFacts
  <2> QED
    BY Zenon, <1>1, <1>2, <2>1 DEF ThreadsOK
<1>6. InstancesOK' /\ LimitsOK' /\ last_seq' + Cardinality(Busy') <= dep'.writes
  BY <1>1, <1>2 DEF InstancesOK, LimitsOK, Busy
<1>7. AcksOK'
  <2>1. ASSUME NEW s \in history', s < next_all_acked' PROVE s <= acked'
    <3>1. s \in history /\ s \in Nat
      BY <1>1, <1>2 DEF TypesOK
    <3>2. s < next_all_acked => s <= acked
      BY Zenon, <1>1, <3>1 DEF AcksOK
    <3> QED
      BY <1>1, <1>2, <1>3, <2>1, <3>1, <3>2 DEF AllAcked, TypesOK
  <2>2. ASSUME may_remove' = 1 PROVE \E s \in history' : s <= acked'
    <3>1. CASE history # {} /\ n >= MinSeq
      BY Zenon, <1>1, <1>2, <3>1, MinSeqFacts
    <3>2. CASE ~(history # {} /\ n >= MinSeq)
      <4>1. PICK s \in history : s <= acked
        BY Zenon, <1>1, <1>2, <2>2, <3>2 DEF AcksOK
      <4>2. s \in Nat
        BY <1>1, <4>1 DEF TypesOK
      <4> QED
        BY <1>2, <1>3, <4>1, <4>2
    <3> QED
      BY Zenon, <3>1, <3>2
  <2>3. \A q \in Publishers : pc'[q] # "acked"
    BY Zenon, <1>2 DEF Unlocked, Waiting
  <2> QED
    BY Zenon, <2>1, <2>2, <2>3 DEF AcksOK
<1>8. RoomOK'
  BY <1>1, <1>2 DEF RoomOK, IsFull
<1> QED
  BY Zenon, <1>4, <1>5, <1>6, <1>7, <1>8 DEF BlockingInv

LEMMA LifespanExpiredInv ==
    ASSUME BlockingInv, LifespanExpired
    PROVE  BlockingInv'
<1>1. TypesOK /\ ThreadsOK /\ last_seq + Cardinality(Busy) <= dep.writes
  BY Zenon DEF BlockingInv
<1> DEFINE awake == {}
<1>2. /\ Unlocked /\ RemoveChange(MinSeq, awake)
      /\ UNCHANGED <<dep, last_seq, next_all_acked, pc, key, seq_to_remove>>
  BY Zenon DEF LifespanExpired
<1>3. ThreadsOK'
  <2>1. NotifyOne(awake)
    BY Zenon, <1>2 DEF RemoveChange
  <2>2. \A q \in signalled' : q \in Publishers /\ pc[q] \in Waiting
    BY Zenon, <1>1, <2>1, NotifyFacts
  <2> QED
    BY Zenon, <1>1, <1>2, <2>2 DEF ThreadsOK
<1>4. pc' \in [Publishers -> {"idle"} \cup Waiting \cup Owning]
      /\ \A q \in Publishers : pc'[q] # "full" /\ pc'[q] # "acked" /\ pc'[q] # "add"
  BY Zenon, <1>1, <1>2 DEF TypesOK, Unlocked, Waiting
<1>5. last_seq + Cardinality(Busy') <= dep.writes
  BY Zenon, <1>1, <1>2 DEF Busy
<1> HIDE DEF awake
<1> QED
  BY Zenon, <1>2, <1>3, <1>4, <1>5, RemovalStep

(* A step that only changes what wait_for_all_acked() looks at. *)
LEMMA WaiterInv ==
    ASSUME BlockingInv,
           UNCHANGED <<dep, history, last_seq, instances, acked, next_all_acked, may_remove, pc,
                       key, seq_to_remove, signalled>>
    PROVE  BlockingInv'
<1>1. TypesOK /\ ThreadsOK /\ InstancesOK /\ LimitsOK /\ AcksOK /\ RoomOK
      /\ last_seq + Cardinality(Busy) <= dep.writes
  BY Zenon DEF BlockingInv
<1>2. TypesOK' /\ ThreadsOK' /\ InstancesOK' /\ LimitsOK'
  BY <1>1 DEF TypesOK, ThreadsOK, InstancesOK, LimitsOK
<1>3. AcksOK' /\ RoomOK' /\ last_seq' + Cardinality(Busy') <= dep'.writes
  BY Zenon, <1>1 DEF AcksOK, RoomOK, IsFull, Busy
<1> QED
  BY Zenon, <1>2, <1>3 DEF BlockingInv

LEMMA BlockingInit ==
    ASSUME Init
    PROVE  BlockingInv
<1>1. /\ dep \in Deployments /\ history = {} /\ last_seq = 0
      /\ instances = [k \in Keys |-> <<>>]
      /\ acked = 0 /\ next_all_acked = 1 /\ may_remove = 0
      /\ pc = [p \in Publishers |-> "idle"]
      /\ seq_to_remove = [p \in Publishers |-> 0] /\ signalled = {}
  BY Zenon DEF Init
<1>2. key \in [Publishers -> Keys]
  <2>1. (CHOOSE k \in Keys : TRUE) \in Keys
    BY Zenon, BlockingAssumption
  <2> QED
    BY Zenon, <2>1 DEF Init
<1>3. TypesOK
  <2>1. instances \in [Keys -> Seq(Nat)]
    BY <1>1
  <2> QED
    BY <1>1, <1>2, <2>1 DEF TypesOK
<1>4. ThreadsOK
  BY Zenon, <1>1 DEF ThreadsOK, Owning
<1>5. InstancesOK
  BY <1>1 DEF InstancesOK
<1>6. LimitsOK /\ AcksOK /\ RoomOK
  BY <1>1, <1>3, DepFacts DEF LimitsOK, AcksOK, RoomOK
<1>7. last_seq + Cardinality(Busy) <= dep.writes
  <2>1. Busy = {}
    BY Zenon, <1>1 DEF Busy
  <2> QED
    BY <1>1, <2>1, FS_EmptySet, DepFacts
<1> QED
  BY Zenon, <1>3, <1>4, <1>5, <1>6, <1>7 DEF BlockingInv

(* BlockingInv is inductive. *)
LEMMA BlockingNext ==
    ASSUME BlockingInv, [Next]_vars
    PROVE  BlockingInv'
<1>1. ASSUME NEW p \in dep.publishers,
             \/ \E k \in Keys : Write(p, k)
             \/ RemoveAcked(p) \/ AwaitRemoval(p) \/ EndRemovalWait(p) \/ SleepAgain(p)
             \/ WriteTimesOut(p) \/ CheckInstance(p) \/ EndAckWait(p) \/ RemoveFromInstance(p)
             \/ AddChange(p)
      PROVE  BlockingInv'
  BY Zenon, <1>1, WriteInv, RemoveAckedInv, AwaitRemovalInv, EndRemovalWaitInv, SleepAgainInv,
     WriteTimesOutInv, CheckInstanceInv, EndAckWaitInv, RemoveFromInstanceInv, AddChangeInv
<1>2. ASSUME NEW w \in Waiters, WaitForAllAcked(w) \/ AllAckedReturns(w) \/ AllAckedNotYet(w)
      PROVE  BlockingInv'
  BY Zenon, <1>2, WaiterInv DEF WaitForAllAcked, AllAckedReturns, AllAckedNotYet
<1>3. CASE UNCHANGED vars
  BY Zenon, <1>3, WaiterInv DEF vars
<1> QED
  BY Zenon, <1>1, <1>2, <1>3, CheckAckedStatusInv, LifespanExpiredInv DEF Next

THEOREM BlockingInvariance == Spec => []BlockingInv
<1>1. Init => BlockingInv
  BY Zenon, BlockingInit
<1>2. BlockingInv /\ [Next]_vars => BlockingInv'
  BY Zenon, BlockingNext
<1> QED
  BY <1>1, <1>2, PTL DEF Spec

-----------------------------------------------------------------------------
(* StateConsistent: m_changes and the cache_changes of the instances hold  *)
(* the same samples, within the limits, and the mutex has one owner, at    *)
(* every step of any number of threads.                                    *)
THEOREM HistoryConsistent == Spec => []StateConsistent
<1>1. BlockingInv => StateConsistent
  <2> SUFFICES ASSUME BlockingInv PROVE StateConsistent
    BY Zenon
  <2>1. TypesOK /\ ThreadsOK /\ InstancesOK /\ LimitsOK
        /\ last_seq + Cardinality(Busy) <= dep.writes
    BY Zenon DEF BlockingInv
  <2>2. last_seq \in 0..dep.writes
    <3>1. IsFiniteSet(Busy)
      BY Zenon, BlockingAssumption, FS_Subset DEF Busy
    <3>2. Cardinality(Busy) \in Nat /\ dep.writes \in Nat /\ last_seq \in Nat
      BY Zenon, <2>1, <3>1, FS_CardinalityType, DepFacts DEF TypesOK
    <3> QED
      BY <2>1, <3>2
  <2>3. Cardinality(history) <= dep.max_samples
    BY Zenon, <2>1, HistoryFits DEF LimitsOK
  <2>4. ASSUME NEW k \in Keys
        PROVE  instances[k] \in Seq(history) /\ Range(instances[k]) \subseteq history
    <3> DEFINE c == instances[k]
    <3>1. c \in Seq(Nat) /\ \A i \in DOMAIN c : c[i] \in history
      BY Zenon, <2>1 DEF TypesOK, InstancesOK
    <3> HIDE DEF c
    <3>2. c \in Seq(history)
      BY <3>1
    <3>3. Range(c) \subseteq history
      BY Zenon, <3>1 DEF Range
    <3> QED
      BY Zenon, <3>2, <3>3 DEF c
  <2>5. \A p, q \in Publishers : p # q => {pc[p], pc[q]} \cap ({"idle"} \cup Waiting) # {}
    BY Zenon, <2>1 DEF ThreadsOK, TypesOK
  <2>6. TypeOK
    BY Zenon, <2>1, <2>2, <2>3, <2>4, <2>5 DEF TypeOK, TypesOK, ThreadsOK
  <2>7. UNION {Range(instances[k]) : k \in Keys} = history
    <3>1. \A s \in history : \E k \in Keys : s \in Range(instances[k])
      BY <2>1 DEF InstancesOK, Range
    <3> QED
      BY Zenon, <2>4, <3>1
  <2>8. \A k, l \in Keys : k # l => Range(instances[k]) \cap Range(instances[l]) = {}
    BY <2>1 DEF InstancesOK, Range
  <2> QED
    BY Zenon, <2>6, <2>7, <2>8 DEF StateConsistent, InstancesMatchHistory
<1> QED
  BY <1>1, BlockingInvariance, PTL

(* RoomForOne: a publishing thread that is the only one of its writer      *)
(* finds room in the history after try_remove_change(), so that            *)
(* assert(!m_isHistoryFull) of prepare_change() holds.                     *)
THEOREM OneFindsRoom == Spec => []RoomForOne
<1>1. BlockingInv => RoomForOne
  BY Zenon DEF BlockingInv, RoomOK, RoomForOne, RoomAfterRemove
<1> QED
  BY <1>1, BlockingInvariance, PTL

(* RemovedIsAcked: a thread that needs room in the history or in its       *)
(* instance takes out only what every reader acknowledged, whatever the    *)
(* other threads do between its wake-up and its turn.                      *)
THEOREM RemovesOnlyAcked == Spec => RemovedIsAcked
<1> DEFINE OK == \A seq \in history \ history' : seq <= acked \/ LifespanExpired
<1>1. ASSUME BlockingInv, Next PROVE OK
  <2>1. TypesOK /\ AcksOK
    BY Zenon, <1>1 DEF BlockingInv
  <2>2. \A seq, awake : RemoveChange(seq, awake) => history' = history \ {seq}
    BY Zenon DEF RemoveChange
  <2>3. ASSUME NEW p \in dep.publishers, RemoveAcked(p), NEW seq \in history \ history'
        PROVE  seq <= acked
    <3>1. seq = MinSeq /\ next_all_acked - 1 >= MinSeq
      BY Zenon, <2>2, <2>3 DEF RemoveAcked
    <3>2. seq < next_all_acked
      BY <2>1, <3>1 DEF TypesOK
    <3> QED
      BY Zenon, <2>1, <3>2 DEF AcksOK
  <2>4. ASSUME NEW p \in dep.publishers, EndRemovalWait(p), NEW seq \in history \ history'
        PROVE  seq <= acked
    <3>1. seq = MinSeq /\ may_remove = 1
      BY <2>2, <2>4 DEF EndRemovalWait
    <3>2. PICK s \in history : s <= acked
      BY Zenon, <2>1, <3>1 DEF AcksOK
    <3>3. MinSeq \in Nat /\ MinSeq <= s /\ s \in Nat /\ acked \in Nat
      BY <2>1, <3>2, MinSeqFacts DEF TypesOK
    <3> QED
      BY <3>1, <3>2, <3>3
  <2>5. ASSUME NEW p \in dep.publishers, RemoveFromInstance(p), NEW seq \in history \ history'
        PROVE  seq <= acked
    <3>1. pc[p] = "acked" /\ seq = seq_to_remove[p] /\ p \in Publishers
      BY Zenon, <2>1, <2>2, <2>5, DepFacts DEF RemoveFromInstance, TypesOK
    <3> QED
      BY Zenon, <2>1, <3>1 DEF AcksOK
  <2>6. ASSUME NEW p \in dep.publishers,
               \/ \E k \in Keys : Write(p, k)
               \/ AwaitRemoval(p) \/ SleepAgain(p) \/ WriteTimesOut(p) \/ CheckInstance(p)
               \/ EndAckWait(p) \/ AddChange(p)
        PROVE  history \ history' = {}
    BY Zenon, <2>6 DEF Write, AwaitRemoval, SleepAgain, WriteTimesOut, CheckInstance, EndAckWait, AddChange
  <2>7. ASSUME NEW n \in 0..MaxSeq, CheckAckedStatus(n) PROVE history \ history' = {}
    BY Zenon, <2>7 DEF CheckAckedStatus
  <2>8. ASSUME NEW w \in Waiters, WaitForAllAcked(w) \/ AllAckedReturns(w) \/ AllAckedNotYet(w)
        PROVE  history \ history' = {}
    BY Zenon, <2>8 DEF WaitForAllAcked, AllAckedReturns, AllAckedNotYet
  <2> QED
    BY Zenon, <1>1, <2>3, <2>4, <2>5, <2>6, <2>7, <2>8 DEF Next
<1>2. BlockingInv /\ [Next]_vars => [OK]_vars
  BY Zenon, <1>1
<1> QED
  BY <1>2, BlockingInvariance, PTL DEF Spec, RemovedIsAcked

(* TrueMeansAcked: wait_for_all_acked() returns true only if all was       *)
(* acknowledged at some time since its call, for any number of callers.    *)
THEOREM TrueIsAcked == Spec => []TrueMeansAcked
<1>1. Init => TrueMeansAcked
  BY Zenon DEF Init, TrueMeansAcked
<1>2. ASSUME TrueMeansAcked, UNCHANGED <<all_acked, waiting>>,
             acked_since' = waiting \/ acked_since' = acked_since
      PROVE  TrueMeansAcked'
  BY Zenon, <1>2 DEF TrueMeansAcked
<1>3. NoteAllAcked => acked_since' = waiting \/ acked_since' = acked_since
  BY Zenon DEF NoteAllAcked
<1>4. ASSUME TrueMeansAcked, NEW p \in dep.publishers,
             \/ \E k \in Keys : Write(p, k)
             \/ AwaitRemoval(p) \/ SleepAgain(p) \/ WriteTimesOut(p) \/ CheckInstance(p)
             \/ EndAckWait(p) \/ AddChange(p)
      PROVE  TrueMeansAcked'
  BY Zenon, <1>2, <1>4 DEF Write, AwaitRemoval, SleepAgain, WriteTimesOut, CheckInstance, EndAckWait,
                    AddChange, ackVars
<1>5. ASSUME TrueMeansAcked, NEW p \in dep.publishers,
             RemoveAcked(p) \/ EndRemovalWait(p) \/ RemoveFromInstance(p)
      PROVE  TrueMeansAcked'
  BY Zenon, <1>2, <1>3, <1>5 DEF RemoveAcked, EndRemovalWait, RemoveFromInstance, RemoveChange
<1>6. TrueMeansAcked /\ LifespanExpired => TrueMeansAcked'
  BY Zenon, <1>2, <1>3 DEF LifespanExpired, RemoveChange
<1>7. ASSUME TrueMeansAcked, NEW n \in 0..MaxSeq, CheckAckedStatus(n) PROVE TrueMeansAcked'
  <2>1. /\ waiting' = waiting /\ all_acked' = (all_acked \/ AllAcked(history, n))
        /\ acked_since' = IF AllAcked(history, n) THEN waiting ELSE acked_since
    BY Zenon, <1>7 DEF CheckAckedStatus, NoteAllAcked
  <2> QED
    BY Zenon, <1>7, <2>1 DEF TrueMeansAcked
<1>8. ASSUME TrueMeansAcked, NEW w \in Waiters, WaitForAllAcked(w) PROVE TrueMeansAcked'
  BY Zenon, <1>8 DEF WaitForAllAcked, TrueMeansAcked
<1>9. ASSUME TrueMeansAcked, NEW w \in Waiters, AllAckedReturns(w) \/ AllAckedNotYet(w)
      PROVE  TrueMeansAcked'
  BY Zenon, <1>9 DEF AllAckedReturns, AllAckedNotYet, TrueMeansAcked
<1>10. TrueMeansAcked /\ UNCHANGED vars => TrueMeansAcked'
  BY Zenon, <1>2 DEF vars, ackVars
<1>11. TrueMeansAcked /\ [Next]_vars => TrueMeansAcked'
  BY Zenon, <1>4, <1>5, <1>6, <1>7, <1>8, <1>9, <1>10 DEF Next
<1> QED
  BY <1>1, <1>11, PTL DEF Spec

=============================================================================
