-------------------------- MODULE ReliableDelivery --------------------------
(***************************************************************************)
(* What reliable communication promises to its users, without proxies,     *)
(* messages or timers: samples are published, kept for a while, delivered  *)
(* to each reader in order and once, and confirmed when they were.         *)
(* ReliableRTPS implements it.                                             *)
(***************************************************************************)
EXTENDS Integers

CONSTANTS
    Readers,
    Lossless,           \* readers that may not miss a sample (KEEP_ALL)
    Irrelevant          \* <<reader, number>> pairs a filter drops

VARIABLES
    published,          \* number of samples published
    available,          \* numbers of the samples the writer still has
    owed_from,          \* per reader, the last number it is not owed
    position,           \* per reader, how far it has come
    delivered,          \* per reader, the numbers given to the user
    confirmed           \* per reader, the samples the writer takes as received

deliveryVars == <<published, available, owed_from, position, delivered, confirmed>>

Owed(r) == {s \in available : s > owed_from[r] /\ <<r, s>> \notin Irrelevant}

(* Only what was delivered is ever confirmed. *)
ConfirmationsTrue == \A r \in Lossless : confirmed'[r] \subseteq delivered[r]

(* A reader is not beyond a sample that it is owed and was not given. *)
NothingPassed(r) == \A s \in Owed(r)' : s <= position[r] => s \in delivered[r]

Init ==
    /\ published = 0 /\ available = {}
    /\ owed_from = [r \in Readers |-> 0]
    /\ position = [r \in Readers |-> 0]
    /\ delivered = [r \in Readers |-> {}]
    /\ confirmed = [r \in Readers |-> {}]

(* The writer publishes a sample; nobody may need it. *)
Publish ==
    /\ published' = published + 1
    /\ available' \subseteq available \cup {published'}
    /\ ConfirmationsTrue
    /\ UNCHANGED <<owed_from, position, delivered>>

(* The writer learns what arrived, or loses a reader, and drops samples. *)
Settle ==
    /\ available' \subseteq available
    /\ ConfirmationsTrue
    /\ UNCHANGED <<published, owed_from, position, delivered>>

(* A reader joins, perhaps not for the first time. *)
Join(r) ==
    /\ owed_from' = [owed_from EXCEPT ![r] = owed_from'[r]]
    /\ owed_from'[r] <= published
    /\ r \in Lossless => NothingPassed(r)
    /\ ConfirmationsTrue
    /\ UNCHANGED <<published, available, position, delivered>>

(* Reader r comes to a later position: what its user is given on the way   *)
(* lies beyond all that was given before, and misses nothing it is owed.   *)
Deliver(r) ==
    LET passed == (position[r] + 1)..position'[r]
        given  == delivered'[r] \ delivered[r]
    IN  /\ position' = [position EXCEPT ![r] = position'[r]]
        /\ position[r] <= position'[r] /\ position'[r] <= published
        /\ delivered' = [delivered EXCEPT ![r] = @ \cup given]
        /\ given \subseteq passed
        /\ r \in Lossless => Owed(r) \cap passed \subseteq given
        /\ UNCHANGED <<published, available, owed_from, confirmed>>

Next ==
    \/ Publish
    \/ Settle
    \/ \E r \in Readers : Join(r) \/ Deliver(r)

Spec == Init /\ [][Next]_deliveryVars

=============================================================================
