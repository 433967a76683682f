--------------------------- MODULE MCSharedMemory ---------------------------
(* Instances of SharedMemory for TLC. *)
EXTENDS SharedMemory

CONSTANTS s1, s2, u1, m1, l1, l2

(* Two senders to one unicast port, each with a single buffer. *)
TwoSenders ==
    [dest |-> (s1 :> <<u1>> @@ s2 :> <<u1>>), port |-> (l1 :> u1),
     listeners |-> {l1}, exclusive |-> {u1}, closed |-> {},
     cells |-> 2, nodes |-> 1, bytes |-> 2, sizes |-> {1}, messages |-> 3]

(* One sender to a unicast port whose listener is closed. *)
UnicastClosed ==
    [dest |-> (s1 :> <<u1>> @@ s2 :> <<>>), port |-> (l1 :> u1),
     listeners |-> {l1}, exclusive |-> {u1}, closed |-> {l1},
     cells |-> 1, nodes |-> 2, bytes |-> 2, sizes |-> {1, 2}, messages |-> 3]

(* One sender to a multicast port with two listeners. *)
Multicast ==
    [dest |-> (s1 :> <<m1>> @@ s2 :> <<>>), port |-> (l1 :> m1 @@ l2 :> m1),
     listeners |-> {l1, l2}, exclusive |-> {}, closed |-> {l2},
     cells |-> 1, nodes |-> 1, bytes |-> 2, sizes |-> {1}, messages |-> 2]

(* One sender to a unicast and a multicast port. *)
Both ==
    [dest |-> (s1 :> <<u1, m1>> @@ s2 :> <<>>), port |-> (l1 :> u1 @@ l2 :> m1),
     listeners |-> {l1, l2}, exclusive |-> {u1}, closed |-> {},
     cells |-> 1, nodes |-> 1, bytes |-> 2, sizes |-> {1}, messages |-> 2]

AllDeployments == {TwoSenders, UnicastClosed, Multicast, Both}

=============================================================================
