--------------------------- MODULE MCBlockingWrite ---------------------------
(* Instances of BlockingWrite for TLC, with model values for the threads *)
(* and the instances.                                                    *)
EXTENDS BlockingWrite

CONSTANTS p1, p2, k1, k2, w1, w2

(* One publisher that blocks, against acknowledgements and expirations. *)
One == [publishers |-> {p1}, waiters |-> {}, max_samples |-> 4, max_samples_per_instance |-> 2,
        may_timeout |-> FALSE, lifespan |-> TRUE, writes |-> 6]

(* Two publishers that block until their timeouts. *)
Two == [One EXCEPT !.publishers = {p1, p2}, !.max_samples = 2, !.max_samples_per_instance = 1,
                   !.may_timeout = TRUE, !.writes = 5]

(* A thread waits for the acknowledgement of all; two do. *)
OneWaiter == [One EXCEPT !.waiters = {w1}, !.lifespan = FALSE, !.max_samples = 2,
                         !.max_samples_per_instance = 1, !.writes = 5]
TwoWaiters == [OneWaiter EXCEPT !.waiters = {w1, w2}, !.may_timeout = TRUE, !.lifespan = TRUE,
                                !.writes = 3]

AllDeployments == {One, Two, OneWaiter, TwoWaiters}
OnlyTwo == {[Two EXCEPT !.may_timeout = FALSE, !.lifespan = FALSE, !.max_samples_per_instance = 2,
                        !.writes = 5]}
=============================================================================
