---------------------------- MODULE MCFlowController ----------------------------
(* Instances of FlowController: one deployment for each scheduler and each *)
(* mode.                                                                   *)
EXTENDS FlowController

Samples(m, n) == [w \in Writers |-> IF w = 1 THEN m ELSE n]

Fifo == [sched |-> "FIFO", writers |-> {1, 2}, mode |-> "sync", priority |-> [w \in Writers |-> 0],
         reservation |-> [w \in Writers |-> 0], limit |-> 0, size |-> 1, overhead |-> 0,
         volatile |-> FALSE, resends |-> {1, 2}, destroys |-> {1}, samples |-> Samples(2, 1), may_fail |-> TRUE,
         watched |-> <<2, 1>>]
RoundRobin == [Fifo EXCEPT !.sched = "ROUND_ROBIN", !.mode = "async", !.writers = {1, 2, 3},
                 !.samples = Samples(1, 1), !.resends = {1}, !.destroys = {2},
                 !.may_fail = FALSE]
HighPriority == [Fifo EXCEPT !.sched = "HIGH_PRIORITY", !.mode = "async", !.destroys = {},
                    !.priority = [w \in Writers |-> w % 2], !.volatile = TRUE]
Limited == [Fifo EXCEPT !.mode = "limited", !.limit = 2, !.overhead = 2, !.destroys = {},
                 !.may_fail = FALSE]
Reservation == [Limited EXCEPT !.sched = "PRIORITY_WITH_RESERVATION", !.limit = 3, !.overhead = 0,
                    !.reservation = [w \in Writers |-> 2], !.may_fail = TRUE]

AllDeployments == {Fifo, RoundRobin, HighPriority, Limited, Reservation}
=============================================================================
