---------------------------- MODULE MCTimedEvents ----------------------------
(* TimedEvents with model values for timers and client threads. *)
EXTENDS TimedEvents

CONSTANTS t1, t2, c1, c2, c3
=============================================================================
