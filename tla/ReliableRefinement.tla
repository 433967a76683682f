------------------------- MODULE ReliableRefinement -------------------------
(***************************************************************************)
(* ReliableRTPS as an implementation of ReliableDelivery.                  *)
(***************************************************************************)
EXTENDS ReliableRTPS

(* What the user sees of the protocol. *)
Confirmed == [r \in Readers |->
    IF rp[r].active THEN {s \in Owed(r) : ChangeIsAcked(rp[r], s)} ELSE {}]

Delivery == INSTANCE ReliableDelivery WITH
    Lossless <- KeepAllReaders, published <- last_seq, available <- history,
    owed_from <- join_seq, position <- record, delivered <- notified,
    confirmed <- Confirmed

(* Writer, readers, timers and network together implement the delivery     *)
(* that users are promised: in order, once, without a gap for a KEEP_ALL   *)
(* reader, and acknowledged only when done.                                *)
ImplementsDelivery == Delivery!Spec

=============================================================================
