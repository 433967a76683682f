---------------------------- MODULE WriterProxy ----------------------------
(***************************************************************************)
(* The reader's view of one remote writer: the sequence-number bookkeeping *)
(* of src/src/cpp/rtps/reader/WriterProxy.cpp as functions of a proxy      *)
(* record.  StatefulReader.tla turns them into actions.                    *)
(*                                                                         *)
(*   alive         is_alive_ (FALSE while state_ is STOPPED)               *)
(*   low_mark      changes_from_writer_low_mark_                           *)
(*   max_seq       max_sequence_number_                                    *)
(*   received      changes_received_, numbers received above the low mark  *)
(*   last_notified last_notified_                                          *)
(*   hb_count      last_heartbeat_count_                                   *)
(*   hb_final      heartbeat_final_flag_                                   *)
(*   hb_response   heartbeat_response_ is armed                            *)
(*   init_acknack  initial_acknack_ is armed                               *)
(***************************************************************************)
EXTENDS Integers, FiniteSetsExt

WriterProxyType ==
    [alive : BOOLEAN, low_mark : Nat, max_seq : Nat, received : SUBSET Nat,
     last_notified : Nat, hb_count : Nat, hb_final : BOOLEAN,
     hb_response : BOOLEAN, init_acknack : BOOLEAN]

(* A proxy in the pool, as stop() and clear() leave it. *)
StoppedWriterProxy ==
    [alive |-> FALSE, low_mark |-> 0, max_seq |-> 0, received |-> {},
     last_notified |-> 0, hb_count |-> 0, hb_final |-> FALSE,
     hb_response |-> FALSE, init_acknack |-> FALSE]

(* Mutant: the proxy forgets what was notified. *)
StartWriterProxyFromZero(initial_sequence) ==
    [StoppedWriterProxy EXCEPT !.alive = TRUE, !.init_acknack = TRUE]

(* start(): the marks begin at the last number notified to the user. *)
StartWriterProxy(initial_sequence) ==
    [StoppedWriterProxy EXCEPT !.alive = TRUE,
                               !.init_acknack = TRUE,
                               !.low_mark = initial_sequence,
                               !.max_seq = initial_sequence,
                               !.last_notified = initial_sequence]

(* cleanup(): the low mark jumps over the consecutive received numbers. *)
Cleanup(wp) ==
    LET next == Min({n \in (wp.low_mark + 1)..(wp.max_seq + 1) : n \notin wp.received})
    IN  [wp EXCEPT !.low_mark = next - 1,
                   !.received = {s \in wp.received : s > next}]

MissingChangesUpdate(wp, seq) ==
    IF seq > wp.low_mark /\ seq > wp.max_seq THEN [wp EXCEPT !.max_seq = seq] ELSE wp

(* Mutant: seq itself is also taken as lost. *)
LostChangesUpdateInclusive(wp, seq) ==
    IF seq > wp.low_mark + 1
    THEN Cleanup([wp EXCEPT !.received = {s \in wp.received : s > seq},
                            !.low_mark = seq,
                            !.max_seq  = IF seq > wp.max_seq THEN seq ELSE wp.max_seq])
    ELSE wp

(* Everything below seq is no longer offered by the writer. *)
LostChangesUpdate(wp, seq) ==
    IF seq > wp.low_mark + 1
    THEN Cleanup([wp EXCEPT !.received = {s \in wp.received : s >= seq},
                            !.low_mark = seq - 1,
                            !.max_seq  = IF seq - 1 > wp.max_seq THEN seq - 1 ELSE wp.max_seq])
    ELSE wp

ChangeWasReceived(wp, seq) == seq <= wp.low_mark \/ seq \in wp.received

(* received_change_set() and irrelevant_change_set(). *)
ReceivedChangeSet(wp, seq) ==
    IF seq <= wp.low_mark THEN wp
    ELSE IF seq > wp.max_seq
         THEN IF seq = wp.low_mark + 1
              THEN [wp EXCEPT !.low_mark = seq, !.max_seq = seq]
              ELSE [wp EXCEPT !.received = wp.received \cup {seq}, !.max_seq = seq]
         ELSE IF seq = wp.low_mark + 1
              THEN Cleanup([wp EXCEPT !.low_mark = seq])
              ELSE [wp EXCEPT !.received = wp.received \cup {seq}]

(* irrelevant_change_set() of every number of a GAP in ascending order.    *)
IrrelevantChangesSet(wp, seqs) ==
    Cleanup([wp EXCEPT !.received = wp.received \cup {s \in seqs : s > wp.low_mark},
                       !.max_seq  = Max({wp.max_seq} \cup seqs)])

AreThereMissingChanges(wp) == wp.low_mark < wp.max_seq

(* The bitmap of an ACKNACK holds 256 numbers; MissingWindow is that bound. *)
MissingWindow == 256
MissingChanges(wp) ==
    {s \in (wp.low_mark + 1)..wp.max_seq :
        s \notin wp.received /\ s <= wp.low_mark + MissingWindow}

(* Numbers below seq that are not received yet. *)
UnknownMissingChangesUpTo(wp, seq) ==
    Cardinality({s \in (wp.low_mark + 1)..(seq - 1) : s \notin wp.received})

(* process_heartbeat() of a remote writer with positive acknowledgements. *)
HeartbeatAccepted(wp, count) == wp.alive /\ wp.hb_count < count

(* Mutant: the last number is taken as the next one. *)
ProcessHeartbeatPastLast(wp, first, last, count, final, liveliness) ==
    LET lost == LostChangesUpdate([wp EXCEPT !.hb_count = count, !.hb_final = final], first)
    IN  [MissingChangesUpdate(lost, last + 1) EXCEPT !.hb_response = TRUE]

ProcessHeartbeat(wp, first, last, count, final, liveliness) ==
    LET lost == LostChangesUpdate([wp EXCEPT !.hb_count = count, !.hb_final = final], first)
        upd  == MissingChangesUpdate(lost, last)
    IN  IF \/ ~final
           \/ final /\ ~liveliness /\ AreThereMissingChanges(upd)
        THEN [upd EXCEPT !.hb_response = TRUE]
        ELSE upd

=============================================================================
