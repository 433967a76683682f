-------------------------- MODULE MCKeepAllWriters --------------------------
(***************************************************************************)
(* KEEP_ALL writers of different QoS for TLC: the instance of ReliableRTPS *)
(* that the constants give, a pull-mode writer at its limit that makes     *)
(* room with try_remove_change(), for a reader with room for one sample;   *)
(* and a second instance.  writer says which one a behaviour is of.        *)
(***************************************************************************)
EXTENDS ReliableRTPS

CONSTANT r1

VARIABLE writer

(* A VOLATILE writer removes what its readers have acknowledged, and sends *)
(* of the publishing thread fail.                                          *)
Volatile == INSTANCE ReliableRTPS WITH
    VolatileWriter <- TRUE, PushMode <- TRUE, ManualLiveliness <- FALSE, SendMayFail <- TRUE,
    MaxHeartbeats <- 3, ReaderDepth <- 2

ASSUME VolatileAssumption == Volatile!WriterAssumption

WritersInit == \/ writer = "full" /\ Init
               \/ writer = "volatile" /\ Volatile!Init

WritersNext == /\ writer' = writer
               /\ \/ writer = "full" /\ Next
                  \/ writer = "volatile" /\ Volatile!Next

WritersSpec == WritersInit /\ [][WritersNext]_<<writer, vars>>

-----------------------------------------------------------------------------
(* Nothing is stuck between a pull-mode writer and a reader history        *)
(* smaller than what it offers: each sample held for the reader has a      *)
(* timer that moves it on, and received_change() leaves room for the one   *)
(* that fills a hole.                                                      *)
NothingStuck == writer = "full" => NoStall /\ FutureSamplesLeaveRoom

=============================================================================
