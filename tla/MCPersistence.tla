--------------------------- MODULE MCPersistence ---------------------------
(* Persistence for TLC; its constants are numbers, given in the configuration. *)
EXTENDS Persistence
=============================================================================
