--------------------------- MODULE MC_OutboxRelay ---------------------------
(* OutboxRelay for TLC: its constants are numbers, given in the .cfg.      *)
EXTENDS OutboxRelay
=============================================================================
