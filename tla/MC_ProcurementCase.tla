------------------------- MODULE MC_ProcurementCase -------------------------
(* Instances of ProcurementCase for TLC.                                   *)
EXTENDS ProcurementCase

CONSTANTS
  t1, t2,             \* two calls of resolve_approval
  bob,                \* a procurement manager
  telegram, autopilot \* the labels of the polling bot and of auto-approval
=============================================================================
