-------------------------- MODULE MCSafetyController --------------------------
(***************************************************************************)
(* SafetyController on a small instance: the code's thresholds, windows of *)
(* three samples.  MCPressures reaches each level: 36 is at the limit, 30  *)
(* at the warning level, 20-25-30 a ramp that breaches, 25-29-28 a surge   *)
(* that slows down, 29-25-30 a surge by acceleration.                      *)
(***************************************************************************)
EXTENDS SafetyController

MCPressures == {20, 25, 28, 29, 30, 36}
MCGaps      == {0, 1, 2}
MCDemands   == {0, 400}
MCOpenings  == {0, 1000}
==============================================================================
