------------------------------ MODULE MCBacklog ------------------------------
(***************************************************************************)
(* Three frames within eight ticks of a tenth of a second: long enough for *)
(* rises that are not steep, 26-30-34 with three ticks between, to be      *)
(* assessed within one tick.                                               *)
(***************************************************************************)
EXTENDS Backlog

MCPressures == {26, 30, 34}
MCGaps      == 0 .. 7
==============================================================================
