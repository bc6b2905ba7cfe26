---------------------------- MODULE MCFrameOutput ----------------------------
(***************************************************************************)
(* Two clients, one of which may stop reading, and room for one at a time; *)
(* JSON lines to clients or to a file, or CSV rows to a file, through a    *)
(* buffer that is full in the middle of the second row.                    *)
(***************************************************************************)
EXTENDS FrameOutput, TLC

CONSTANTS reader, staller

MCClients == {reader, staller}
MCHabits  == (reader :> {"departs"}) @@ (staller :> {"sends", "stalls"})
MCConfigs == {[csv |-> FALSE, file |-> FALSE, tcp |-> TRUE, slow |-> FALSE],
              [csv |-> FALSE, file |-> TRUE, tcp |-> FALSE, slow |-> TRUE],
              [csv |-> TRUE, file |-> TRUE, tcp |-> FALSE, slow |-> TRUE]}
==============================================================================
