------------------------------ MODULE MCPipeline ------------------------------
(***************************************************************************)
(* Pipeline with one decoder worker and one solver worker beside the       *)
(* solver's own loop, all channels with a single place.                    *)
(***************************************************************************)
EXTENDS Pipeline

CONSTANTS d1, s1
==============================================================================
