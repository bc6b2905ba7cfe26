--------------------------- MODULE MCOverrideSender ---------------------------
(***************************************************************************)
(* OverrideSender with one caller beside the send loop, one packet and one *)
(* retry.                                                                  *)
(***************************************************************************)
EXTENDS OverrideSender

CONSTANTS c1, p1
==============================================================================
