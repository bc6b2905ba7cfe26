-------------------------- MODULE MCChokeInterceptor --------------------------
(***************************************************************************)
(* ChokeInterceptor with one throttled opening besides lockdown and wide   *)
(* open, and one retry, so that two faults make a send fail.               *)
(***************************************************************************)
EXTENDS ChokeInterceptor

MCThrottles == {400}
==============================================================================
