--------------------------- MODULE ThreatDecisions ---------------------------
(***************************************************************************)
(* What an assessment can say, whatever its arithmetic: the decisions of   *)
(* SafetyController.Assess (internal/choke/controller.go) with everything  *)
(* but the pressure limit abstracted away.  The controller's own           *)
(* specification is shown to decide only these; the interceptor's          *)
(* specification relies on nothing else.                                   *)
(*                                                                         *)
(* Openings are in permille, the unit of the valve's Modbus register.      *)
(***************************************************************************)
EXTENDS Integers

ThreatNormal   == 0
ThreatElevated == 1
ThreatCritical == 2
ThreatImminent == 3

ThreatLevel == ThreatNormal .. ThreatImminent

\* The opening of a lockdown, and the range ComputeRequiredOpening clamps to.
LockdownOpening  == 0
MinOpening       == 1
MaxOpening       == 1000
RequiredOpenings == MinOpening .. MaxOpening

Opening == LockdownOpening .. MaxOpening

\* The part of a SafetyAssessment that somebody acts upon.
Decision == [ThreatLevel      : ThreatLevel,
             LockdownRequired : BOOLEAN,
             RequiresOverride : BOOLEAN,
             RequiredOpening  : Opening]

Imminent == [ThreatLevel      |-> ThreatImminent,
             LockdownRequired |-> TRUE,
             RequiresOverride |-> TRUE,
             RequiredOpening  |-> LockdownOpening]

Critical(opening) == [ThreatLevel      |-> ThreatCritical,
                      LockdownRequired |-> FALSE,
                      RequiresOverride |-> TRUE,
                      RequiredOpening  |-> opening]

Elevated(opening) == [ThreatLevel      |-> ThreatElevated,
                      LockdownRequired |-> FALSE,
                      RequiresOverride |-> FALSE,
                      RequiredOpening  |-> opening]

Normal(currentOpening) == [ThreatLevel      |-> ThreatNormal,
                           LockdownRequired |-> FALSE,
                           RequiresOverride |-> FALSE,
                           RequiredOpening  |-> currentOpening]

(***************************************************************************)
(* The decisions a pressure admits: at the limit nothing but a lockdown;   *)
(* below it any level, since a surge may be predicted from the samples.    *)
(***************************************************************************)
Decisions(atLimit, currentOpening, openings) ==
  {Imminent} \cup
  (IF atLimit THEN {}
   ELSE {Normal(currentOpening)}
          \cup {Elevated(o) : o \in openings}
          \cup {Critical(o) : o \in openings})
==============================================================================
