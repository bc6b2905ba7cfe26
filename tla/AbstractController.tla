-------------------------- MODULE AbstractController --------------------------
(***************************************************************************)
(* What SafetyController promises its caller: every assessment is a        *)
(* decision the pressure admits, the override counter counts exactly the   *)
(* assessments that asked for an override, and Reset clears the counters   *)
(* but not the last assessment.                                            *)
(***************************************************************************)
EXTENDS ThreatDecisions

CONSTANTS Pressures,           \* what may be measured
          Openings,            \* what the caller may pass as current opening
          Throttles,           \* what ComputeRequiredOpening may return
          SafetyPressureLimit

VARIABLES lastAssessment,   \* the decision LastAssessment() returns, and
          currentPressure,  \* the pressure it was about
          overrideCount,
          totalAssess

vars == <<lastAssessment, currentPressure, overrideCount, totalAssess>>

Init ==
  /\ lastAssessment = Normal(LockdownOpening)
  /\ currentPressure = 0
  /\ overrideCount = 0
  /\ totalAssess = 0

Assess(pressure, currentOpening) ==
  /\ lastAssessment' \in Decisions(pressure >= SafetyPressureLimit,
                                   currentOpening, Throttles)
  /\ currentPressure' = pressure
  /\ totalAssess' = totalAssess + 1
  /\ overrideCount' =
       overrideCount + IF lastAssessment'.RequiresOverride THEN 1 ELSE 0

Reset ==
  /\ overrideCount' = 0
  /\ totalAssess' = 0
  /\ UNCHANGED <<lastAssessment, currentPressure>>

Next ==
  \/ \E pressure \in Pressures, opening \in Openings : Assess(pressure, opening)
  \/ Reset

Spec == Init /\ [][Next]_vars
==============================================================================
