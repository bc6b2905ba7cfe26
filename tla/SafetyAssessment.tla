--------------------------- MODULE SafetyAssessment ---------------------------
(***************************************************************************)
(* The decision logic of SafetyController.Assess                           *)
(* (internal/choke/controller.go): from the pressure and the two           *)
(* derivatives to a threat level and an opening, in exact arithmetic.      *)
(*                                                                         *)
(* A derivative is a fraction [num, den] with den > 0, and every           *)
(* comparison of the code is cross-multiplied.  Pressures are in MPa and   *)
(* times in ticks of 1/TicksPerSecond seconds.  With 50 ticks per second   *)
(* the code's defaults are whole numbers: limit 35, horizon 5, MaxDerivative *)
(* 2 and SurgeThreshold 1 (MPa per tick).                                  *)
(*                                                                         *)
(* computeSecondDerivative regresses the chord slopes on their INDEX, so   *)
(* its result is a change of slope per sample, while predictPressure and   *)
(* detectNonlinearSurge read it as a change per second.  The model keeps   *)
(* the code's reading: d2.num/d2.den is MPa per tick per sample, and       *)
(* TicksPerSecond appears where the code multiplies by seconds squared.    *)
(***************************************************************************)
EXTENDS ThreatDecisions

CONSTANTS SafetyPressureLimit, WarningPercent, PredictionHorizon,
          TicksPerSecond, MaxDerivative, SurgeThreshold

ASSUME ThresholdsAssumption ==
  /\ SafetyPressureLimit \in Nat \ {0}
  /\ WarningPercent \in 1 .. 100
  /\ PredictionHorizon \in Nat \ {0}
  /\ TicksPerSecond \in Nat \ {0}
  /\ MaxDerivative \in Nat \ {0}
  /\ SurgeThreshold \in Nat \ {0}

Rate == [num : Int, den : Nat \ {0}]

Zero == [num |-> 0, den |-> 1]

Positive(d) == d.num > 0

\* A definition whose name ends in "_Faulty..." is a plausible bug in the
\* definition that follows it; nothing else uses it.
Exceeds_FaultyAtBound(d, bound) == d.num >= bound * d.den

\* d > bound
Exceeds(d, bound) == d.num > bound * d.den

detectNonlinearSurge_FaultyAnyRise(dPdt, d2Pdt2) ==
  Positive(dPdt) /\ (Exceeds(dPdt, SurgeThreshold) \/ d2Pdt2.num >= 0)

\* A steep rise, or a moderate rise (above 0.3 of the threshold) whose slope
\* grows by more than ten times itself.
detectNonlinearSurge(dPdt, d2Pdt2) ==
  /\ Positive(dPdt)
  /\ \/ Exceeds(dPdt, SurgeThreshold)
     \/ /\ Positive(d2Pdt2)
        /\ 10 * dPdt.num > 3 * SurgeThreshold * dPdt.den
        /\ d2Pdt2.num * dPdt.den > 10 * dPdt.num * d2Pdt2.den

\* predictPressure(...) >= SafetyPressureLimit.  The clamp of the prediction at
\* zero is below every limit and cannot change the answer.
PredictedAtLimit(pressure, dPdt, d2Pdt2) ==
  LET scale == 2 * TicksPerSecond * dPdt.den * d2Pdt2.den
  IN  scale * pressure
        + 2 * TicksPerSecond * d2Pdt2.den * dPdt.num * PredictionHorizon
        + dPdt.den * d2Pdt2.num * PredictionHorizon * PredictionHorizon
      >= scale * SafetyPressureLimit

BreachWithinHorizon_FaultySecond(pressure, dPdt, d2Pdt2) ==
  IF Positive(dPdt)
  THEN dPdt.den * (SafetyPressureLimit - pressure) <= dPdt.num * TicksPerSecond
  ELSE PredictedAtLimit(pressure, dPdt, d2Pdt2)

\* TimeToBreach <= PredictionHorizon, where it is read: below the limit.
BreachWithinHorizon(pressure, dPdt, d2Pdt2) ==
  IF Positive(dPdt)
  THEN dPdt.den * (SafetyPressureLimit - pressure) <= dPdt.num * PredictionHorizon
  ELSE PredictedAtLimit(pressure, dPdt, d2Pdt2)

AtWarning(pressure) == 100 * pressure >= WarningPercent * SafetyPressureLimit

(***************************************************************************)
(* ComputeRequiredOpening with the gas dynamics abstracted to the opening  *)
(* that would pass the target flow ("demand", in permille, rounded up): no flow *)
(* to pass leaves the valve wide open, and the rest is clamped.            *)
(***************************************************************************)
ComputeRequiredOpening(demand) ==
  IF demand <= 0 THEN MaxOpening
  ELSE IF demand > MaxOpening THEN MaxOpening ELSE demand

Assessment_FaultyNoLimit(pressure, dPdt, d2Pdt2, currentOpening, criticalDemand, elevatedDemand) ==
  LET surge == detectNonlinearSurge(dPdt, d2Pdt2)
  IN  IF surge /\ PredictedAtLimit(pressure, dPdt, d2Pdt2)
        THEN Imminent
      ELSE IF surge /\ BreachWithinHorizon(pressure, dPdt, d2Pdt2)
        THEN Critical(ComputeRequiredOpening(criticalDemand))
      ELSE IF AtWarning(pressure) \/ Exceeds(dPdt, MaxDerivative)
        THEN Elevated(ComputeRequiredOpening(elevatedDemand))
      ELSE Normal(currentOpening)

(***************************************************************************)
(* The switch of Assess.  criticalDemand and elevatedDemand stand for      *)
(* vaporFlux*0.3 and vaporFlux*0.6 over what the valve passes wide open.   *)
(***************************************************************************)
Assessment(pressure, dPdt, d2Pdt2, currentOpening, criticalDemand, elevatedDemand) ==
  LET surge     == detectNonlinearSurge(dPdt, d2Pdt2)
      predicted == PredictedAtLimit(pressure, dPdt, d2Pdt2)
  IN  IF pressure >= SafetyPressureLimit \/ (surge /\ predicted)
        THEN Imminent
      ELSE IF surge /\ BreachWithinHorizon(pressure, dPdt, d2Pdt2)
        THEN Critical(ComputeRequiredOpening(criticalDemand))
      ELSE IF AtWarning(pressure) \/ Exceeds(dPdt, MaxDerivative)
        THEN Elevated(ComputeRequiredOpening(elevatedDemand))
      ELSE Normal(currentOpening)
==============================================================================
