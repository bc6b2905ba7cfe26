--------------------------- MODULE SafetyController ---------------------------
(***************************************************************************)
(* The sliding-window safety controller of internal/choke/controller.go:   *)
(* its bounded sample buffer, the two derivative estimators over it, and   *)
(* the assessment they feed.  Assess and Reset run under one mutex, so     *)
(* each is one atomic action here.                                         *)
(*                                                                         *)
(* A sample is [gap, pressure]: the ticks since the previous sample        *)
(* (time.Now() at the call, so two samples may share an instant) and the   *)
(* pressure of the frame.                                                  *)
(***************************************************************************)
EXTENDS SafetyAssessment, Sequences

CONSTANTS MinSamplesForDeriv,  \* config.MinSamplesForDeriv
          Window,              \* samples the estimators look at (10)
          MaxSamples,          \* samples kept (64)
          Pressures, Gaps,     \* inputs
          Demands,             \* inputs: see ComputeRequiredOpening
          Openings,            \* inputs: the caller's current opening
          GapScale,            \* a common multiple of the positive gaps
          MaxAssess            \* bound: assessments between two Resets

ASSUME ControllerAssumption ==
  /\ {MinSamplesForDeriv, Window, MaxSamples} \subseteq Nat
  /\ 1 <= MinSamplesForDeriv /\ MinSamplesForDeriv <= MaxSamples
  /\ 2 <= Window /\ Window <= MaxSamples
  /\ Pressures \subseteq Nat /\ Gaps \subseteq Nat
  /\ Demands \subseteq Nat
  /\ Openings \subseteq Opening
  /\ GapScale \in Nat \ {0}
  /\ \A g \in Gaps \ {0} : \E m \in 1 .. GapScale : g * m = GapScale
  /\ MaxAssess \in Nat

Sample == [gap : Gaps, pressure : Pressures]

VARIABLES samples,
          lastAssessment,   \* the decision in the field of that name, and
          currentPressure,  \* the CurrentPressure in it
          overrideCount,
          totalAssess,
          history      \* every sample since the last Reset (not in the code)

vars == <<samples, lastAssessment, currentPressure, overrideCount, totalAssess, history>>

-----------------------------------------------------------------------------
\* The estimators.  A definition whose name ends in "_Faulty..." is a plausible
\* bug in the definition that follows it; no behaviour of Spec uses it.

Last_FaultyUnbounded(seq, n) == seq

Last(seq, n) == IF Len(seq) <= n THEN seq
                ELSE SubSeq(seq, Len(seq) - n + 1, Len(seq))

Times_FaultySincePrevious(win) == [i \in 1 .. Len(win) |-> win[i].gap]

\* The times of a window's samples, from its first one.
Times(win) ==
  LET t[i \in 1 .. Len(win)] == IF i = 1 THEN 0 ELSE t[i - 1] + win[i].gap
  IN  t

\* What the loops of the estimators add up.
SumOf(x) ==
  LET sum[i \in 0 .. Len(x)] == IF i = 0 THEN 0 ELSE sum[i - 1] + x[i]
  IN  sum[Len(x)]

\* Slope of the least-squares line through the points (x[i], y[i]); zero when all
\* x[i] are equal (the code's vanishing denominator).  The y[i] are given times
\* yScale.
LeastSquares(x, y, yScale) ==
  LET n     == Len(x)
      sumX  == SumOf(x)
      sumY  == SumOf(y)
      sumXY == SumOf([i \in 1 .. n |-> x[i] * y[i]])
      sumXX == SumOf([i \in 1 .. n |-> x[i] * x[i]])
      denom == n * sumXX - sumX * sumX
  IN  IF denom = 0 THEN Zero
      ELSE [num |-> n * sumXY - sumY * sumX, den |-> denom * yScale]

computeFirstDerivative(seq) ==
  LET win == Last(seq, Window)
  IN  IF Len(seq) < 2 THEN Zero
      ELSE LeastSquares(Times(win), [i \in 1 .. Len(win) |-> win[i].pressure], 1)

\* The slopes of the window's chords, times GapScale; a chord between two
\* samples of the same instant is skipped.
ChordSlopes(win) ==
  LET slopes[i \in 1 .. Len(win)] ==
        IF i = 1 THEN <<>>
        ELSE IF win[i].gap = 0 THEN slopes[i - 1]
        ELSE Append(slopes[i - 1],
                    (win[i].pressure - win[i - 1].pressure) * (GapScale \div win[i].gap))
  IN  slopes[Len(win)]

computeSecondDerivative_FaultyWholeBuffer(seq) ==
  LET slopes == ChordSlopes(seq)
      index  == [i \in 1 .. Len(slopes) |-> i - 1]
  IN  IF Len(seq) < 3 \/ Len(slopes) < 2 THEN Zero
      ELSE LeastSquares(index, slopes, GapScale)

computeSecondDerivative(seq) ==
  LET win    == Last(seq, Window)
      slopes == ChordSlopes(win)
      index  == [i \in 1 .. Len(slopes) |-> i - 1]
  IN  IF Len(win) < 3 \/ Len(slopes) < 2 THEN Zero
      ELSE LeastSquares(index, slopes, GapScale)

\* computeDerivatives: nothing is estimated from too few samples.
Derivatives(seq) ==
  IF Len(seq) < MinSamplesForDeriv THEN <<Zero, Zero>>
  ELSE <<computeFirstDerivative(seq), computeSecondDerivative(seq)>>

-----------------------------------------------------------------------------
Init ==
  /\ samples = <<>>
  /\ lastAssessment = Normal(LockdownOpening)
  /\ currentPressure = 0
  /\ overrideCount = 0
  /\ totalAssess = 0
  /\ history = <<>>

Assess(pressure, gap, currentOpening, criticalDemand, elevatedDemand) ==
  LET sample == [gap |-> gap, pressure |-> pressure]
      kept   == Last(Append(samples, sample), MaxSamples)
      d      == Derivatives(kept)
      result == Assessment(pressure, d[1], d[2], currentOpening,
                           criticalDemand, elevatedDemand)
  IN  /\ totalAssess < MaxAssess
      /\ samples' = kept
      /\ history' = Append(history, sample)
      /\ totalAssess' = totalAssess + 1
      /\ overrideCount' = overrideCount + IF result.RequiresOverride THEN 1 ELSE 0
      /\ lastAssessment' = result
      /\ currentPressure' = pressure

Reset_FaultyKeepsSamples ==
  /\ history' = <<>>
  /\ overrideCount' = 0
  /\ totalAssess' = 0
  /\ UNCHANGED <<samples, lastAssessment, currentPressure>>

Reset ==
  /\ samples' = <<>>
  /\ history' = <<>>
  /\ overrideCount' = 0
  /\ totalAssess' = 0
  /\ UNCHANGED <<lastAssessment, currentPressure>>

\* vaporFlux*0.3 and vaporFlux*0.6: twice the demand once it is elevated.
Next ==
  \/ \E pressure \in Pressures, gap \in Gaps, opening \in Openings, demand \in Demands :
       Assess(pressure, gap, opening, demand, 2 * demand)
  \/ Reset

Spec == Init /\ [][Next]_vars
-----------------------------------------------------------------------------
\* The quantities the properties speak of.

\* An assessment has been made since the last Reset, and below the limit.
AssessedBelowLimit ==
  samples # <<>> /\ currentPressure < SafetyPressureLimit

\* The slope of the chord that ends at the i-th sample of a window.
Chord(win, i) == [num |-> win[i].pressure - win[i - 1].pressure, den |-> win[i].gap]

LessEq(d, e) == d.num * e.den <= e.num * d.den

\* The estimators had enough samples, no two of them at the same instant.
Estimated(win) ==
  /\ Len(samples) >= MinSamplesForDeriv
  /\ Len(win) >= 2
  /\ \A i \in 2 .. Len(win) : win[i].gap > 0

Collinear(win) ==
  \A i \in 3 .. Len(win) : /\ LessEq(Chord(win, i), Chord(win, 2))
                           /\ LessEq(Chord(win, 2), Chord(win, i))

-----------------------------------------------------------------------------
\* The buffer never outgrows its bound (controller.go:99-102), the fields have
\* their types, and the history holds the buffer as its tail.
TypeOK ==
  /\ history \in Seq(Sample)
  /\ samples \in Seq(Sample)
  /\ Len(samples) <= MaxSamples
  /\ lastAssessment \in Decision
  /\ currentPressure \in Pressures \cup {0}
  /\ overrideCount \in 0 .. totalAssess
  /\ totalAssess \in 0 .. MaxAssess
  /\ samples = Last(history, MaxSamples)

\* The first derivative the code estimates (controller.go:198-229) is a slope
\* the pressure really had: it lies between the least and the greatest slope
\* of two neighbouring samples of the window.
SlopeWithinChords ==
  LET win == Last(samples, Window)
      d   == computeFirstDerivative(samples)
  IN  Estimated(win) =>
        /\ \E i \in 2 .. Len(win) : LessEq(Chord(win, i), d)
        /\ \E i \in 2 .. Len(win) : LessEq(d, Chord(win, i))

\* Trimming the buffer (controller.go:99-102) cannot be observed: an unbounded
\* buffer would give the same two derivatives.
TrimmingInvisible == Derivatives(samples) = Derivatives(history)

\* A throttling override (controller.go:157-162) is reached only when the
\* pressure rises ever more slowly: had the second derivative not been
\* negative, a breach within the horizon would also have been predicted at the
\* limit, and the case above it would have locked the valve down.
CriticalOnlyWhenDecelerating ==
  (samples # <<>> /\ lastAssessment.ThreatLevel = ThreatCritical) =>
    Derivatives(samples)[2].num < 0

\* On a steady ramp the prediction is exact (controller.go:151-156, 303-312):
\* the valve is locked down just when the ramp is a surge and reaches the limit
\* within the horizon, and it is never merely throttled.
RampDecidedExactly ==
  LET win  == Last(samples, Window)
      last == Chord(win, Len(win))
  IN  (Estimated(win) /\ AssessedBelowLimit /\ Collinear(win)) =>
        /\ lastAssessment.LockdownRequired <=>
             /\ last.num > SurgeThreshold * last.den
             /\ last.num * PredictionHorizon >=
                  last.den * (SafetyPressureLimit - currentPressure)
        /\ lastAssessment.ThreatLevel # ThreatCritical

\* An override below the limit rests on MinSamplesForDeriv samples taken since
\* the last Reset (controller.go:186-191, 326-332), never on older ones.
OverrideNeedsSamples ==
  (AssessedBelowLimit /\ lastAssessment.RequiresOverride) =>
    Len(history) >= MinSamplesForDeriv

\* The controller decides only what its promise allows, and counts it.
Throttles == {ComputeRequiredOpening(d) : d \in Demands \cup {2 * d : d \in Demands}}
Promise == INSTANCE AbstractController
PromiseKept == Promise!Spec
==============================================================================
