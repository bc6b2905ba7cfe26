------------------------ MODULE SafetyControllerProofs ------------------------
(***************************************************************************)
(* Theorems about SafetyController and Backlog, for every threshold,       *)
(* window, spacing of the samples and input: first what holds whatever     *)
(* the estimators return, then what the estimators return (least-squares   *)
(* lines, by induction over the samples of the window), then what follows  *)
(* for the decisions.                                                      *)
(***************************************************************************)
EXTENDS Backlog, SequenceTheorems, Induction

\* ComputeRequiredOpening never closes the valve and never leaves its range.
LEMMA RequiredOpeningRange ==
  ASSUME NEW demand \in Int
  PROVE  ComputeRequiredOpening(demand) \in RequiredOpenings
BY DEF ComputeRequiredOpening, RequiredOpenings, MinOpening, MaxOpening

\* Whatever the estimators return - nothing is assumed of the two derivatives -
\* the switch of Assess decides only what the abstract controller may decide.
LEMMA AssessmentLegal ==
  ASSUME NEW pressure, NEW dPdt, NEW d2Pdt2, NEW currentOpening,
         NEW demand \in Demands
  PROVE  Assessment(pressure, dPdt, d2Pdt2, currentOpening, demand, 2 * demand)
           \in Decisions(pressure >= SafetyPressureLimit, currentOpening, Throttles)
<1> DEFINE atLimit == pressure >= SafetyPressureLimit
<1>1. /\ ComputeRequiredOpening(demand) \in Throttles
      /\ ComputeRequiredOpening(2 * demand) \in Throttles
  BY DEF Throttles
<1>2. CASE Assessment(pressure, dPdt, d2Pdt2, currentOpening, demand, 2 * demand)
             = Imminent
  BY <1>2 DEF Decisions
<1>3. CASE ~atLimit
  BY <1>1, <1>3 DEF Assessment, Decisions
<1>4. atLimit => Assessment(pressure, dPdt, d2Pdt2, currentOpening, demand, 2 * demand)
                   = Imminent
  BY DEF Assessment
<1> QED BY <1>2, <1>3, <1>4

------------------------------------------------------------------------------
\* The abstract controller and the detailed one mean the same by a decision.
LEMMA SameDecisions ==
  ASSUME NEW atLimit, NEW opening, NEW throttles
  PROVE  Promise!Decisions(atLimit, opening, throttles)
           = Decisions(atLimit, opening, throttles)
<1> USE DEF ThreatNormal, ThreatElevated, ThreatCritical, ThreatImminent, LockdownOpening,
            Promise!ThreatNormal, Promise!ThreatElevated, Promise!ThreatCritical,
            Promise!ThreatImminent, Promise!LockdownOpening
<1>1. Promise!Imminent = Imminent
  BY DEF Promise!Imminent, Imminent
<1>2. \A o : /\ Promise!Critical(o) = Critical(o)
             /\ Promise!Elevated(o) = Elevated(o)
             /\ Promise!Normal(o) = Normal(o)
  BY DEF Promise!Critical, Critical, Promise!Elevated, Elevated, Promise!Normal, Normal
<1> QED BY ONLY <1>1, <1>2 DEF Promise!Decisions, Decisions

\* SafetyController implements AbstractController: the initial states agree and
\* every step is a step of the abstract one or leaves its variables alone.
THEOREM ControllerKeepsPromise == Spec => PromiseKept
<1>1. Init => Promise!Init
  BY DEF Init, Promise!Init, Normal, Promise!Normal, ThreatNormal, Promise!ThreatNormal, LockdownOpening, Promise!LockdownOpening
<1>2. [Next]_vars => [Promise!Next]_(Promise!vars)
  <2>1. ASSUME NEW pressure \in Pressures, NEW gap \in Gaps,
               NEW opening \in Openings, NEW demand \in Demands,
               Assess(pressure, gap, opening, demand, 2 * demand)
        PROVE  Promise!Assess(pressure, opening)
    <3> DEFINE d == Derivatives(Last(Append(samples, [gap |-> gap, pressure |-> pressure]),
                                     MaxSamples))
               result == Assessment(pressure, d[1], d[2], opening, demand, 2 * demand)
    <3>1. /\ lastAssessment' = result
          /\ currentPressure' = pressure
          /\ totalAssess' = totalAssess + 1
          /\ overrideCount' = overrideCount + IF result.RequiresOverride THEN 1 ELSE 0
      BY <2>1 DEF Assess
    <3>2. result \in Decisions(pressure >= SafetyPressureLimit, opening, Throttles)
      BY AssessmentLegal
    <3>3. lastAssessment' \in Promise!Decisions(pressure >= SafetyPressureLimit,
                                               opening, Throttles)
      BY <3>1, <3>2, SameDecisions
    <3> QED BY <3>1, <3>3 DEF Promise!Assess
  <2>2. CASE Reset
    BY <2>2 DEF Reset, Promise!Next, Promise!Reset
  <2>3. CASE UNCHANGED vars
    BY <2>3 DEF vars, Promise!vars
  <2> QED BY <2>1, <2>2, <2>3 DEF Next, Promise!Next
<1> QED BY <1>1, <1>2, PTL DEF Spec, PromiseKept, Promise!Spec

------------------------------------------------------------------------------
\* A throttling override is decided only against a falling slope: with a second
\* derivative of zero or more, a breach within the horizon is also predicted at
\* the limit, and the lockdown case comes first (controller.go:150-162).
THEOREM CriticalDecelerates ==
  ASSUME NEW pressure \in Int, NEW dPdt \in Rate, NEW d2Pdt2 \in Rate,
         NEW currentOpening, NEW demand1 \in Int, NEW demand2 \in Int,
         Assessment(pressure, dPdt, d2Pdt2, currentOpening, demand1, demand2).ThreatLevel
           = ThreatCritical
  PROVE  d2Pdt2.num < 0
<1> DEFINE L  == SafetyPressureLimit
           H  == PredictionHorizon
           R  == TicksPerSecond
           N1 == dPdt.num
           D1 == dPdt.den
           N2 == d2Pdt2.num
           D2 == d2Pdt2.den
<1>1. /\ L \in Int /\ H \in Nat \ {0} /\ R \in Nat \ {0} /\ pressure \in Int
      /\ N1 \in Int /\ D1 \in Nat \ {0} /\ N2 \in Int /\ D2 \in Nat \ {0}
  BY ThresholdsAssumption DEF Rate
<1>2. /\ detectNonlinearSurge(dPdt, d2Pdt2)
      /\ BreachWithinHorizon(pressure, dPdt, d2Pdt2)
      /\ ~PredictedAtLimit(pressure, dPdt, d2Pdt2)
  BY DEF Assessment, Imminent, Elevated, Normal, ThreatImminent, ThreatCritical,
         ThreatElevated, ThreatNormal
<1>3. D1 * (L - pressure) <= N1 * H
  BY <1>2 DEF detectNonlinearSurge, BreachWithinHorizon
<1> DEFINE A == N1 * H - D1 * (L - pressure)
<1>4. 2 * R * D1 * D2 * pressure + 2 * R * D2 * N1 * H + D1 * N2 * H * H
        < 2 * R * D1 * D2 * L
  BY <1>1, <1>2 DEF PredictedAtLimit
<1>5. A \in Nat
  BY <1>1, <1>3
<1>6. 2 * R * D2 * A + D1 * N2 * H * H < 0
  BY <1>1, <1>4
<1>7. 2 * R * D2 * A \in Nat
  BY <1>1, <1>5
<1>8. D1 * N2 * H * H < 0
  <2> HIDE DEF A, N1, D1, N2, D2, L, H, R
  <2> QED BY <1>1, <1>6, <1>7
<1>9. N2 >= 0 => D1 * N2 * H * H >= 0
  BY <1>1
<1> QED BY <1>1, <1>8, <1>9

\* On a trend without curvature the decision is the linear extrapolation
\* (controller.go:151-156, 303-312): below the limit, the valve is locked down
\* exactly when the rise is a surge that reaches the limit within the horizon,
\* and it is never merely throttled.
THEOREM LinearTrendDecidedExactly ==
  ASSUME NEW pressure \in Int, pressure < SafetyPressureLimit,
         NEW dPdt \in Rate, NEW d2Pdt2 \in Rate, d2Pdt2.num = 0,
         NEW currentOpening, NEW demand1 \in Int, NEW demand2 \in Int
  PROVE  LET result == Assessment(pressure, dPdt, d2Pdt2, currentOpening, demand1, demand2)
         IN  /\ result.LockdownRequired <=>
                  /\ Exceeds(dPdt, SurgeThreshold)
                  /\ dPdt.num * PredictionHorizon >=
                       dPdt.den * (SafetyPressureLimit - pressure)
             /\ result.ThreatLevel # ThreatCritical
<1> DEFINE L  == SafetyPressureLimit
           H  == PredictionHorizon
           R  == TicksPerSecond
           N1 == dPdt.num
           D1 == dPdt.den
           D2 == d2Pdt2.den
           A  == N1 * H - D1 * (L - pressure)
           result == Assessment(pressure, dPdt, d2Pdt2, currentOpening, demand1, demand2)
<1>1. /\ L \in Int /\ H \in Nat \ {0} /\ R \in Nat \ {0}
      /\ SurgeThreshold \in Nat \ {0}
      /\ N1 \in Int /\ D1 \in Nat \ {0} /\ D2 \in Nat \ {0} /\ A \in Int
  BY ThresholdsAssumption DEF Rate
<1>2. PredictedAtLimit(pressure, dPdt, d2Pdt2) <=> 2 * R * D2 * A >= 0
  BY <1>1 DEF PredictedAtLimit
<1>3. 2 * R * D2 * A >= 0 <=> A >= 0
  <2>1. 2 * R * D2 \in Nat \ {0}
    BY <1>1
  <2> HIDE DEF A
  <2> QED BY <1>1, <2>1
<1>4. PredictedAtLimit(pressure, dPdt, d2Pdt2) <=> N1 * H >= D1 * (L - pressure)
  BY <1>1, <1>2, <1>3
<1>5. Exceeds(dPdt, SurgeThreshold) => Positive(dPdt)
  <2>1. SurgeThreshold * D1 >= 0
    BY <1>1
  <2> QED BY <1>1, <2>1 DEF Exceeds, Positive
<1>6. detectNonlinearSurge(dPdt, d2Pdt2) <=> Exceeds(dPdt, SurgeThreshold)
  BY <1>5 DEF detectNonlinearSurge, Positive
<1>7. detectNonlinearSurge(dPdt, d2Pdt2) =>
        (BreachWithinHorizon(pressure, dPdt, d2Pdt2)
           <=> PredictedAtLimit(pressure, dPdt, d2Pdt2))
  BY <1>1, <1>4 DEF detectNonlinearSurge, BreachWithinHorizon
<1>8. /\ result.LockdownRequired <=>
           /\ detectNonlinearSurge(dPdt, d2Pdt2)
           /\ PredictedAtLimit(pressure, dPdt, d2Pdt2)
      /\ result.ThreatLevel # ThreatCritical
  <2>1. pressure >= L <=> FALSE
    BY <1>1
  <2> QED BY <1>7, <2>1 DEF Assessment, Imminent, Critical, Elevated, Normal,
                         ThreatImminent, ThreatCritical, ThreatElevated, ThreatNormal
<1> QED BY <1>4, <1>6, <1>8

------------------------------------------------------------------------------
\* Trimming before or after an append keeps the same last samples.
LEMMA LastOfAppend ==
  ASSUME NEW S, NEW seq \in Seq(S), NEW e \in S, NEW n \in Nat \ {0}
  PROVE  /\ Last(seq, n) \in Seq(S)
         /\ Len(Last(seq, n)) <= n
         /\ Len(Last(seq, n)) <= Len(seq)
         /\ Last(Append(Last(seq, n), e), n) = Last(Append(seq, e), n)
<1>1. CASE Len(seq) <= n
  BY <1>1 DEF Last
<1>2. CASE Len(seq) > n
  <2> DEFINE m      == Len(seq)
             last   == SubSeq(seq, m - n + 1, m)
             longer == Append(last, e)
             long   == Append(seq, e)
  <2>1. m \in Nat /\ m > n /\ n \in Nat /\ n >= 1
    BY <1>2
  <2>2. /\ last \in Seq(S) /\ Len(last) = n
        /\ \A i \in 1 .. n : last[i] = seq[m - n + i]
    <3>1. \A i \in m - n + 1 .. m : seq[i] \in S
      BY <2>1
    <3>2. m - n + 1 \in Int /\ m \in Int /\ m - n + 1 <= m
      BY <2>1
    <3>3. /\ last \in Seq(S)
          /\ Len(last) = m - (m - n + 1) + 1
          /\ \A i \in 1 .. m - (m - n + 1) + 1 : last[i] = seq[(m - n + 1) + i - 1]
      BY <3>1, <3>2, SubSeqProperties
    <3> QED BY <2>1, <3>3
  <2>3. Last(seq, n) = last
    BY <2>1 DEF Last
  <2> HIDE DEF last
  <2>4. /\ longer \in Seq(S) /\ Len(longer) = n + 1 /\ longer[n + 1] = e
        /\ \A i \in 1 .. n : longer[i] = last[i]
    BY <2>1, <2>2
  <2>5. /\ long \in Seq(S) /\ Len(long) = m + 1 /\ long[m + 1] = e
        /\ \A i \in 1 .. m : long[i] = seq[i]
    BY <2>1
  <2>6. Last(longer, n) = SubSeq(longer, 2, n + 1)
    <3> HIDE DEF longer
    <3> QED BY <2>1, <2>4 DEF Last
  <2>7. Last(long, n) = SubSeq(long, m - n + 2, m + 1)
    <3> HIDE DEF long
    <3>1. Len(long) - n + 1 = m - n + 2 /\ ~(Len(long) <= n)
      BY <2>1, <2>5
    <3> QED BY <2>5, <3>1 DEF Last
  <2>8. \A i \in 1 .. n : longer[i + 1] = long[m - n + i + 1]
    <3> HIDE DEF longer, long
    <3>1. ASSUME NEW i \in 1 .. n PROVE longer[i + 1] = long[m - n + i + 1]
      <4>1. CASE i = n
        BY <2>1, <2>4, <2>5, <4>1
      <4>2. CASE i < n
        <5>1. i + 1 \in 1 .. n /\ m - n + (i + 1) \in 1 .. m
          BY <2>1, <4>2
        <5>2. longer[i + 1] = last[i + 1] /\ last[i + 1] = seq[m - n + (i + 1)]
          BY <2>2, <2>4, <5>1
        <5>3. long[m - n + (i + 1)] = seq[m - n + (i + 1)]
          BY <2>5, <5>1
        <5>4. m - n + (i + 1) = m - n + i + 1
          BY <2>1
        <5> QED BY <5>2, <5>3, <5>4
      <4> QED BY <2>1, <4>1, <4>2
    <3> QED BY <3>1
  <2>9. Last(longer, n) = Last(long, n)
    <3> HIDE DEF longer, long
    <3>1. /\ SubSeq(longer, 2, n + 1) \in Seq(S)
          /\ Len(SubSeq(longer, 2, n + 1)) = n
          /\ \A i \in 1 .. n : SubSeq(longer, 2, n + 1)[i] = longer[i + 1]
      <4>1. /\ \A i \in 2 .. n + 1 : longer[i] \in S
            /\ n + 1 \in Int /\ 2 \in Int /\ 2 <= n + 1
        BY <2>1, <2>4
      <4>2. /\ SubSeq(longer, 2, n + 1) \in Seq(S)
            /\ Len(SubSeq(longer, 2, n + 1)) = (n + 1) - 2 + 1
            /\ \A i \in 1 .. (n + 1) - 2 + 1 :
                 SubSeq(longer, 2, n + 1)[i] = longer[2 + i - 1]
        BY <4>1, SubSeqProperties
      <4> QED BY <2>1, <4>2
    <3>2. /\ SubSeq(long, m - n + 2, m + 1) \in Seq(S)
          /\ Len(SubSeq(long, m - n + 2, m + 1)) = n
          /\ \A i \in 1 .. n : SubSeq(long, m - n + 2, m + 1)[i] = long[m - n + i + 1]
      <4>1. /\ \A i \in m - n + 2 .. m + 1 : long[i] \in S
            /\ m - n + 2 \in Int /\ m + 1 \in Int /\ m - n + 2 <= m + 1
        BY <2>1, <2>5
      <4>2. /\ SubSeq(long, m - n + 2, m + 1) \in Seq(S)
            /\ Len(SubSeq(long, m - n + 2, m + 1)) = (m + 1) - (m - n + 2) + 1
            /\ \A i \in 1 .. (m + 1) - (m - n + 2) + 1 :
                 SubSeq(long, m - n + 2, m + 1)[i] = long[(m - n + 2) + i - 1]
        BY <4>1, SubSeqProperties
      <4> QED BY <2>1, <4>2
    <3>3. SubSeq(longer, 2, n + 1) = SubSeq(long, m - n + 2, m + 1)
      BY <2>8, <3>1, <3>2, SeqEqual
    <3> QED BY <2>6, <2>7, <3>3
  <2> QED BY <2>1, <2>2, <2>3, <2>9
<1> QED BY <1>1, <1>2

LEMMA DemandTyped == \A demand \in Demands : demand \in Int /\ 2 * demand \in Int
<1>1. \A m \in Nat : m \in Int /\ 2 * m \in Int
  OBVIOUS
<1>2. Demands \subseteq Nat
  BY ControllerAssumption
<1> QED BY <1>1, <1>2

\* Every decision the controller may take is well formed.
LEMMA DecisionsTyped ==
  ASSUME NEW atLimit, NEW opening \in Openings
  PROVE  Decisions(atLimit, opening, Throttles) \subseteq Decision
<1>1. Throttles \subseteq Opening
  <2>1. \A demand \in Demands : demand \in Int /\ 2 * demand \in Int
    BY DemandTyped
  <2>2. \A demand \in Demands : /\ ComputeRequiredOpening(demand) \in RequiredOpenings
                                /\ ComputeRequiredOpening(2 * demand) \in RequiredOpenings
    BY <2>1, RequiredOpeningRange
  <2>3. RequiredOpenings \subseteq Opening
    BY ONLY SMTT(20) DEF RequiredOpenings, Opening, LockdownOpening, MinOpening, MaxOpening
  <2> QED BY <2>2, <2>3 DEF Throttles
<1>2. opening \in Opening
  BY ControllerAssumption
<1>3. LockdownOpening \in Opening
  BY DEF LockdownOpening, MaxOpening, Opening
<1>4. Imminent \in Decision
  BY <1>3 DEF Imminent, Decision, ThreatLevel, ThreatImminent, ThreatNormal
<1>5. \A o \in Opening : /\ Normal(o) \in Decision
                         /\ Elevated(o) \in Decision
                         /\ Critical(o) \in Decision
  BY DEF Normal, Elevated, Critical, Decision, ThreatLevel,
         ThreatNormal, ThreatElevated, ThreatCritical, ThreatImminent
<1> QED BY <1>1, <1>2, <1>4, <1>5 DEF Decisions

LEMMA TypeOKInit == Init => TypeOK
BY ControllerAssumption DEF Init, TypeOK, Last, Decision, Normal, ThreatLevel,
   ThreatNormal, ThreatImminent, Opening, LockdownOpening, MaxOpening

LEMMA TypeOKStep ==
  ASSUME TypeOK, [Next]_vars
  PROVE  TypeOK'
<1>1. ASSUME NEW pressure \in Pressures, NEW gap \in Gaps,
             NEW opening \in Openings, NEW demand \in Demands,
             Assess(pressure, gap, opening, demand, 2 * demand)
      PROVE  TypeOK'
  <2> DEFINE sample == [gap |-> gap, pressure |-> pressure]
             d == Derivatives(Last(Append(samples, sample), MaxSamples))
             result == Assessment(pressure, d[1], d[2], opening, demand, 2 * demand)
  <2>1. /\ lastAssessment' = result
        /\ currentPressure' = pressure
        /\ totalAssess < MaxAssess
        /\ totalAssess' = totalAssess + 1
        /\ overrideCount' = overrideCount + IF result.RequiresOverride THEN 1 ELSE 0
        /\ samples' = Last(Append(samples, sample), MaxSamples)
        /\ history' = Append(history, sample)
    BY <1>1 DEF Assess
  <2>2. sample \in Sample
    BY DEF Sample
  <2>3. MaxSamples \in Nat \ {0}
    BY ControllerAssumption
  <2>4. history' \in Seq(Sample)
    BY <2>1, <2>2 DEF TypeOK
  <2>5. samples' = Last(history', MaxSamples)
    BY <2>1, <2>2, <2>3, LastOfAppend DEF TypeOK
  <2>6. samples' \in Seq(Sample) /\ Len(samples') <= MaxSamples
    BY <2>2, <2>3, <2>4, <2>5, LastOfAppend
  <2>7. lastAssessment' \in Decision
    BY <2>1, AssessmentLegal, DecisionsTyped
  <2>8. /\ totalAssess' \in 0 .. MaxAssess
        /\ overrideCount' \in 0 .. totalAssess'
    BY <2>1, ControllerAssumption DEF TypeOK
  <2> QED BY <2>1, <2>4, <2>5, <2>6, <2>7, <2>8 DEF TypeOK
<1>2. CASE Reset
  BY <1>2, ControllerAssumption DEF Reset, TypeOK, Last
<1>3. CASE UNCHANGED vars
  BY <1>3 DEF vars, TypeOK
<1> QED BY <1>1, <1>2, <1>3 DEF Next

\* TypeOK holds in every reachable state, so the buffer stays within MaxSamples
\* and is exactly the tail of what was assessed since the last Reset.
THEOREM TypeCorrect == Spec => []TypeOK
BY TypeOKInit, TypeOKStep, PTL DEF Spec

\* Below the limit no override is asked for before MinSamplesForDeriv samples
\* have been taken since the last Reset.
THEOREM EarlyOverrideImpossible == Spec => []OverrideNeedsSamples
<1>1. Init => OverrideNeedsSamples
  BY DEF Init, OverrideNeedsSamples, AssessedBelowLimit
<1>2. TypeOK /\ OverrideNeedsSamples /\ [Next]_vars => OverrideNeedsSamples'
  <2> SUFFICES ASSUME TypeOK, OverrideNeedsSamples, [Next]_vars
               PROVE  OverrideNeedsSamples'
    OBVIOUS
  <2>1. ASSUME NEW pressure \in Pressures, NEW gap \in Gaps,
               NEW opening \in Openings, NEW demand \in Demands,
               Assess(pressure, gap, opening, demand, 2 * demand)
        PROVE  OverrideNeedsSamples'
    <3> DEFINE sample == [gap |-> gap, pressure |-> pressure]
               kept == Last(Append(samples, sample), MaxSamples)
               d == Derivatives(kept)
               result == Assessment(pressure, d[1], d[2], opening, demand, 2 * demand)
    <3>1. /\ lastAssessment' = result
          /\ currentPressure' = pressure
          /\ history' = Append(history, sample)
      BY <2>1 DEF Assess
    <3>2. Len(kept) <= Len(history')
      <4>1. /\ sample \in Sample /\ MaxSamples \in Nat \ {0}
            /\ history \in Seq(Sample) /\ samples = Last(history, MaxSamples)
        BY ControllerAssumption DEF Sample, TypeOK
      <4>2. kept = Last(Append(history, sample), MaxSamples)
        BY <4>1, LastOfAppend
      <4>3. Append(history, sample) \in Seq(Sample)
        BY <4>1
      <4>4. \A seq \in Seq(Sample) : Len(Last(seq, MaxSamples)) <= Len(seq)
        BY <4>1, LastOfAppend
      <4> HIDE DEF kept
      <4> QED BY <3>1, <4>2, <4>3, <4>4
    <3>3. CASE Len(kept) >= MinSamplesForDeriv
      <4>1. Len(kept) \in Nat /\ Len(history') \in Nat
        <5>1. sample \in Sample /\ samples \in Seq(Sample) /\ history \in Seq(Sample)
          BY DEF Sample, TypeOK
        <5> QED BY <3>1, <5>1, ControllerAssumption, LastOfAppend
      <4> QED BY <3>2, <3>3, <4>1, ControllerAssumption DEF OverrideNeedsSamples
    <3>4. CASE ~(Len(kept) >= MinSamplesForDeriv)
      <4>1. Len(kept) < MinSamplesForDeriv
        <5>1. sample \in Sample /\ samples \in Seq(Sample)
          BY DEF Sample, TypeOK
        <5> QED BY <3>4, <5>1, ControllerAssumption, LastOfAppend
      <4>2. d = <<Zero, Zero>>
        BY <4>1 DEF Derivatives
      <4>3. ~detectNonlinearSurge(d[1], d[2])
        BY <4>2 DEF detectNonlinearSurge, Positive, Zero
      <4>4. result.RequiresOverride => pressure >= SafetyPressureLimit
        BY <4>3 DEF Assessment, Imminent, Elevated, Normal
      <4>5. pressure \in Nat /\ SafetyPressureLimit \in Nat
        BY ControllerAssumption, ThresholdsAssumption
      <4> QED BY <3>1, <4>4, <4>5 DEF OverrideNeedsSamples, AssessedBelowLimit
    <3> QED BY <3>3, <3>4
  <2>2. CASE Reset
    BY <2>2 DEF Reset, OverrideNeedsSamples, AssessedBelowLimit
  <2>3. CASE UNCHANGED vars
    BY <2>3 DEF vars, OverrideNeedsSamples, AssessedBelowLimit
  <2> QED BY <2>1, <2>2, <2>3 DEF Next
<1> QED BY <1>1, <1>2, TypeCorrect, PTL DEF Spec

------------------------------------------------------------------------------
\* SumOf adds up one element after the other.
LEMMA SumOfUnfolds ==
  ASSUME NEW n \in Nat, NEW x \in [1 .. n -> Int]
  PROVE  \E s \in [0 .. n -> Int] :
           /\ s[0] = 0 /\ s[n] = SumOf(x)
           /\ \A i \in 1 .. n : s[i] = s[i - 1] + x[i]
<1> DEFINE Body(g) == [i \in 0 .. n |-> IF i = 0 THEN 0 ELSE g[i - 1] + x[i]]
           step == [p \in Int \X Int |-> IF p[2] \in 1 .. n THEN p[1] + x[p[2]] ELSE p[1]]
           s == CHOOSE g : g = Body(g)
<1>1. x \in Seq(Int) /\ Len(x) = n
  BY IsASeq
<1>2. step \in [Int \X Int -> Int]
  OBVIOUS
<1>3. PICK f \in [0 .. n -> Int] :
               Unfolds(f, 0, n, 0, step)
  <2>1. 0 \in Int /\ n \in Int /\ 0 <= n
    OBVIOUS
  <2> HIDE DEF step
  <2> QED BY ONLY <1>2, <2>1, RecursionExists
<1>4. \A i \in 1 .. n : step[<<f[i - 1], i>>] = f[i - 1] + x[i]
  <2> SUFFICES ASSUME NEW i \in 1 .. n PROVE step[<<f[i - 1], i>>] = f[i - 1] + x[i]
    OBVIOUS
  <2>1. f[i - 1] \in Int
    OBVIOUS
  <2> QED BY <2>1
<1>5. f = Body(f)
  <2>1. \A i \in 0 .. n : i # 0 => i \in 1 .. n
    OBVIOUS
  <2>2. f[0] = 0 /\ \A i \in 1 .. n : f[i] = f[i - 1] + x[i]
    <3>1. 0 + 1 = 1
      OBVIOUS
    <3> HIDE DEF step
    <3> QED BY <1>3, <1>4, <3>1 DEF Unfolds
  <2>3. f = [i \in 0 .. n |-> f[i]]
    OBVIOUS
  <2> QED BY <2>1, <2>2, <2>3
<1>6. s = Body(s)
  <2> HIDE DEF Body
  <2> QED BY <1>5
<1>7. SumOf(x) = s[n]
  BY <1>1 DEF SumOf
<1>8. s[0] = 0 /\ \A i \in 1 .. n : s[i] = s[i - 1] + x[i]
  <2> HIDE DEF s
  <2> QED BY <1>6
<1>9. \A i \in 0 .. n : s[i] \in Int
  <2> DEFINE T == {i \in 0 .. n : s[i] \in Int}
  <2> HIDE DEF s
  <2>1. 0 \in T
    BY <1>8
  <2>2. ASSUME NEW i \in 0 .. n - 1, i \in T PROVE i + 1 \in T
    <3>1. i + 1 \in 1 .. n /\ (i + 1) - 1 = i
      OBVIOUS
    <3>2. s[i + 1] = s[i] + x[i + 1]
      BY <1>8, <3>1
    <3>3. s[i] \in Int /\ x[i + 1] \in Int
      BY <2>2, <3>1
    <3> QED BY <3>1, <3>2, <3>3
  <2>3. 0 .. n \subseteq T
    <3>1. 0 \in Int /\ n \in Int /\ \A i \in 0 .. n - 1 : i \in T => i + 1 \in T
      BY <2>2
    <3> HIDE DEF T
    <3> QED BY ONLY <2>1, <3>1, IntervalInduction
  <2> QED BY <2>3
<1>10. s = [i \in 0 .. n |-> s[i]]
  <2> HIDE DEF s
  <2> QED BY <1>6
<1>11. s \in [0 .. n -> Int]
  <2> HIDE DEF s
  <2> QED BY <1>9, <1>10
<1> HIDE DEF s
<1> QED BY <1>7, <1>8, <1>11

\* The times of a window: each sample is its gap later than the one before it.
LEMMA TimesUnfold ==
  ASSUME NEW n \in Nat \ {0}, NEW win \in [1 .. n -> Sample]
  PROVE  /\ Times(win) \in [1 .. n -> Int]
         /\ \A i \in 2 .. n : Times(win)[i] = Times(win)[i - 1] + win[i].gap
<1> DEFINE Body(g) == [i \in 1 .. n |-> IF i = 1 THEN 0 ELSE g[i - 1] + win[i].gap]
           step == [p \in Int \X Int |-> IF p[2] \in 1 .. n THEN p[1] + win[p[2]].gap ELSE p[1]]
           t == CHOOSE g : g = Body(g)
<1>1. win \in Seq(Sample) /\ Len(win) = n
  BY IsASeq
<1>2. \A i \in 1 .. n : win[i].gap \in Int
  <2> SUFFICES ASSUME NEW i \in 1 .. n PROVE win[i].gap \in Int
    OBVIOUS
  <2>1. win[i] \in Sample /\ Gaps \subseteq Int
    BY ControllerAssumption
  <2> QED BY <2>1 DEF Sample
<1>3. step \in [Int \X Int -> Int]
  BY <1>2
<1>4. PICK f \in [1 .. n -> Int] :
               Unfolds(f, 1, n, 0, step)
  <2>1. 0 \in Int /\ 1 \in Int /\ n \in Int /\ 1 <= n
    OBVIOUS
  <2> HIDE DEF step
  <2> QED BY ONLY <1>3, <2>1, RecursionExists
<1>5. \A i \in 2 .. n : step[<<f[i - 1], i>>] = f[i - 1] + win[i].gap
  <2> SUFFICES ASSUME NEW i \in 2 .. n PROVE step[<<f[i - 1], i>>] = f[i - 1] + win[i].gap
    OBVIOUS
  <2>1. f[i - 1] \in Int /\ i \in 1 .. n
    OBVIOUS
  <2> QED BY <2>1
<1>6. f = Body(f)
  <2>1. \A i \in 1 .. n : i # 1 => i \in 2 .. n
    OBVIOUS
  <2>2. f[1] = 0 /\ \A i \in 2 .. n : f[i] = f[i - 1] + win[i].gap
    <3>1. 1 + 1 = 2
      OBVIOUS
    <3> HIDE DEF step
    <3> QED BY <1>4, <1>5, <3>1 DEF Unfolds
  <2>3. f = [i \in 1 .. n |-> f[i]]
    OBVIOUS
  <2> QED BY <2>1, <2>2, <2>3
<1>7. t = Body(t)
  <2> HIDE DEF Body
  <2> QED BY <1>6
<1>8. Times(win) = t
  BY <1>1 DEF Times
<1>9. t[1] = 0 /\ \A i \in 2 .. n : t[i] = t[i - 1] + win[i].gap
  <2> HIDE DEF t
  <2> QED BY <1>7
<1>10. \A i \in 1 .. n : t[i] \in Int
  <2> DEFINE T == {i \in 1 .. n : t[i] \in Int}
  <2> HIDE DEF t
  <2>1. 1 \in T
    BY <1>9
  <2>2. ASSUME NEW i \in 1 .. n - 1, i \in T PROVE i + 1 \in T
    <3>1. i + 1 \in 2 .. n /\ (i + 1) - 1 = i
      OBVIOUS
    <3>2. t[i + 1] = t[i] + win[i + 1].gap
      BY <1>9, <3>1
    <3>3. t[i] \in Int /\ win[i + 1].gap \in Int
      BY <2>2, <3>1, <1>2
    <3> QED BY <3>1, <3>2, <3>3
  <2>3. 1 .. n \subseteq T
    <3>1. 1 \in Int /\ n \in Int /\ \A i \in 1 .. n - 1 : i \in T => i + 1 \in T
      BY <2>2
    <3> HIDE DEF T
    <3> QED BY ONLY <2>1, <3>1, IntervalInduction
  <2> QED BY <2>3
<1>11. t = [i \in 1 .. n |-> t[i]]
  <2> HIDE DEF t
  <2> QED BY <1>7
<1> HIDE DEF t
<1> QED BY <1>8, <1>9, <1>10, <1>11

------------------------------------------------------------------------------
\* For k points, the last of which is (x, z), with the sums X and Z of their
\* coordinates and P of the products: no point is above the last one, and k times
\* their covariance.
Dominated(k, x, z, X, Z, P) ==
  X <= k * x /\ Z <= k * z /\ P + k * x * z - x * Z - z * X >= 0

Covariance(k, X, Z, P) == k * P - X * Z

\* One more point, above all others, does not make the covariance smaller.
LEMMA OneMorePoint ==
  ASSUME NEW k \in Nat \ {0}, NEW x \in Int, NEW z \in Int, NEW x2 \in Int, NEW z2 \in Int,
         NEW X \in Int, NEW Z \in Int, NEW P \in Int,
         x <= x2, z <= z2, Dominated(k, x, z, X, Z, P)
  PROVE  /\ Dominated(k + 1, x2, z2, X + x2, Z + z2, P + x2 * z2)
         /\ Covariance(k, X, Z, P) \in Int /\ Covariance(k + 1, X + x2, Z + z2, P + x2 * z2) \in Int
         /\ Covariance(k, X, Z, P) <= Covariance(k + 1, X + x2, Z + z2, P + x2 * z2)
         /\ (x < x2 /\ z < z2) =>
              Covariance(k, X, Z, P) < Covariance(k + 1, X + x2, Z + z2, P + x2 * z2)
<1> DEFINE u == x2 - x
           v == z2 - z
           A == k * x - X
           B == k * z - Z
           E == P + k * x * z - x * Z - z * X
           F == P + k * x2 * z2 - x2 * Z - z2 * X
<1>1. u \in Nat /\ v \in Nat /\ A \in Nat /\ B \in Nat /\ E \in Nat
  BY DEF Dominated
<1>2. F = E + v * A + u * B + k * u * v
  OBVIOUS
<1>3. \A a, b \in Nat : a * b \in Nat /\ (a > 0 /\ b > 0 => a * b > 0)
  OBVIOUS
<1>4. v * A \in Nat /\ u * B \in Nat /\ k * u * v \in Nat /\ (u > 0 /\ v > 0 => k * u * v > 0)
  <2> HIDE DEF A, B, u, v
  <2>1. k * u \in Nat /\ (u > 0 => k * u > 0)
    BY <1>1, <1>3
  <2> QED BY <1>1, <1>3, <2>1
<1>5. F \in Nat /\ (x < x2 /\ z < z2 => F > 0)
  <2>1. x < x2 /\ z < z2 => u > 0 /\ v > 0
    OBVIOUS
  <2> HIDE DEF A, B, E, F, u, v
  <2> QED BY <1>1, <1>2, <1>4, <2>1
<1>6. /\ Covariance(k, X, Z, P) \in Int
      /\ Covariance(k + 1, X + x2, Z + z2, P + x2 * z2) = Covariance(k, X, Z, P) + F
  BY DEF Covariance
<1>7. (P + x2 * z2) + (k + 1) * x2 * z2 - x2 * (Z + z2) - z2 * (X + x2) = F
  OBVIOUS
<1>8. X + x2 <= (k + 1) * x2 /\ Z + z2 <= (k + 1) * z2
  <2>1. k * u \in Nat /\ k * v \in Nat
    <3> HIDE DEF u, v
    <3> QED BY <1>1, <1>3
  <2>2. (k + 1) * x2 = k * x + k * u + x2 /\ (k + 1) * z2 = k * z + k * v + z2
    OBVIOUS
  <2>3. X <= k * x /\ Z <= k * z
    BY DEF Dominated
  <2>4. k * u \in Int /\ k * v \in Int /\ k * x \in Int /\ k * z \in Int
    OBVIOUS
  <2> HIDE DEF u, v
  <2> QED BY <2>1, <2>2, <2>3, <2>4
<1>9. Dominated(k + 1, x2, z2, X + x2, Z + z2, P + x2 * z2)
  <2> HIDE DEF F
  <2> QED BY <1>5, <1>7, <1>8 DEF Dominated
<1> HIDE DEF F
<1> QED BY <1>5, <1>6, <1>9

\* Two sequences that rise together have a covariance that is not negative, and
\* a positive one if they rise strictly.
LEMMA RisingTogether ==
  ASSUME NEW n \in Nat \ {0}, NEW x \in [1 .. n -> Int], NEW z \in [1 .. n -> Int],
         NEW xz \in [1 .. n -> Int], \A i \in 1 .. n : xz[i] = x[i] * z[i],
         \A i \in 2 .. n : x[i - 1] <= x[i] /\ z[i - 1] <= z[i]
  PROVE  /\ {SumOf(x), SumOf(z), SumOf(xz)} \subseteq Int
         /\ n * SumOf(xz) - SumOf(x) * SumOf(z) >= 0
         /\ (n >= 2 /\ \A i \in 2 .. n : x[i - 1] < x[i] /\ z[i - 1] < z[i])
              => n * SumOf(xz) - SumOf(x) * SumOf(z) > 0
<1>1. PICK X \in [0 .. n -> Int] :
             X[0] = 0 /\ X[n] = SumOf(x) /\ \A i \in 1 .. n : X[i] = X[i - 1] + x[i]
  BY SumOfUnfolds
<1>2. PICK Z \in [0 .. n -> Int] :
             Z[0] = 0 /\ Z[n] = SumOf(z) /\ \A i \in 1 .. n : Z[i] = Z[i - 1] + z[i]
  BY SumOfUnfolds
<1>3. PICK P \in [0 .. n -> Int] :
             P[0] = 0 /\ P[n] = SumOf(xz) /\ \A i \in 1 .. n : P[i] = P[i - 1] + xz[i]
  BY SumOfUnfolds
<1> DEFINE Strict == \A i \in 2 .. n : x[i - 1] < x[i] /\ z[i - 1] < z[i]
           Good(k) == /\ Dominated(k, x[k], z[k], X[k], Z[k], P[k])
                      /\ Covariance(k, X[k], Z[k], P[k]) >= 0
                      /\ k >= 2 /\ Strict => Covariance(k, X[k], Z[k], P[k]) > 0
           T == {k \in 1 .. n : Good(k)}
<1>4. 1 \in T
  <2>1. X[1] = x[1] /\ Z[1] = z[1] /\ P[1] = x[1] * z[1] /\ x[1] \in Int /\ z[1] \in Int
    <3>1. 1 \in 1 .. n /\ 1 - 1 = 0
      OBVIOUS
    <3>2. x[1] \in Int /\ z[1] \in Int
      BY <3>1
    <3>3. X[1] = 0 + x[1] /\ Z[1] = 0 + z[1] /\ P[1] = 0 + x[1] * z[1]
      BY <1>1, <1>2, <1>3, <3>1
    <3> QED BY <3>2, <3>3
  <2>2. Good(1)
    <3> HIDE DEF Strict
    <3>1. \A a, b \in Int : a <= 1 * a /\ a * b + 1 * a * b - a * b - b * a >= 0
                             /\ 1 * (a * b) - a * b >= 0
      OBVIOUS
    <3>2. Dominated(1, x[1], z[1], X[1], Z[1], P[1]) /\ Covariance(1, X[1], Z[1], P[1]) >= 0
      BY ONLY <2>1, <3>1 DEF Dominated, Covariance
    <3>3. ~(1 >= 2)
      OBVIOUS
    <3> QED BY ONLY <3>2, <3>3
  <2> QED BY <2>2
<1>5. ASSUME NEW k \in 1 .. n - 1, k \in T PROVE k + 1 \in T
  <2>1. /\ k \in Nat \ {0} /\ k \in 1 .. n /\ k + 1 \in 1 .. n /\ k + 1 \in 2 .. n
        /\ k \in 0 .. n /\ (k + 1) - 1 = k
    OBVIOUS
  <2>2. /\ x[k] \in Int /\ z[k] \in Int /\ x[k + 1] \in Int /\ z[k + 1] \in Int
        /\ X[k] \in Int /\ Z[k] \in Int /\ P[k] \in Int
    BY <2>1
  <2>3. x[k] <= x[k + 1] /\ z[k] <= z[k + 1]
    BY <2>1
  <2>4. Strict => x[k] < x[k + 1] /\ z[k] < z[k + 1]
    BY <2>1
  <2>5. /\ X[k + 1] = X[k] + x[k + 1] /\ Z[k + 1] = Z[k] + z[k + 1]
        /\ P[k + 1] = P[k] + x[k + 1] * z[k + 1]
    BY <1>1, <1>2, <1>3, <2>1
  <2> HIDE DEF Strict
  <2>6. Good(k)
    BY <1>5
  <2> DEFINE C == Covariance(k, X[k], Z[k], P[k])
             C2 == Covariance(k + 1, X[k + 1], Z[k + 1], P[k + 1])
  <2>7. /\ Dominated(k + 1, x[k + 1], z[k + 1], X[k + 1], Z[k + 1], P[k + 1])
        /\ C \in Int /\ C2 \in Int /\ C <= C2 /\ (x[k] < x[k + 1] /\ z[k] < z[k + 1] => C < C2)
    <3>1. Dominated(k, x[k], z[k], X[k], Z[k], P[k])
      BY <2>6
    <3>2. /\ Dominated(k + 1, x[k + 1], z[k + 1], X[k] + x[k + 1], Z[k] + z[k + 1],
                       P[k] + x[k + 1] * z[k + 1])
          /\ C \in Int
          /\ Covariance(k + 1, X[k] + x[k + 1], Z[k] + z[k + 1], P[k] + x[k + 1] * z[k + 1]) \in Int
          /\ C <= Covariance(k + 1, X[k] + x[k + 1], Z[k] + z[k + 1], P[k] + x[k + 1] * z[k + 1])
          /\ (x[k] < x[k + 1] /\ z[k] < z[k + 1]) =>
               C < Covariance(k + 1, X[k] + x[k + 1], Z[k] + z[k + 1], P[k] + x[k + 1] * z[k + 1])
      BY ONLY <2>1, <2>2, <2>3, <3>1, OneMorePoint
    <3> QED BY <2>5, <3>2
  <2>8. C >= 0
    BY <2>6
  <2>9. C2 >= 0 /\ (Strict => C2 > 0)
    <3> HIDE DEF C, C2
    <3> QED BY <2>4, <2>7, <2>8
  <2>10. Good(k + 1)
    BY <2>7, <2>9
  <2> QED BY <2>1, <2>10
<1>6. n \in T
  <2>1. 1 \in Int /\ n \in Int /\ n \in 1 .. n /\ \A i \in 1 .. n - 1 : i \in T => i + 1 \in T
    <3> HIDE DEF T
    <3> QED BY <1>5
  <2>2. 1 .. n \subseteq T
    <3> HIDE DEF T
    <3> QED BY ONLY <1>4, <2>1, IntervalInduction
  <2> QED BY <2>1, <2>2
<1>7. n \in 0 .. n
  OBVIOUS
<1> HIDE DEF Strict
<1>8. Good(n)
  BY <1>6
<1>9. X[n] \in Int /\ Z[n] \in Int /\ P[n] \in Int
  BY <1>7
<1> QED BY <1>1, <1>2, <1>3, <1>8, <1>9 DEF Strict, Covariance

Difference(w, a, x, b, y)  == \A i \in DOMAIN w : w[i] = a * x[i] - b * y[i]
SumsDiffer(w, a, x, b, y) == /\ SumOf(x) \in Int /\ SumOf(y) \in Int /\ SumOf(w) \in Int
                             /\ SumOf(w) = a * SumOf(x) - b * SumOf(y)

LEMMA SumOfDifference ==
  ASSUME NEW n \in Nat, NEW x \in [1 .. n -> Int], NEW y \in [1 .. n -> Int],
         NEW w \in [1 .. n -> Int], NEW a \in Int, NEW b \in Int,
         Difference(w, a, x, b, y)
  PROVE  SumsDiffer(w, a, x, b, y)
<1>1. PICK X \in [0 .. n -> Int] :
             X[0] = 0 /\ X[n] = SumOf(x) /\ \A i \in 1 .. n : X[i] = X[i - 1] + x[i]
  BY SumOfUnfolds
<1>2. PICK Y \in [0 .. n -> Int] :
             Y[0] = 0 /\ Y[n] = SumOf(y) /\ \A i \in 1 .. n : Y[i] = Y[i - 1] + y[i]
  BY SumOfUnfolds
<1>3. PICK W \in [0 .. n -> Int] :
             W[0] = 0 /\ W[n] = SumOf(w) /\ \A i \in 1 .. n : W[i] = W[i - 1] + w[i]
  BY SumOfUnfolds
<1> DEFINE T == {i \in 0 .. n : W[i] = a * X[i] - b * Y[i]}
<1>4. 0 \in T
  BY <1>1, <1>2, <1>3
<1>5. ASSUME NEW i \in 0 .. n - 1, i \in T PROVE i + 1 \in T
  <2>1. i + 1 \in 1 .. n /\ i + 1 \in 0 .. n /\ i \in 0 .. n /\ (i + 1) - 1 = i
    OBVIOUS
  <2>2. /\ X[i + 1] = X[i] + x[i + 1] /\ Y[i + 1] = Y[i] + y[i + 1] /\ W[i + 1] = W[i] + w[i + 1]
        /\ w[i + 1] = a * x[i + 1] - b * y[i + 1] /\ W[i] = a * X[i] - b * Y[i]
    BY <1>1, <1>2, <1>3, <1>5, <2>1 DEF Difference
  <2>3. X[i] \in Int /\ Y[i] \in Int /\ x[i + 1] \in Int /\ y[i + 1] \in Int
    BY <2>1
  <2>5. W[i + 1] = a * X[i + 1] - b * Y[i + 1]
    <3> DEFINE p == X[i]
               q == Y[i]
               r == x[i + 1]
               t == y[i + 1]
    <3>1. p \in Int /\ q \in Int /\ r \in Int /\ t \in Int /\ a \in Int /\ b \in Int
      BY <2>3
    <3>2. (a * p - b * q) + (a * r - b * t) = a * (p + r) - b * (q + t)
      <4> HIDE DEF p, q, r, t
      <4> QED BY ONLY <3>1
    <3> QED BY ONLY <2>2, <3>2
  <2> QED BY <2>1, <2>5
<1>6. n \in T
  <2>1. 0 \in Int /\ n \in Int /\ n \in 0 .. n /\ \A i \in 0 .. n - 1 : i \in T => i + 1 \in T
    <3> HIDE DEF T
    <3> QED BY <1>5
  <2>2. 0 .. n \subseteq T
    <3> HIDE DEF T
    <3> QED BY ONLY <1>4, <2>1, IntervalInduction
  <2> QED BY <2>1, <2>2
<1>7. n \in 0 .. n
  OBVIOUS
<1> QED BY <1>1, <1>2, <1>3, <1>6, <1>7 DEF SumsDiffer

------------------------------------------------------------------------------
\* The two quantities of which LeastSquares is the quotient.
Product(x, y) == [i \in 1 .. Len(x) |-> x[i] * y[i]]
Spread(x)     == Len(x) * SumOf(Product(x, x)) - SumOf(x) * SumOf(x)
Slant(x, y)   == Len(x) * SumOf(Product(x, y)) - SumOf(y) * SumOf(x)

LEMMA LeastSquaresIsQuotient ==
  ASSUME NEW x, NEW y, NEW yScale
  PROVE  LeastSquares(x, y, yScale) =
           IF Spread(x) = 0 THEN Zero ELSE [num |-> Slant(x, y), den |-> Spread(x) * yScale]
BY DEF LeastSquares, Spread, Slant, Product

LEMMA ProductTyped ==
  ASSUME NEW n \in Nat, NEW x \in [1 .. n -> Int], NEW y \in [1 .. n -> Int]
  PROVE  /\ Len(x) = n
         /\ Product(x, y) \in [1 .. n -> Int]
         /\ \A i \in 1 .. n : Product(x, y)[i] = x[i] * y[i]
<1>1. Len(x) = n
  BY IsASeq
<1>2. \A i \in 1 .. n : x[i] * y[i] \in Int
  OBVIOUS
<1> QED BY <1>1, <1>2 DEF Product

\* If each chord of the points is no steeper than a / b (or strictly less steep),
\* then so is the line through them.
LEMMA LineBelow ==
  ASSUME NEW n \in Nat \ {0}, NEW x \in [1 .. n -> Int], NEW y \in [1 .. n -> Int],
         NEW a \in Int, NEW b \in Int,
         \A i \in 2 .. n : x[i - 1] <= x[i] /\ b * (y[i] - y[i - 1]) <= a * (x[i] - x[i - 1])
  PROVE  /\ Spread(x) \in Nat /\ Slant(x, y) \in Int
         /\ b * Slant(x, y) <= a * Spread(x)
         /\ (n >= 2 /\ \A i \in 2 .. n : x[i - 1] < x[i]) => Spread(x) > 0
         /\ (n >= 2 /\ \A i \in 2 .. n : /\ x[i - 1] < x[i]
                                         /\ b * (y[i] - y[i - 1]) < a * (x[i] - x[i - 1]))
              => b * Slant(x, y) < a * Spread(x)
<1> DEFINE z == [i \in 1 .. n |-> a * x[i] - b * y[i]]
           xx == Product(x, x)
           xy == Product(x, y)
           xz == Product(x, z)
<1>1. \A i \in 1 .. n : x[i] \in Int /\ y[i] \in Int
  OBVIOUS
<1>2. z \in [1 .. n -> Int] /\ \A i \in 1 .. n : z[i] = a * x[i] - b * y[i]
  BY <1>1
<1> HIDE DEF z
<1>3. /\ Len(x) = n
      /\ xx \in [1 .. n -> Int] /\ \A i \in 1 .. n : xx[i] = x[i] * x[i]
      /\ xy \in [1 .. n -> Int] /\ \A i \in 1 .. n : xy[i] = x[i] * y[i]
      /\ xz \in [1 .. n -> Int] /\ \A i \in 1 .. n : xz[i] = x[i] * z[i]
  BY <1>2, ProductTyped
<1> HIDE DEF xx, xy, xz
<1>4. \A i \in 1 .. n : xz[i] = a * xx[i] - b * xy[i]
  <2>1. \A p, q \in Int : p * (a * p - b * q) = a * (p * p) - b * (p * q)
    OBVIOUS
  <2> SUFFICES ASSUME NEW i \in 1 .. n PROVE xz[i] = a * xx[i] - b * xy[i]
    OBVIOUS
  <2>2. xz[i] = x[i] * (a * x[i] - b * y[i]) /\ xx[i] = x[i] * x[i] /\ xy[i] = x[i] * y[i]
    BY <1>2, <1>3
  <2> QED BY <1>1, <2>1, <2>2
<1>5. /\ SumOf(x) \in Int /\ SumOf(y) \in Int /\ SumOf(z) \in Int
      /\ SumOf(xx) \in Int /\ SumOf(xy) \in Int /\ SumOf(xz) \in Int
      /\ SumOf(z) = a * SumOf(x) - b * SumOf(y)
      /\ SumOf(xz) = a * SumOf(xx) - b * SumOf(xy)
  <2>1. n \in Nat /\ a \in Int /\ b \in Int /\ x \in [1 .. n -> Int] /\ y \in [1 .. n -> Int]
    OBVIOUS
  <2>2. Difference(z, a, x, b, y) /\ Difference(xz, a, xx, b, xy)
    BY <1>2, <1>3, <1>4 DEF Difference
  <2>3. z \in [1 .. n -> Int] /\ xz \in [1 .. n -> Int] /\ xx \in [1 .. n -> Int] /\ xy \in [1 .. n -> Int]
    BY <1>2, <1>3
  <2>4. SumsDiffer(z, a, x, b, y)
    BY ONLY <2>1, <2>2, <2>3, SumOfDifference
  <2>5. SumsDiffer(xz, a, xx, b, xy)
    BY ONLY <2>1, <2>2, <2>3, SumOfDifference
  <2> QED BY ONLY <2>4, <2>5 DEF SumsDiffer
<1>13. Spread(x) = n * SumOf(xx) - SumOf(x) * SumOf(x)
       /\ Slant(x, y) = n * SumOf(xy) - SumOf(y) * SumOf(x)
  BY <1>3 DEF Spread, Slant, xx, xy
<1>6. n * SumOf(xz) - SumOf(x) * SumOf(z) = a * Spread(x) - b * Slant(x, y)
  <2> DEFINE X == SumOf(x)
             Y == SumOf(y)
             Q == SumOf(xx)
             R == SumOf(xy)
  <2>1. X \in Int /\ Y \in Int /\ Q \in Int /\ R \in Int /\ n \in Int /\ a \in Int /\ b \in Int
    BY <1>5
  <2>2. n * (a * Q - b * R) - X * (a * X - b * Y) = a * (n * Q - X * X) - b * (n * R - Y * X)
    <3> HIDE DEF X, Y, Q, R
    <3> QED BY ONLY <2>1
  <2> QED BY ONLY <1>5, <1>13, <2>2, Zenon
<1>7. Spread(x) \in Int /\ Slant(x, y) \in Int
  <2>1. \A p, q, r, t \in Int : p * q - r * t \in Int
    OBVIOUS
  <2>2. n \in Int
    OBVIOUS
  <2>3. /\ n * SumOf(xx) - SumOf(x) * SumOf(x) \in Int
        /\ n * SumOf(xy) - SumOf(y) * SumOf(x) \in Int
    BY ONLY <1>5, <2>1, <2>2, Zenon
  <2> QED BY ONLY <1>13, <2>3, Zenon
<1>8. \A i \in 2 .. n : i \in 1 .. n /\ i - 1 \in 1 .. n
  OBVIOUS
<1>9. \A i \in 2 .. n :
        /\ z[i - 1] <= z[i]
        /\ b * (y[i] - y[i - 1]) < a * (x[i] - x[i - 1]) => z[i - 1] < z[i]
  <2> SUFFICES ASSUME NEW i \in 2 .. n
               PROVE  /\ z[i - 1] <= z[i]
                      /\ b * (y[i] - y[i - 1]) < a * (x[i] - x[i - 1]) => z[i - 1] < z[i]
    OBVIOUS
  <2>1. z[i] = a * x[i] - b * y[i] /\ z[i - 1] = a * x[i - 1] - b * y[i - 1]
    BY <1>2, <1>8
  <2>2. b * (y[i] - y[i - 1]) <= a * (x[i] - x[i - 1])
    OBVIOUS
  <2>3. \A p, q, r, t \in Int :
          /\ b * (t - r) <= a * (q - p) => a * p - b * r <= a * q - b * t
          /\ b * (t - r) < a * (q - p) => a * p - b * r < a * q - b * t
    OBVIOUS
  <2>4. x[i] \in Int /\ y[i] \in Int /\ x[i - 1] \in Int /\ y[i - 1] \in Int
    BY <1>8
  <2>5. /\ b * (y[i] - y[i - 1]) <= a * (x[i] - x[i - 1])
             => a * x[i - 1] - b * y[i - 1] <= a * x[i] - b * y[i]
        /\ b * (y[i] - y[i - 1]) < a * (x[i] - x[i - 1])
             => a * x[i - 1] - b * y[i - 1] < a * x[i] - b * y[i]
    BY <2>3, <2>4, Zenon
  <2> QED BY <2>1, <2>2, <2>5
<1>10. \A i \in 2 .. n : x[i - 1] <= x[i]
  OBVIOUS
<1>11. /\ n * SumOf(xx) - SumOf(x) * SumOf(x) >= 0
       /\ (n >= 2 /\ \A i \in 2 .. n : x[i - 1] < x[i]) => n * SumOf(xx) - SumOf(x) * SumOf(x) > 0
  BY <1>3, <1>10, RisingTogether
<1>12. /\ n * SumOf(xz) - SumOf(x) * SumOf(z) >= 0
       /\ (n >= 2 /\ \A i \in 2 .. n : x[i - 1] < x[i] /\ z[i - 1] < z[i])
            => n * SumOf(xz) - SumOf(x) * SumOf(z) > 0
  BY <1>2, <1>3, <1>9, <1>10, RisingTogether
<1>14. a * Spread(x) \in Int /\ b * Slant(x, y) \in Int
  BY <1>7
<1> DEFINE A == a * Spread(x)
           B == b * Slant(x, y)
<1>15. /\ A - B >= 0
       /\ (n >= 2 /\ \A i \in 2 .. n : x[i - 1] < x[i] /\ z[i - 1] < z[i]) => A - B > 0
  BY <1>6, <1>12
<1>16. \A p, q \in Int : (p - q >= 0 => q <= p) /\ (p - q > 0 => q < p)
  OBVIOUS
<1>17. Spread(x) \in Nat
  BY <1>7, <1>11, <1>13
<1> HIDE DEF A, B
<1>18. /\ B <= A
       /\ (n >= 2 /\ \A i \in 2 .. n : x[i - 1] < x[i] /\ z[i - 1] < z[i]) => B < A
  BY <1>14, <1>15, <1>16 DEF A, B
<1> QED BY <1>7, <1>9, <1>11, <1>13, <1>17, <1>18 DEF A, B

------------------------------------------------------------------------------
\* What Last keeps: the last n elements, or all.
LEMMA LastKeeps ==
  ASSUME NEW S, NEW seq \in Seq(S), NEW n \in Nat
  PROVE  /\ Last(seq, n) \in Seq(S)
         /\ Len(Last(seq, n)) = IF Len(seq) <= n THEN Len(seq) ELSE n
         /\ \A i \in 1 .. Len(Last(seq, n)) :
              Last(seq, n)[i] = seq[Len(seq) - Len(Last(seq, n)) + i]
<1> DEFINE m == Len(seq)
           last == SubSeq(seq, m - n + 1, m)
<1>1. CASE m <= n
  BY <1>1 DEF Last
<1>2. CASE m > n
  <2>1. m - n + 1 \in Int /\ m \in Int /\ m - n + 1 <= m + 1 /\ m - n + 1 >= 1
    BY <1>2
  <2>2. last \in Seq(S) /\ Len(last) = n /\ \A i \in 1 .. n : last[i] = seq[m - n + i]
    <3>1. last = [i \in 1 .. n |-> seq[m - n + i]]
      BY <1>2, <2>1
    <3>2. \A i \in 1 .. n : m - n + i \in 1 .. m
      BY <1>2
    <3>3. \A i \in 1 .. n : seq[m - n + i] \in S
      BY <3>2
    <3> HIDE DEF last
    <3>4. last \in [1 .. n -> S]
      BY <3>1, <3>3
    <3>5. last \in Seq(S) /\ Len(last) = n
      BY <3>4, IsASeq
    <3> QED BY <3>1, <3>5
  <2>3. Last(seq, n) = last /\ ~(m <= n)
    BY <1>2 DEF Last
  <2> HIDE DEF last
  <2> QED BY <2>2, <2>3
<1> QED BY <1>1, <1>2

\* What the second estimator makes of a chord.
ScaledSlope(win, i) == (win[i].pressure - win[i - 1].pressure) * (GapScale \div win[i].gap)

LEMMA SampleTyped ==
  ASSUME NEW n \in Nat, NEW win \in [1 .. n -> Sample], NEW i \in 1 .. n
  PROVE  win[i].gap \in Nat /\ win[i].pressure \in Nat /\ win[i].gap \in Gaps
BY ControllerAssumption DEF Sample

LEMMA ScaledSlopeTyped ==
  ASSUME NEW n \in Nat, NEW win \in [1 .. n -> Sample], NEW i \in 2 .. n, win[i].gap # 0
  PROVE  /\ ScaledSlope(win, i) \in Int
         /\ \E m \in Nat \ {0} : /\ win[i].gap * m = GapScale
                                 /\ ScaledSlope(win, i)
                                      = (win[i].pressure - win[i - 1].pressure) * m
<1> DEFINE g == win[i].gap
           rise == win[i].pressure - win[i - 1].pressure
<1>1. i \in 1 .. n /\ i - 1 \in 1 .. n
  OBVIOUS
<1>2. g \in Gaps \ {0} /\ g \in Nat \ {0} /\ rise \in Int
  BY <1>1, SampleTyped
<1>3. PICK m \in 1 .. GapScale : g * m = GapScale
  BY <1>2, ControllerAssumption
<1>4. m \in Nat \ {0} /\ GapScale \in Nat \ {0}
  BY ControllerAssumption
<1>5. \A p, q \in Nat \ {0} : (p * q) \div p = q
  OBVIOUS
<1>6. GapScale \div g = m
  <2> HIDE DEF g
  <2>1. (g * m) \div g = m
    BY <1>2, <1>4, <1>5
  <2> QED BY <1>3, <2>1
<1>7. ScaledSlope(win, i) = rise * m
  BY <1>6 DEF ScaledSlope
<1>8. rise * m \in Int
  BY <1>2, <1>4
<1> HIDE DEF rise
<1> QED BY <1>3, <1>4, <1>7, <1>8 DEF rise

\* The slopes are those of the chords.
LEMMA SlopesWithin ==
  ASSUME NEW n \in Nat \ {0}, NEW win \in [1 .. n -> Sample], NEW V,
         \A i \in 2 .. n : win[i].gap # 0 => ScaledSlope(win, i) \in V
  PROVE  ChordSlopes(win) \in Seq(V)
<1> DEFINE Body(g) == [i \in 1 .. n |->
                         IF i = 1 THEN <<>>
                         ELSE IF win[i].gap = 0 THEN g[i - 1]
                         ELSE Append(g[i - 1], ScaledSlope(win, i))]
           step == [p \in Seq(V) \X Int |->
                      IF p[2] \in 2 .. n /\ win[p[2]].gap # 0
                      THEN Append(p[1], ScaledSlope(win, p[2])) ELSE p[1]]
           s == CHOOSE g : g = Body(g)
<1>1. win \in Seq(Sample) /\ Len(win) = n
  BY IsASeq
<1>2. step \in [Seq(V) \X Int -> Seq(V)]
  <2> SUFFICES ASSUME NEW q \in Seq(V), NEW i \in Int
               PROVE  (IF i \in 2 .. n /\ win[i].gap # 0
                       THEN Append(q, ScaledSlope(win, i)) ELSE q) \in Seq(V)
    OBVIOUS
  <2>1. CASE i \in 2 .. n /\ win[i].gap # 0
    <3>1. ScaledSlope(win, i) \in V
      BY <2>1
    <3> QED BY <2>1, <3>1
  <2>2. CASE ~(i \in 2 .. n /\ win[i].gap # 0)
    BY <2>2
  <2> QED BY <2>1, <2>2
<1>3. PICK f \in [1 .. n -> Seq(V)] : Unfolds(f, 1, n, <<>>, step)
  <2>1. 1 \in Int /\ n \in Int /\ 1 <= n /\ <<>> \in Seq(V)
    OBVIOUS
  <2> HIDE DEF step
  <2> QED BY ONLY <1>2, <2>1, RecursionExists
<1>4. \A i \in 2 .. n : step[<<f[i - 1], i>>] = IF win[i].gap = 0 THEN f[i - 1]
                                                ELSE Append(f[i - 1], ScaledSlope(win, i))
  <2> SUFFICES ASSUME NEW i \in 2 .. n
               PROVE  step[<<f[i - 1], i>>] = IF win[i].gap = 0 THEN f[i - 1]
                                              ELSE Append(f[i - 1], ScaledSlope(win, i))
    OBVIOUS
  <2>1. f[i - 1] \in Seq(V) /\ i \in Int
    OBVIOUS
  <2>2. <<f[i - 1], i>> \in Seq(V) \X Int
    BY <2>1
  <2> QED BY <2>1, <2>2
<1>5. f = Body(f)
  <2>1. \A i \in 1 .. n : i # 1 => i \in 2 .. n
    OBVIOUS
  <2>2. f[1] = <<>> /\ \A i \in 2 .. n : f[i] = IF win[i].gap = 0 THEN f[i - 1]
                                                ELSE Append(f[i - 1], ScaledSlope(win, i))
    <3>1. 1 + 1 = 2
      OBVIOUS
    <3> HIDE DEF step
    <3> QED BY <1>3, <1>4, <3>1 DEF Unfolds
  <2>3. f = [i \in 1 .. n |-> f[i]]
    OBVIOUS
  <2> QED BY ONLY <2>1, <2>2, <2>3
<1>6. s = Body(s)
  <2> HIDE DEF Body
  <2> QED BY <1>5
<1>7. ChordSlopes(win) = s[n]
  BY <1>1 DEF ChordSlopes, ScaledSlope
<1>8. s[1] = <<>> /\ \A i \in 2 .. n : s[i] = IF win[i].gap = 0 THEN s[i - 1]
                                              ELSE Append(s[i - 1], ScaledSlope(win, i))
  <2> HIDE DEF s
  <2>1. \A i \in 1 .. n : s[i] = IF i = 1 THEN <<>>
                                 ELSE IF win[i].gap = 0 THEN s[i - 1]
                                 ELSE Append(s[i - 1], ScaledSlope(win, i))
    BY <1>6, Zenon
  <2>2. 1 \in 1 .. n /\ \A i \in 2 .. n : i \in 1 .. n /\ i # 1
    OBVIOUS
  <2> QED BY ONLY <2>1, <2>2
<1> DEFINE T == {i \in 1 .. n : s[i] \in Seq(V)}
<1> HIDE DEF s
<1>9. 1 \in T
  <2>1. <<>> \in Seq(V) /\ 1 \in 1 .. n
    OBVIOUS
  <2> QED BY <1>8, <2>1
<1>10. ASSUME NEW i \in 1 .. n - 1, i \in T PROVE i + 1 \in T
  <2>1. i + 1 \in 2 .. n /\ i + 1 \in 1 .. n /\ (i + 1) - 1 = i
    OBVIOUS
  <2>2. s[i] \in Seq(V)
    BY <1>10
  <2>3. s[i + 1] = IF win[i + 1].gap = 0 THEN s[i]
                   ELSE Append(s[i], ScaledSlope(win, i + 1))
    BY <1>8, <2>1
  <2>4. s[i + 1] \in Seq(V)
    <3>1. CASE win[i + 1].gap = 0
      BY <2>2, <2>3, <3>1
    <3>2. CASE win[i + 1].gap # 0
      <4>1. ScaledSlope(win, i + 1) \in V
        BY <2>1, <3>2
      <4> QED BY <2>2, <2>3, <3>2, <4>1
    <3> QED BY <3>1, <3>2
  <2> QED BY <2>1, <2>4
<1>11. 1 .. n \subseteq T
  <2>1. 1 \in Int /\ n \in Int /\ \A i \in 1 .. n - 1 : i \in T => i + 1 \in T
    <3> HIDE DEF T
    <3> QED BY <1>10
  <2> HIDE DEF T
  <2> QED BY ONLY <1>9, <2>1, IntervalInduction
<1>12. n \in 1 .. n
  OBVIOUS
<1> QED BY <1>7, <1>11, <1>12

------------------------------------------------------------------------------
\* A least-squares line through points whose x do not fall has a slope.
LEMMA LeastSquaresTyped ==
  ASSUME NEW n \in Nat, NEW x \in [1 .. n -> Int], NEW y \in [1 .. n -> Int],
         \A i \in 2 .. n : x[i - 1] <= x[i], NEW yScale \in Nat \ {0}
  PROVE  LeastSquares(x, y, yScale) \in Rate
<1>1. Spread(x) = 0 \/ (Spread(x) \in Nat \ {0} /\ Slant(x, y) \in Int)
  <2>1. CASE n = 0
    <3>1. Len(x) = 0 /\ SumOf(x) = 0 /\ SumOf(Product(x, x)) \in Int
      <4>1. \A z \in [1 .. n -> Int] : SumOf(z) = 0
        BY <2>1, SumOfUnfolds
      <4>2. Product(x, x) \in [1 .. n -> Int] /\ Len(x) = n
        BY ProductTyped
      <4> QED BY <2>1, <4>1, <4>2
    <3> QED BY <3>1 DEF Spread
  <2>2. CASE n # 0
    <3>1. n \in Nat \ {0} /\ 0 \in Int
      BY <2>2
    <3>2. \A i \in 2 .. n : x[i - 1] <= x[i] /\ 0 * (y[i] - y[i - 1]) <= 0 * (x[i] - x[i - 1])
      <4> SUFFICES ASSUME NEW i \in 2 .. n
                   PROVE  0 * (y[i] - y[i - 1]) <= 0 * (x[i] - x[i - 1])
        OBVIOUS
      <4>1. x[i] \in Int /\ x[i - 1] \in Int /\ y[i] \in Int /\ y[i - 1] \in Int
        OBVIOUS
      <4> QED BY <4>1
    <3>3. Spread(x) \in Nat /\ Slant(x, y) \in Int
      BY ONLY <3>1, <3>2, LineBelow, x \in [1 .. n -> Int], y \in [1 .. n -> Int]
    <3> QED BY <3>3
  <2> QED BY <2>1, <2>2
<1>2. \A p, q \in Nat \ {0} : p * q \in Nat \ {0}
  OBVIOUS
<1>3. CASE Spread(x) = 0
  BY <1>3, LeastSquaresIsQuotient DEF Rate, Zero
<1>4. CASE Spread(x) # 0
  <2>1. Slant(x, y) \in Int /\ Spread(x) * yScale \in Nat \ {0}
    BY <1>1, <1>2, <1>4
  <2>2. LeastSquares(x, y, yScale) = [num |-> Slant(x, y), den |-> Spread(x) * yScale]
    BY <1>4, LeastSquaresIsQuotient
  <2> QED BY <2>1, <2>2 DEF Rate
<1> QED BY <1>3, <1>4

------------------------------------------------------------------------------
PressuresOf(win) == [i \in 1 .. Len(win) |-> win[i].pressure]
LineSlope(win)   == LeastSquares(Times(win), PressuresOf(win), 1)

\* The points through which the first estimator lays its line.
LEMMA PointsOfWindow ==
  ASSUME NEW n \in Nat \ {0}, NEW win \in [1 .. n -> Sample]
  PROVE  /\ Len(win) = n
         /\ Times(win) \in [1 .. n -> Int] /\ PressuresOf(win) \in [1 .. n -> Int]
         /\ \A i \in 2 .. n :
              /\ Chord(win, i).num \in Int /\ Chord(win, i).den \in Nat
              /\ Chord(win, i).den = win[i].gap
              /\ Times(win)[i] - Times(win)[i - 1] = Chord(win, i).den
              /\ PressuresOf(win)[i] - PressuresOf(win)[i - 1] = Chord(win, i).num
              /\ Times(win)[i - 1] <= Times(win)[i]
              /\ Chord(win, i).den > 0 => Times(win)[i - 1] < Times(win)[i]
<1>1. win \in Seq(Sample) /\ Len(win) = n
  BY IsASeq
<1>2. /\ Times(win) \in [1 .. n -> Int]
      /\ \A i \in 2 .. n : Times(win)[i] = Times(win)[i - 1] + win[i].gap
  BY TimesUnfold
<1>3. \A i \in 1 .. n : win[i].gap \in Nat /\ win[i].pressure \in Nat
  BY SampleTyped
<1>4. PressuresOf(win) \in [1 .. n -> Int] /\ \A i \in 1 .. n : PressuresOf(win)[i] = win[i].pressure
  BY <1>1, <1>3 DEF PressuresOf
<1>5. ASSUME NEW i \in 2 .. n
      PROVE  /\ Chord(win, i).num \in Int /\ Chord(win, i).den \in Nat
             /\ Chord(win, i).den = win[i].gap
             /\ Times(win)[i] - Times(win)[i - 1] = Chord(win, i).den
             /\ PressuresOf(win)[i] - PressuresOf(win)[i - 1] = Chord(win, i).num
             /\ Times(win)[i - 1] <= Times(win)[i]
             /\ Chord(win, i).den > 0 => Times(win)[i - 1] < Times(win)[i]
  <2>1. i \in 1 .. n /\ i - 1 \in 1 .. n
    OBVIOUS
  <2>2. Times(win)[i] = Times(win)[i - 1] + win[i].gap /\ Times(win)[i - 1] \in Int
    BY <1>2, <2>1
  <2>3. Chord(win, i).num = win[i].pressure - win[i - 1].pressure /\ Chord(win, i).den = win[i].gap
    BY DEF Chord
  <2>4. PressuresOf(win)[i] = win[i].pressure /\ PressuresOf(win)[i - 1] = win[i - 1].pressure
    BY <1>4, <2>1
  <2>5. /\ win[i].gap \in Nat /\ win[i].pressure \in Nat /\ win[i - 1].pressure \in Nat
    BY <1>3, <2>1
  <2> QED BY <2>2, <2>3, <2>4, <2>5
<1> QED BY <1>1, <1>2, <1>4, <1>5

\* The line is no steeper than a / b if no chord is (and less steep if all are).
LEMMA SlopeBelow ==
  ASSUME NEW n \in Nat \ {0}, n >= 2, NEW win \in [1 .. n -> Sample], NEW a \in Int, NEW b \in Int,
         \A i \in 2 .. n : b * Chord(win, i).num <= a * Chord(win, i).den
  PROVE  /\ LineSlope(win) \in Rate
         /\ LineSlope(win) = Zero \/ b * LineSlope(win).num <= a * LineSlope(win).den
         /\ (\A i \in 2 .. n : Chord(win, i).den > 0) =>
              /\ b * LineSlope(win).num <= a * LineSlope(win).den
              /\ (\A i \in 2 .. n : b * Chord(win, i).num < a * Chord(win, i).den) =>
                   b * LineSlope(win).num < a * LineSlope(win).den
<1> DEFINE x == Times(win)
           y == PressuresOf(win)
           Apart == \A i \in 2 .. n : Chord(win, i).den > 0
           Strict == \A i \in 2 .. n : b * Chord(win, i).num < a * Chord(win, i).den
<1>1. /\ x \in [1 .. n -> Int] /\ y \in [1 .. n -> Int]
      /\ \A i \in 2 .. n : /\ x[i] - x[i - 1] = Chord(win, i).den
                           /\ y[i] - y[i - 1] = Chord(win, i).num
                           /\ x[i - 1] <= x[i]
                           /\ Chord(win, i).den > 0 => x[i - 1] < x[i]
  BY PointsOfWindow
<1> HIDE DEF x, y
<1>2. \A i \in 2 .. n : x[i - 1] <= x[i] /\ b * (y[i] - y[i - 1]) <= a * (x[i] - x[i - 1])
  BY <1>1
<1>3. /\ Apart => \A i \in 2 .. n : x[i - 1] < x[i]
      /\ Apart /\ Strict =>
           \A i \in 2 .. n : x[i - 1] < x[i] /\ b * (y[i] - y[i - 1]) < a * (x[i] - x[i - 1])
  BY <1>1
<1>4. /\ Spread(x) \in Nat /\ Slant(x, y) \in Int
      /\ b * Slant(x, y) <= a * Spread(x)
      /\ Apart => Spread(x) > 0
      /\ Apart /\ Strict => b * Slant(x, y) < a * Spread(x)
  <2>1. /\ Spread(x) \in Nat /\ Slant(x, y) \in Int
        /\ b * Slant(x, y) <= a * Spread(x)
        /\ (n >= 2 /\ \A i \in 2 .. n : x[i - 1] < x[i]) => Spread(x) > 0
        /\ (n >= 2 /\ \A i \in 2 .. n : /\ x[i - 1] < x[i]
                                        /\ b * (y[i] - y[i - 1]) < a * (x[i] - x[i - 1]))
             => b * Slant(x, y) < a * Spread(x)
    BY ONLY <1>1, <1>2, LineBelow, n \in Nat \ {0}, a \in Int, b \in Int
  <2> HIDE DEF Apart, Strict
  <2> QED BY <1>3, <2>1
<1>5. LineSlope(win) \in Rate
  <2>1. LeastSquares(x, y, 1) \in Rate
    <3>1. n \in Nat /\ 1 \in Nat \ {0} /\ \A i \in 2 .. n : x[i - 1] <= x[i]
      BY <1>2
    <3> QED BY ONLY <1>1, <3>1, LeastSquaresTyped
  <2> QED BY <2>1 DEF LineSlope, x, y
<1>6. LineSlope(win) = IF Spread(x) = 0 THEN Zero ELSE [num |-> Slant(x, y), den |-> Spread(x) * 1]
  BY LeastSquaresIsQuotient DEF LineSlope, x, y
<1>7. Spread(x) * 1 = Spread(x)
  BY <1>4
<1>8. CASE Spread(x) = 0
  <2>1. LineSlope(win) = Zero /\ ~Apart
    <3> HIDE DEF Apart
    <3> QED BY <1>4, <1>6, <1>8
  <2> QED BY <1>5, <2>1
<1>9. CASE Spread(x) # 0
  <2>1. LineSlope(win).num = Slant(x, y) /\ LineSlope(win).den = Spread(x)
    BY <1>6, <1>7, <1>9
  <2> QED BY ONLY <1>4, <1>5, <2>1
<1> QED BY <1>8, <1>9

\* Its slope lies between those of the chords.
LEMMA SlopeBetweenChords ==
  ASSUME NEW n \in Nat \ {0}, n >= 2, NEW win \in [1 .. n -> Sample],
         \A i \in 2 .. n : Chord(win, i).den > 0
  PROVE  /\ \E i \in 2 .. n : LessEq(Chord(win, i), LineSlope(win))
         /\ \E i \in 2 .. n : LessEq(LineSlope(win), Chord(win, i))
<1> DEFINE d == LineSlope(win)
           p == d.num
           q == d.den
<1>1. p \in Int /\ q \in Int
  <2>1. \A i \in 2 .. n : 0 * Chord(win, i).num <= 0 * Chord(win, i).den
    <3>1. \A r, t \in Int : 0 * r <= 0 * t
      OBVIOUS
    <3>2. \A i \in 2 .. n : Chord(win, i).num \in Int /\ Chord(win, i).den \in Nat
      BY PointsOfWindow
    <3>3. \A m \in Nat : m \in Int
      OBVIOUS
    <3> QED BY ONLY <3>1, <3>2, <3>3, Zenon
  <2>2. d \in Rate
    <3>1. 0 \in Int
      OBVIOUS
    <3> HIDE DEF d
    <3> QED BY ONLY <2>1, <3>1, SlopeBelow, n \in Nat \ {0}, n >= 2, win \in [1 .. n -> Sample] DEF d
  <2> QED BY <2>2 DEF Rate
<1>2. \A i \in 2 .. n : Chord(win, i).num \in Int /\ Chord(win, i).den \in Int
  <2>1. \A i \in 2 .. n : Chord(win, i).num \in Int /\ Chord(win, i).den \in Nat
    BY ONLY PointsOfWindow, n \in Nat \ {0}, win \in [1 .. n -> Sample]
  <2>2. \A m \in Nat : m \in Int
    OBVIOUS
  <2> QED BY ONLY <2>1, <2>2
<1>3. ASSUME \A i \in 2 .. n : ~LessEq(Chord(win, i), d) PROVE FALSE
  <2> DEFINE a == -p
             b == -q
  <2>1. a \in Int /\ b \in Int /\ a * q = b * p
    BY <1>1
  <2>2. \A i \in 2 .. n : /\ b * Chord(win, i).num < a * Chord(win, i).den
                          /\ b * Chord(win, i).num <= a * Chord(win, i).den
    <3> SUFFICES ASSUME NEW i \in 2 .. n
                 PROVE  /\ b * Chord(win, i).num < a * Chord(win, i).den
                        /\ b * Chord(win, i).num <= a * Chord(win, i).den
      OBVIOUS
    <3> DEFINE r == Chord(win, i).num
               t == Chord(win, i).den
    <3>1. r \in Int /\ t \in Int /\ ~(r * q <= p * t)
      BY <1>2, <1>3 DEF LessEq
    <3> HIDE DEF r, t, p, q
    <3>2. (-q) * r < (-p) * t /\ (-q) * r <= (-p) * t
      BY <1>1, <3>1
    <3> QED BY <3>2 DEF r, t
  <2> HIDE DEF a, b
  <2>3. b * d.num < a * d.den
    BY ONLY <2>1, <2>2, SlopeBelow, n \in Nat \ {0}, n >= 2, win \in [1 .. n -> Sample],
            \A i \in 2 .. n : Chord(win, i).den > 0 DEF d
  <2> HIDE DEF d
  <2>4. b * p \in Int
    BY <1>1, <2>1
  <2> QED BY <2>1, <2>3, <2>4
<1>4. ASSUME \A i \in 2 .. n : ~LessEq(d, Chord(win, i)) PROVE FALSE
  <2>1. \A i \in 2 .. n : /\ q * Chord(win, i).num < p * Chord(win, i).den
                          /\ q * Chord(win, i).num <= p * Chord(win, i).den
    <3> SUFFICES ASSUME NEW i \in 2 .. n
                 PROVE  /\ q * Chord(win, i).num < p * Chord(win, i).den
                        /\ q * Chord(win, i).num <= p * Chord(win, i).den
      OBVIOUS
    <3> DEFINE r == Chord(win, i).num
               t == Chord(win, i).den
    <3>1. r \in Int /\ t \in Int /\ ~(p * t <= r * q)
      BY <1>2, <1>4 DEF LessEq
    <3> HIDE DEF r, t, p, q
    <3>2. q * r < p * t /\ q * r <= p * t
      BY <1>1, <3>1
    <3> QED BY <3>2 DEF r, t
  <2>2. q * d.num < p * d.den
    <3> HIDE DEF p, q
    <3> QED BY ONLY <1>1, <2>1, SlopeBelow, n \in Nat \ {0}, n >= 2, win \in [1 .. n -> Sample],
            \A i \in 2 .. n : Chord(win, i).den > 0 DEF d
  <2>3. q * p = p * q /\ q * p \in Int
    <3> HIDE DEF p, q
    <3> QED BY <1>1
  <2> QED BY <2>2, <2>3
<1> QED BY <1>3, <1>4

------------------------------------------------------------------------------
\* The window of two samples or more.
LEMMA WindowOf ==
  ASSUME NEW seq \in Seq(Sample)
  PROVE  /\ Last(seq, Window) \in [1 .. Len(Last(seq, Window)) -> Sample]
         /\ Len(Last(seq, Window)) \in Nat
         /\ Len(seq) >= 2 => Len(Last(seq, Window)) \in Nat \ {0} /\ Len(Last(seq, Window)) >= 2
         /\ Len(Last(seq, Window)) <= Len(seq)
<1>1. Window \in Nat /\ Window >= 2
  BY ControllerAssumption
<1>2. /\ Last(seq, Window) \in Seq(Sample)
      /\ Len(Last(seq, Window)) = IF Len(seq) <= Window THEN Len(seq) ELSE Window
  BY <1>1, LastKeeps
<1>3. Len(seq) \in Nat
  OBVIOUS
<1> DEFINE win == Last(seq, Window)
<1> HIDE DEF win
<1>4. win \in [1 .. Len(win) -> Sample]
  BY <1>2 DEF win
<1> QED BY <1>1, <1>2, <1>3, <1>4 DEF win

LEMMA FirstDerivativeIs ==
  ASSUME NEW seq, ~(Len(seq) < 2)
  PROVE  computeFirstDerivative(seq) = LineSlope(Last(seq, Window))
BY DEF computeFirstDerivative, LineSlope, PressuresOf

\* Indices and slopes, as the second estimator takes them.
LEMMA IndexTyped ==
  ASSUME NEW s \in Seq(Int)
  PROVE  /\ Len(s) \in Nat /\ s \in [1 .. Len(s) -> Int]
         /\ [i \in 1 .. Len(s) |-> i - 1] \in [1 .. Len(s) -> Int]
         /\ \A i \in 2 .. Len(s) :
              [j \in 1 .. Len(s) |-> j - 1][i - 1] <= [j \in 1 .. Len(s) |-> j - 1][i]
OBVIOUS

LEMMA DerivativesTyped ==
  ASSUME NEW seq \in Seq(Sample)
  PROVE  Derivatives(seq)[1] \in Rate /\ Derivatives(seq)[2] \in Rate
<1> DEFINE win == Last(seq, Window)
           n == Len(win)
           slopes == ChordSlopes(win)
           index == [i \in 1 .. Len(slopes) |-> i - 1]
<1>1. Zero \in Rate
  BY DEF Zero, Rate
<1>2. Len(seq) \in Nat
  OBVIOUS
<1>3. computeFirstDerivative(seq) \in Rate
  <2>1. CASE Len(seq) < 2
    BY <1>1, <2>1 DEF computeFirstDerivative
  <2>2. CASE ~(Len(seq) < 2)
    <3>1. n \in Nat \ {0} /\ win \in [1 .. n -> Sample]
      BY <1>2, <2>2, WindowOf
    <3>2. /\ n \in Nat /\ 1 \in Nat \ {0}
          /\ Times(win) \in [1 .. n -> Int] /\ PressuresOf(win) \in [1 .. n -> Int]
          /\ \A i \in 2 .. n : Times(win)[i - 1] <= Times(win)[i]
      <4> HIDE DEF win, n
      <4>1. /\ Times(win) \in [1 .. n -> Int] /\ PressuresOf(win) \in [1 .. n -> Int]
            /\ \A i \in 2 .. n : Times(win)[i - 1] <= Times(win)[i]
        BY ONLY <3>1, PointsOfWindow
      <4> QED BY ONLY <3>1, <4>1
    <3>3. LineSlope(win) \in Rate
      <4> HIDE DEF win, n
      <4> QED BY ONLY <3>2, LeastSquaresTyped DEF LineSlope
    <3> QED BY <2>2, <3>3, FirstDerivativeIs
  <2> QED BY <2>1, <2>2
<1>4. computeSecondDerivative(seq) \in Rate
  <2>1. CASE Len(win) < 3 \/ Len(slopes) < 2
    BY <1>1, <2>1 DEF computeSecondDerivative
  <2>2. CASE ~(Len(win) < 3 \/ Len(slopes) < 2)
    <3>1. n \in Nat \ {0} /\ win \in [1 .. n -> Sample]
      <4>1. n \in Nat /\ win \in [1 .. n -> Sample]
        BY WindowOf
      <4> HIDE DEF win
      <4> QED BY <2>2, <4>1
    <3>2. slopes \in Seq(Int)
      <4> HIDE DEF win, n
      <4>1. n \in Nat
        BY <3>1
      <4>2. \A i \in 2 .. n : win[i].gap # 0 => ScaledSlope(win, i) \in Int
        BY <3>1, <4>1, ScaledSlopeTyped
      <4> QED BY <3>1, <4>2, SlopesWithin
    <3> HIDE DEF slopes
    <3>3. /\ Len(slopes) \in Nat /\ slopes \in [1 .. Len(slopes) -> Int]
          /\ index \in [1 .. Len(slopes) -> Int]
          /\ \A i \in 2 .. Len(slopes) : index[i - 1] <= index[i]
      BY <3>2, IndexTyped
    <3>4. GapScale \in Nat \ {0}
      BY ControllerAssumption
    <3>5. LeastSquares(index, slopes, GapScale) \in Rate
      <4> HIDE DEF index
      <4> QED BY ONLY <3>3, <3>4, LeastSquaresTyped
    <3> QED BY <2>2, <3>5 DEF computeSecondDerivative, slopes
  <2> QED BY <2>1, <2>2
<1> QED BY <1>1, <1>3, <1>4 DEF Derivatives

\* On points of the same height the least-squares line is level.
LEMMA LevelLine ==
  ASSUME NEW c \in Int, NEW s \in Seq({c}), NEW yScale
  PROVE  LeastSquares([i \in 1 .. Len(s) |-> i - 1], s, yScale).num = 0
<1> DEFINE n == Len(s)
           x == [i \in 1 .. n |-> i - 1]
<1>1. s \in Seq(Int) /\ n \in Nat /\ \A i \in 1 .. n : s[i] = c
  <2>1. {c} \subseteq Int
    OBVIOUS
  <2> QED BY <2>1, SeqMonotonic, ElementOfSeq
<1>2. /\ s \in [1 .. n -> Int] /\ x \in [1 .. n -> Int]
      /\ \A i \in 2 .. n : x[i - 1] <= x[i]
  BY <1>1, IndexTyped
<1>3. CASE n = 0
  <2>1. Spread(x) = 0
    <3>1. Len(x) = 0 /\ SumOf(x) = 0 /\ SumOf(Product(x, x)) \in Int
      <4> HIDE DEF x, n
      <4>1. \A z \in [1 .. n -> Int] : SumOf(z) = 0
        BY <1>1, <1>3, SumOfUnfolds
      <4>2. Product(x, x) \in [1 .. n -> Int] /\ Len(x) = n
        BY <1>1, <1>2, ProductTyped
      <4> QED BY <1>2, <1>3, <4>1, <4>2
    <3> HIDE DEF x
    <3> QED BY <3>1 DEF Spread
  <2>2. LeastSquares(x, s, yScale) = Zero
    <3> HIDE DEF x
    <3> QED BY <2>1, LeastSquaresIsQuotient
  <2> QED BY <2>2 DEF Zero
<1>4. CASE n # 0
  <2>1. n \in Nat \ {0} /\ 0 \in Int /\ 1 \in Int /\ (-1) \in Int
    BY <1>1, <1>4
  <2>2. \A i \in 2 .. n : s[i] = c /\ s[i - 1] = c /\ x[i] \in Int /\ x[i - 1] \in Int
    <3>1. \A i \in 2 .. n : i \in 1 .. n /\ i - 1 \in 1 .. n
      OBVIOUS
    <3> HIDE DEF n, x
    <3> QED BY <1>1, <1>2, <3>1
  <2> HIDE DEF x, n
  <2>3. \A i \in 2 .. n : /\ x[i - 1] <= x[i]
                          /\ 1 * (s[i] - s[i - 1]) <= 0 * (x[i] - x[i - 1])
                          /\ (-1) * (s[i] - s[i - 1]) <= 0 * (x[i] - x[i - 1])
    <3>1. \A p, q, r \in Int : 1 * (p - p) <= 0 * (q - r) /\ (-1) * (p - p) <= 0 * (q - r)
      OBVIOUS
    <3>2. c \in Int
      OBVIOUS
    <3> QED BY ONLY <1>2, <2>2, <3>1, <3>2, Zenon
  <2>4. Slant(x, s) \in Int /\ Spread(x) \in Nat /\ 1 * Slant(x, s) <= 0 * Spread(x)
    BY ONLY <1>2, <2>1, <2>3, LineBelow
  <2>5. (-1) * Slant(x, s) <= 0 * Spread(x)
    BY ONLY <1>2, <2>1, <2>3, LineBelow
  <2>6. Slant(x, s) = 0
    BY <2>4, <2>5
  <2> QED BY <2>6, LeastSquaresIsQuotient DEF Zero, x, n
<1> QED BY <1>3, <1>4

------------------------------------------------------------------------------
\* The last samples of the last samples.
LEMMA LastOfLast ==
  ASSUME NEW S, NEW seq \in Seq(S), NEW m \in Nat, NEW n \in Nat, n <= m
  PROVE  Last(Last(seq, m), n) = Last(seq, n)
<1> DEFINE t == Last(seq, m)
           u == Last(t, n)
           v == Last(seq, n)
<1>1. /\ t \in Seq(S) /\ Len(t) = IF Len(seq) <= m THEN Len(seq) ELSE m
      /\ \A i \in 1 .. Len(t) : t[i] = seq[Len(seq) - Len(t) + i]
  BY LastKeeps
<1>2. /\ v \in Seq(S) /\ Len(v) = IF Len(seq) <= n THEN Len(seq) ELSE n
      /\ \A i \in 1 .. Len(v) : v[i] = seq[Len(seq) - Len(v) + i]
  BY LastKeeps
<1> HIDE DEF t, v
<1>3. /\ u \in Seq(S) /\ Len(u) = IF Len(t) <= n THEN Len(t) ELSE n
      /\ \A i \in 1 .. Len(u) : u[i] = t[Len(t) - Len(u) + i]
  BY <1>1, LastKeeps
<1> HIDE DEF u
<1>4. Len(seq) \in Nat /\ Len(t) \in Nat /\ Len(u) \in Nat /\ Len(v) \in Nat
  BY <1>1, <1>2, <1>3
<1>5. Len(u) = Len(v) /\ Len(u) <= Len(t)
  BY <1>1, <1>2, <1>3, <1>4
<1>6. \A i \in 1 .. Len(u) : u[i] = v[i]
  <2> SUFFICES ASSUME NEW i \in 1 .. Len(u) PROVE u[i] = v[i]
    OBVIOUS
  <2> DEFINE k == Len(t) - Len(u) + i
  <2>1. k \in 1 .. Len(t)
    BY <1>4, <1>5
  <2>2. u[i] = t[k] /\ t[k] = seq[Len(seq) - Len(t) + k]
    <3> HIDE DEF k
    <3>1. t[k] = seq[Len(seq) - Len(t) + k]
      BY <1>1, <2>1
    <3> QED BY <1>3, <3>1 DEF k
  <2>3. Len(seq) - Len(t) + k = Len(seq) - Len(v) + i
    BY <1>4, <1>5
  <2>4. v[i] = seq[Len(seq) - Len(v) + i]
    BY <1>2, <1>5
  <2> HIDE DEF k
  <2> QED BY <2>2, <2>3, <2>4
<1>7. u = v
  BY <1>2, <1>3, <1>5, <1>6, SeqEqual
<1> QED BY <1>7 DEF t, u, v

\* Trimming the buffer to MaxSamples cannot be observed (controller.go:99-102):
\* whatever the samples, both estimators return what they would for all samples
\* since the last Reset.
THEOREM TrimmingNeverSeen == Spec => []TrimmingInvisible
<1>1. ASSUME TypeOK PROVE TrimmingInvisible
  <2>1. /\ MaxSamples \in Nat /\ Window \in Nat /\ MinSamplesForDeriv \in Nat
        /\ 2 <= Window /\ Window <= MaxSamples /\ MinSamplesForDeriv <= MaxSamples
    BY ControllerAssumption
  <2>2. history \in Seq(Sample) /\ samples = Last(history, MaxSamples)
    BY <1>1 DEF TypeOK
  <2>3. Last(samples, Window) = Last(history, Window)
    BY <2>1, <2>2, LastOfLast
  <2>4. Len(samples) = IF Len(history) <= MaxSamples THEN Len(history) ELSE MaxSamples
    BY <2>1, <2>2, LastKeeps
  <2>5. /\ Len(samples) < 2 <=> Len(history) < 2
        /\ Len(samples) < MinSamplesForDeriv <=> Len(history) < MinSamplesForDeriv
    <3>1. Len(history) \in Nat
      BY <2>2
    <3> QED BY <2>1, <2>4, <3>1
  <2>6. computeFirstDerivative(samples) = computeFirstDerivative(history)
    BY <2>3, <2>5 DEF computeFirstDerivative
  <2>7. computeSecondDerivative(samples) = computeSecondDerivative(history)
    BY <2>3 DEF computeSecondDerivative
  <2> QED BY <2>5, <2>6, <2>7 DEF TrimmingInvisible, Derivatives
<1> QED BY <1>1, TypeCorrect, PTL

\* The slope that the first estimator returns lies between the least and the
\* greatest slope of two neighbouring samples of the window, however many samples
\* it looks at and however they are spaced (controller.go:198-229).
THEOREM SlopeStaysWithinChords == Spec => []SlopeWithinChords
<1>1. ASSUME TypeOK PROVE SlopeWithinChords
  <2> DEFINE win == Last(samples, Window)
             n == Len(win)
             d == computeFirstDerivative(samples)
  <2> SUFFICES ASSUME Estimated(win)
               PROVE  /\ \E i \in 2 .. n : LessEq(Chord(win, i), d)
                      /\ \E i \in 2 .. n : LessEq(d, Chord(win, i))
    BY DEF SlopeWithinChords
  <2>1. samples \in Seq(Sample)
    BY <1>1 DEF TypeOK
  <2>2. n >= 2 /\ \A i \in 2 .. n : win[i].gap > 0
    BY DEF Estimated
  <2>3. n \in Nat /\ win \in [1 .. n -> Sample] /\ n <= Len(samples) /\ Len(samples) \in Nat
    BY <2>1, WindowOf
  <2>4. n \in Nat \ {0} /\ ~(Len(samples) < 2)
    <3> HIDE DEF win, n
    <3> QED BY <2>2, <2>3
  <2>5. d = LineSlope(win)
    BY <2>4, FirstDerivativeIs
  <2> HIDE DEF win, n, d
  <2>6. \A i \in 2 .. n : Chord(win, i).den > 0
    BY <2>2 DEF Chord
  <2> QED BY <2>2, <2>3, <2>4, <2>5, <2>6, SlopeBetweenChords
<1> QED BY <1>1, TypeCorrect, PTL

------------------------------------------------------------------------------
\* The decision in force was made from the samples in the buffer.
DecidedFromSamples ==
  samples # <<>> =>
    /\ currentPressure \in Pressures
    /\ \E opening \in Openings, demand \in Demands :
         lastAssessment = Assessment(currentPressure, Derivatives(samples)[1],
                                     Derivatives(samples)[2], opening, demand, 2 * demand)

LEMMA DecidedStep ==
  ASSUME DecidedFromSamples, [Next]_vars
  PROVE  DecidedFromSamples'
<1>1. ASSUME NEW pressure \in Pressures, NEW gap \in Gaps,
             NEW opening \in Openings, NEW demand \in Demands,
             Assess(pressure, gap, opening, demand, 2 * demand)
      PROVE  DecidedFromSamples'
  BY <1>1 DEF Assess, DecidedFromSamples
<1>2. CASE Reset
  BY <1>2 DEF Reset, DecidedFromSamples
<1>3. CASE UNCHANGED vars
  BY <1>3 DEF vars, DecidedFromSamples
<1> QED BY <1>1, <1>2, <1>3 DEF Next

LEMMA DecisionIsRecent == Spec => []DecidedFromSamples
<1>1. Init => DecidedFromSamples
  BY DEF Init, DecidedFromSamples
<1> QED BY <1>1, DecidedStep, PTL DEF Spec

\* A valve is throttled only while the pressure rises ever more slowly
\* (controller.go:150-162), whatever samples the estimators have seen.
THEOREM CriticalOnlyBeforeTurning == Spec => []CriticalOnlyWhenDecelerating
<1>1. ASSUME TypeOK, DecidedFromSamples PROVE CriticalOnlyWhenDecelerating
  <2> SUFFICES ASSUME samples # <<>>, lastAssessment.ThreatLevel = ThreatCritical
               PROVE  Derivatives(samples)[2].num < 0
    BY DEF CriticalOnlyWhenDecelerating
  <2>1. PICK opening \in Openings, demand \in Demands :
               lastAssessment = Assessment(currentPressure, Derivatives(samples)[1],
                                     Derivatives(samples)[2], opening, demand, 2 * demand)
    BY <1>1 DEF DecidedFromSamples
  <2>2. currentPressure \in Int /\ demand \in Int /\ 2 * demand \in Int
    <3>1. currentPressure \in Pressures
      BY <1>1 DEF DecidedFromSamples
    <3>2. Pressures \subseteq Nat
      BY ControllerAssumption
    <3> QED BY <3>1, <3>2, DemandTyped
  <2>3. samples \in Seq(Sample)
    BY <1>1 DEF TypeOK
  <2>4. Derivatives(samples)[1] \in Rate /\ Derivatives(samples)[2] \in Rate
    BY <2>3, DerivativesTyped
  <2> QED BY <2>1, <2>2, <2>4, CriticalDecelerates
<1> QED BY <1>1, TypeCorrect, DecisionIsRecent, PTL

------------------------------------------------------------------------------
\* All chords of a ramp have one slope.
LEMMA RampChords ==
  ASSUME NEW n \in Nat \ {0}, n >= 2, NEW win \in [1 .. n -> Sample], Collinear(win),
         \A i \in 2 .. n : win[i].gap > 0
  PROVE  \A i, j \in 2 .. n :
           Chord(win, i).num * Chord(win, j).den = Chord(win, j).num * Chord(win, i).den
<1> DEFINE r == Chord(win, 2).num
           g == Chord(win, 2).den
<1>1. \A i \in 2 .. n : Chord(win, i).num \in Int /\ Chord(win, i).den \in Nat \ {0}
  <2>1. \A i \in 2 .. n : /\ Chord(win, i).num \in Int /\ Chord(win, i).den \in Nat
                          /\ Chord(win, i).den = win[i].gap
    BY PointsOfWindow
  <2> QED BY <2>1
<1>2. r \in Int /\ g \in Nat \ {0}
  BY <1>1
<1>3. \A i \in 2 .. n : Chord(win, i).num * g = r * Chord(win, i).den
  <2> SUFFICES ASSUME NEW i \in 2 .. n PROVE Chord(win, i).num * g = r * Chord(win, i).den
    OBVIOUS
  <2> DEFINE p == Chord(win, i).num
             q == Chord(win, i).den
  <2>1. p \in Int /\ q \in Nat \ {0}
    BY <1>1
  <2>2. CASE i = 2
    BY <1>1, <2>2
  <2>3. CASE i # 2
    <3>1. i \in 3 .. Len(win)
      BY <2>3, PointsOfWindow
    <3>2. p * g <= r * q /\ r * q <= p * g
      BY <3>1 DEF Collinear, LessEq
    <3>3. p * g \in Int /\ r * q \in Int
      BY <1>2, <2>1
    <3> HIDE DEF p, q, r, g
    <3> QED BY <3>2, <3>3 DEF p, q
  <2> QED BY <2>2, <2>3
<1> SUFFICES ASSUME NEW i \in 2 .. n, NEW j \in 2 .. n
             PROVE  Chord(win, i).num * Chord(win, j).den = Chord(win, j).num * Chord(win, i).den
  OBVIOUS
<1> DEFINE p == Chord(win, i).num
           q == Chord(win, i).den
           s == Chord(win, j).num
           t == Chord(win, j).den
<1>4. p \in Int /\ q \in Nat \ {0} /\ s \in Int /\ t \in Nat \ {0}
  BY <1>1
<1>5. p * g = r * q /\ s * g = r * t
  BY <1>3
<1>6. p * t = s * q
  <2> HIDE DEF p, q, r, s, t, g
  <2>1. (p * t) * g = (p * g) * t /\ (s * q) * g = (s * g) * q
    BY <1>2, <1>4
  <2>2. (r * q) * t = (r * t) * q
    BY <1>2, <1>4
  <2>3. (p * t) * g = (s * q) * g
    BY ONLY <1>5, <2>1, <2>2
  <2>4. p * t \in Int /\ s * q \in Int
    BY <1>4
  <2>5. \A u, v \in Int : u * g = v * g => u = v
    BY <1>2
  <2> QED BY <2>3, <2>4, <2>5
<1> QED BY <1>6

\* On a ramp the first estimator returns its slope.
LEMMA RampSlope ==
  ASSUME NEW n \in Nat \ {0}, n >= 2, NEW win \in [1 .. n -> Sample], Collinear(win),
         \A i \in 2 .. n : win[i].gap > 0
  PROVE  LineSlope(win).num * Chord(win, n).den = Chord(win, n).num * LineSlope(win).den
<1> DEFINE a == Chord(win, n).num
           b == Chord(win, n).den
           d == LineSlope(win)
<1>1. \A i \in 2 .. n : /\ Chord(win, i).num \in Int /\ Chord(win, i).den \in Nat
                        /\ Chord(win, i).den > 0
  <2>1. \A i \in 2 .. n : /\ Chord(win, i).num \in Int /\ Chord(win, i).den \in Nat
                          /\ Chord(win, i).den = win[i].gap
    BY PointsOfWindow
  <2> QED BY <2>1
<1>2. n \in 2 .. n /\ a \in Int /\ b \in Int /\ -a \in Int /\ -b \in Int
  BY <1>1
<1>3. \A i \in 2 .. n : /\ b * Chord(win, i).num <= a * Chord(win, i).den
                        /\ (-b) * Chord(win, i).num <= (-a) * Chord(win, i).den
  <2> SUFFICES ASSUME NEW i \in 2 .. n
               PROVE  /\ b * Chord(win, i).num <= a * Chord(win, i).den
                      /\ (-b) * Chord(win, i).num <= (-a) * Chord(win, i).den
    OBVIOUS
  <2> DEFINE p == Chord(win, i).num
             q == Chord(win, i).den
  <2>1. p \in Int /\ q \in Int
    BY <1>1
  <2>2. p * b = a * q
    BY <1>2, RampChords
  <2>3. b * p <= a * q /\ (-b) * p <= (-a) * q
    <3> HIDE DEF p, q, a, b
    <3> QED BY <1>2, <2>1, <2>2
  <2> QED BY <2>3
<1>4. \A i \in 2 .. n : Chord(win, i).den > 0
  BY <1>1
<1>5. d \in Rate /\ b * d.num <= a * d.den
  <2> HIDE DEF a, b
  <2> QED BY ONLY <1>2, <1>3, <1>4, SlopeBelow, n \in Nat \ {0}, n >= 2, win \in [1 .. n -> Sample] DEF d
<1>6. (-b) * d.num <= (-a) * d.den
  <2> DEFINE a2 == -a
             b2 == -b
  <2> HIDE DEF a2, b2
  <2>1. a2 \in Int /\ b2 \in Int /\ \A i \in 2 .. n : b2 * Chord(win, i).num <= a2 * Chord(win, i).den
    BY <1>2, <1>3 DEF a2, b2
  <2>2. b2 * d.num <= a2 * d.den
    BY ONLY <1>4, <2>1, SlopeBelow, n \in Nat \ {0}, n >= 2, win \in [1 .. n -> Sample] DEF d
  <2> QED BY <2>2 DEF a2, b2
<1>7. d.num \in Int /\ d.den \in Int
  BY <1>5 DEF Rate
<1> DEFINE p == d.num
           q == d.den
<1>8. p * b = a * q
  <2> HIDE DEF p, q, a, b, d
  <2>1. p \in Int /\ q \in Int
    BY <1>7 DEF p, q
  <2>2. b * p <= a * q /\ (-b) * p <= (-a) * q
    BY <1>5, <1>6 DEF p, q
  <2> QED BY <1>2, <2>1, <2>2
<1> QED BY <1>8

\* And the second one returns zero.
LEMMA RampSecondDerivative ==
  ASSUME NEW seq \in Seq(Sample), Collinear(Last(seq, Window)),
         \A i \in 2 .. Len(Last(seq, Window)) : Last(seq, Window)[i].gap > 0
  PROVE  computeSecondDerivative(seq).num = 0
<1> DEFINE win == Last(seq, Window)
           n == Len(win)
           slopes == ChordSlopes(win)
           c == ScaledSlope(win, 2)
<1>1. CASE Len(win) < 3 \/ Len(slopes) < 2
  BY <1>1 DEF computeSecondDerivative, Zero
<1>2. CASE ~(Len(win) < 3 \/ Len(slopes) < 2)
  <2>1. n \in Nat /\ win \in [1 .. n -> Sample] /\ \A i \in 2 .. n : win[i].gap > 0
    BY WindowOf
  <2>2. Collinear(win)
    OBVIOUS
  <2>3. GapScale \in Nat \ {0}
    BY ControllerAssumption
  <2> HIDE DEF win, n
  <2>4. n \in Nat \ {0} /\ n >= 2 /\ 2 \in 2 .. n
    BY <1>2, <2>1 DEF n
  <2>5. \A i \in 2 .. n : win[i].gap # 0
    BY <2>1
  <2>6. \A i \in 2 .. n : \E m \in Nat \ {0} :
          /\ Chord(win, i).den * m = GapScale
          /\ ScaledSlope(win, i) = Chord(win, i).num * m
    <3> SUFFICES ASSUME NEW i \in 2 .. n
                 PROVE  \E m \in Nat \ {0} : /\ Chord(win, i).den * m = GapScale
                                             /\ ScaledSlope(win, i) = Chord(win, i).num * m
      OBVIOUS
    <3> QED BY ONLY <2>1, <2>5, ScaledSlopeTyped, i \in 2 .. n DEF Chord
  <2>7. \A i \in 2 .. n : Chord(win, i).num \in Int /\ Chord(win, i).den \in Nat \ {0}
    <3>1. \A i \in 2 .. n : /\ Chord(win, i).num \in Int /\ Chord(win, i).den \in Nat
                            /\ Chord(win, i).den = win[i].gap
      BY <2>1, <2>4, PointsOfWindow
    <3> QED BY <2>5, <3>1
  <2>8. c \in Int
    BY <2>1, <2>4, <2>5, ScaledSlopeTyped
  <2>9. \A i \in 2 .. n : ScaledSlope(win, i) = c
    <3> SUFFICES ASSUME NEW i \in 2 .. n PROVE ScaledSlope(win, i) = c
      OBVIOUS
    <3> DEFINE p == Chord(win, i).num
               q == Chord(win, i).den
               r == Chord(win, 2).num
               g == Chord(win, 2).den
    <3>1. p \in Int /\ q \in Nat \ {0} /\ r \in Int /\ g \in Nat \ {0}
      BY <2>4, <2>7
    <3>2. PICK k \in Nat \ {0} : q * k = GapScale /\ ScaledSlope(win, i) = p * k
      BY <2>6
    <3>3. PICK l \in Nat \ {0} : g * l = GapScale /\ c = r * l
      BY <2>4, <2>6
    <3>4. p * g = r * q
      BY ONLY <2>1, <2>2, <2>4, RampChords, i \in 2 .. n
    <3> HIDE DEF p, q, r, g, c
    <3>5. (p * k) * (g * l) = (p * g) * (k * l) /\ (r * l) * (q * k) = (r * q) * (k * l)
      BY <3>1
    <3>6. (p * k) * GapScale = (r * l) * GapScale
      BY ONLY <3>2, <3>3, <3>4, <3>5
    <3>7. p * k \in Int /\ r * l \in Int
      BY <3>1
    <3>8. \A u, v \in Int : u * GapScale = v * GapScale => u = v
      BY <2>3
    <3>9. p * k = r * l
      BY <3>6, <3>7, <3>8
    <3> QED BY <3>2, <3>3, <3>9
  <2>10. slopes \in Seq({c})
    <3>1. \A i \in 2 .. n : win[i].gap # 0 => ScaledSlope(win, i) \in {c}
      BY <2>9
    <3> HIDE DEF c
    <3> QED BY <2>1, <2>4, <3>1, SlopesWithin
  <2>11. LeastSquares([i \in 1 .. Len(slopes) |-> i - 1], slopes, GapScale).num = 0
    <3> HIDE DEF c, slopes
    <3> QED BY <2>8, <2>10, LevelLine
  <2> QED BY <1>2, <2>11 DEF computeSecondDerivative, win
<1> QED BY <1>1, <1>2

\* On a ramp both estimators are exact, and so is the decision
\* (controller.go:151-156, 198-229, 231-267, 303-312): below the limit the valve is
\* locked down just when the ramp is a surge that reaches the limit within the
\* horizon, and it is never merely throttled, for every ramp and every spacing of
\* the samples.
THEOREM RampsDecidedExactly == Spec => []RampDecidedExactly
<1>1. ASSUME TypeOK, DecidedFromSamples PROVE RampDecidedExactly
  <2> DEFINE win == Last(samples, Window)
             n == Len(win)
             last == Chord(win, n)
             d1 == Derivatives(samples)[1]
             d2 == Derivatives(samples)[2]
  <2> SUFFICES ASSUME Estimated(win), AssessedBelowLimit, Collinear(win)
               PROVE  /\ lastAssessment.LockdownRequired <=>
                           /\ last.num > SurgeThreshold * last.den
                           /\ last.num * PredictionHorizon >=
                                last.den * (SafetyPressureLimit - currentPressure)
                      /\ lastAssessment.ThreatLevel # ThreatCritical
    BY DEF RampDecidedExactly
  <2>1. samples \in Seq(Sample)
    BY <1>1 DEF TypeOK
  <2>2. /\ ~(Len(samples) < MinSamplesForDeriv) /\ n >= 2 /\ \A i \in 2 .. n : win[i].gap > 0
    <3>1. Len(samples) \in Nat /\ MinSamplesForDeriv \in Nat
      BY <2>1, ControllerAssumption
    <3> QED BY <3>1 DEF Estimated
  <2>3. n \in Nat /\ win \in [1 .. n -> Sample] /\ n <= Len(samples) /\ Len(samples) \in Nat
    BY <2>1, WindowOf
  <2>4. n \in Nat \ {0} /\ ~(Len(samples) < 2)
    <3> HIDE DEF win, n
    <3> QED BY <2>2, <2>3
  <2>5. d1 = LineSlope(win) /\ d2 = computeSecondDerivative(samples)
    BY <2>2, <2>4, FirstDerivativeIs DEF Derivatives
  <2>6. d2.num = 0
    BY <2>1, <2>2, <2>5, RampSecondDerivative
  <2>7. d1 \in Rate /\ d2 \in Rate
    BY <2>1, DerivativesTyped
  <2>8. PICK opening \in Openings, demand \in Demands :
               lastAssessment = Assessment(currentPressure, d1, d2, opening, demand, 2 * demand)
    BY <1>1 DEF DecidedFromSamples, AssessedBelowLimit
  <2>9. currentPressure \in Int /\ demand \in Int /\ 2 * demand \in Int
    <3>1. currentPressure \in Pressures /\ Pressures \subseteq Nat
      BY <1>1, ControllerAssumption DEF DecidedFromSamples, AssessedBelowLimit
    <3> QED BY <3>1, DemandTyped
  <2>10. last.num \in Int /\ last.den \in Nat \ {0}
    <3> HIDE DEF win, n
    <3>1. n \in 2 .. n
      BY <2>2, <2>3
    <3>2. last.num \in Int /\ last.den \in Nat /\ last.den = win[n].gap
      BY <2>3, <2>4, <3>1, PointsOfWindow
    <3> QED BY <2>2, <3>1, <3>2
  <2>11. d1.num * last.den = last.num * d1.den
    <3> HIDE DEF win, n
    <3> QED BY <2>2, <2>3, <2>4, <2>5, RampSlope
  <2> DEFINE L == SafetyPressureLimit - currentPressure
             H == PredictionHorizon
             S == SurgeThreshold
  <2>12. /\ lastAssessment.LockdownRequired <=>
              Exceeds(d1, S) /\ d1.num * H >= d1.den * L
         /\ lastAssessment.ThreatLevel # ThreatCritical
    <3>1. currentPressure < SafetyPressureLimit
      BY DEF AssessedBelowLimit
    <3> HIDE DEF d1, d2
    <3> QED BY <2>6, <2>7, <2>8, <2>9, <3>1, LinearTrendDecidedExactly
  <2>13. L \in Int /\ H \in Int /\ S \in Int
    BY <2>9, ThresholdsAssumption
  <2>14. /\ d1.num > S * d1.den <=> last.num > S * last.den
         /\ d1.num * H >= d1.den * L <=> last.num * H >= last.den * L
    <3> DEFINE p == d1.num
               q == d1.den
               r == last.num
               g == last.den
    <3>1. p \in Int /\ q \in Nat \ {0} /\ r \in Int /\ g \in Nat \ {0} /\ p * g = r * q
      BY <2>7, <2>10, <2>11 DEF Rate
    <3> HIDE DEF p, q, r, g, L, H, S
    <3>2. (p * H) * g = (r * H) * q /\ (q * L) * g = (g * L) * q /\ (S * q) * g = (S * g) * q
      <4>1. (p * H) * g = (p * g) * H /\ (r * q) * H = (r * H) * q
        BY <2>13, <3>1
      <4>2. (q * L) * g = (g * L) * q /\ (S * q) * g = (S * g) * q
        BY <2>13, <3>1
      <4> QED BY ONLY <3>1, <4>1, <4>2
    <3>3. \A u, v \in Int : /\ u >= v <=> u * g >= v * g
                            /\ u > v <=> u * g > v * g
                            /\ u >= v <=> u * q >= v * q
                            /\ u > v <=> u * q > v * q
      BY <3>1
    <3>4. /\ p * H \in Int /\ q * L \in Int /\ r * H \in Int /\ g * L \in Int
          /\ S * q \in Int /\ S * g \in Int
      BY <2>13, <3>1
    <3>5. p * H >= q * L <=> r * H >= g * L
      BY ONLY <3>2, <3>3, <3>4, Zenon
    <3>6. p > S * q <=> r > S * g
      BY ONLY <3>1, <3>2, <3>3, <3>4, Zenon
    <3> QED BY <3>5, <3>6 DEF p, q, r, g
  <2> QED BY <2>12, <2>14 DEF Exceeds
<1> QED BY <1>1, TypeCorrect, DecisionIsRecent, PTL

------------------------------------------------------------------------------
Stamped == [stamp : Nat, pressure : Pressures]

BacklogIInv ==
  /\ TypeOK /\ DecidedFromSamples
  /\ now \in 0 .. MaxTime /\ assessedAt \in 0 .. now
  /\ decoded \in Seq(Stamped) /\ hydroFrameChan \in Seq(Stamped)
  /\ stamps \in Seq(Nat) /\ Len(stamps) = Len(samples)

\* A frame that is taken out of turn leaves the others.
LEMMA RemoveAtTyped ==
  ASSUME NEW S, NEW seq \in Seq(S), NEW i \in DOMAIN seq
  PROVE  Seqs!RemoveAt(seq, i) \in Seq(S)
<1>1. i \in 1 .. Len(seq) /\ Len(seq) \in Nat
  OBVIOUS
<1>2. SubSeq(seq, 1, i - 1) \in Seq(S) /\ SubSeq(seq, i + 1, Len(seq)) \in Seq(S)
  BY <1>1
<1> QED BY <1>2 DEF Seqs!RemoveAt

LEMMA ControllerStepKeeps ==
  ASSUME TypeOK, DecidedFromSamples, [Next]_vars
  PROVE  TypeOK' /\ DecidedFromSamples'
BY TypeOKStep, DecidedStep

LEMMA BacklogInvariant == BacklogSpec => []BacklogIInv
<1>1. BacklogInit => BacklogIInv
  <2> SUFFICES ASSUME BacklogInit PROVE BacklogIInv
    OBVIOUS
  <2>1. Init
    BY DEF BacklogInit
  <2>2. TypeOK /\ DecidedFromSamples
    BY <2>1, TypeOKInit DEF Init, DecidedFromSamples
  <2>3. Len(stamps) = Len(samples)
    BY <2>1 DEF BacklogInit, Init
  <2> QED BY <2>2, <2>3, BacklogAssumption DEF BacklogInit, BacklogIInv
<1>2. BacklogIInv /\ [BacklogNext]_backlogVars => BacklogIInv'
  <2> SUFFICES ASSUME BacklogIInv, [BacklogNext]_backlogVars PROVE BacklogIInv'
    OBVIOUS
  <2> USE DEF BacklogIInv
  <2>1. CASE UNCHANGED vars /\ UNCHANGED stamps
    <3>1. TypeOK' /\ DecidedFromSamples'
      BY <2>1, ControllerStepKeeps
    <3>2. /\ stamps' \in Seq(Nat) /\ Len(stamps') = Len(samples')
      BY <2>1 DEF vars
    <3>3. CASE Tick
      <4>1. now' \in 0 .. MaxTime /\ assessedAt' \in 0 .. now'
        BY <3>3, BacklogAssumption DEF Tick
      <4> QED BY <3>1, <3>2, <3>3, <4>1 DEF Tick
    <3>4. ASSUME NEW p \in Pressures, Decode(p) PROVE BacklogIInv'
      <4>1. [stamp |-> now, pressure |-> p] \in Stamped
        BY DEF Stamped
      <4> QED BY <3>1, <3>2, <3>4, <4>1 DEF Decode
    <3>5. ASSUME NEW i \in 1 .. SolverWorkers, Solve(i) PROVE BacklogIInv'
      <4>1. i \in DOMAIN decoded /\ decoded[i] \in Stamped
        BY <3>5 DEF Solve
      <4>2. decoded' \in Seq(Stamped)
        BY <3>5, <4>1, RemoveAtTyped DEF Solve
      <4>3. hydroFrameChan' \in Seq(Stamped)
        BY <3>5, <4>1 DEF Solve
      <4> QED BY <3>1, <3>2, <3>5, <4>2, <4>3 DEF Solve
    <3>6. CASE AssessNext
      <4>1. totalAssess' # totalAssess
        <5>1. totalAssess' = totalAssess + 1 /\ totalAssess \in Nat
          BY <3>6, ControllerAssumption DEF AssessNext, Assess, TypeOK
        <5> QED BY <5>1
      <4> QED BY <2>1, <4>1 DEF vars
    <3>7. CASE UNCHANGED backlogVars
      BY <3>1, <3>2, <3>7 DEF backlogVars
    <3> QED BY <3>3, <3>4, <3>5, <3>6, <3>7 DEF BacklogNext
  <2>2. CASE AssessNext
    <3> DEFINE f == Head(hydroFrameChan)
    <3>1. f \in Stamped /\ Tail(hydroFrameChan) \in Seq(Stamped)
      BY <2>2 DEF AssessNext
    <3>2. now - assessedAt \in Gaps
      <4>1. now - assessedAt \in 0 .. MaxTime
        BY BacklogAssumption
      <4> QED BY <4>1, BacklogAssumption
    <3>3. PICK opening \in Openings, demand \in Demands :
                 Assess(f.pressure, now - assessedAt, opening, demand, 2 * demand)
      BY <2>2 DEF AssessNext
    <3>4. f.pressure \in Pressures /\ f.stamp \in Nat
      BY <3>1 DEF Stamped
    <3>5. Next
      BY <3>2, <3>3, <3>4 DEF Next
    <3>6. TypeOK' /\ DecidedFromSamples'
      BY <3>5, ControllerStepKeeps
    <3>7. MaxSamples \in Nat
      BY ControllerAssumption
    <3> DEFINE more == Append(stamps, f.stamp)
               seen == Append(samples, [gap |-> now - assessedAt, pressure |-> f.pressure])
    <3>8. more \in Seq(Nat) /\ seen \in Seq(Sample) /\ Len(more) = Len(seen)
      <4>1. [gap |-> now - assessedAt, pressure |-> f.pressure] \in Sample
        BY <3>2, <3>4 DEF Sample
      <4> QED BY <3>4, <4>1 DEF TypeOK
    <3>9. stamps' = Last(more, MaxSamples) /\ samples' = Last(seen, MaxSamples)
      BY <2>2, <3>3 DEF AssessNext, Assess
    <3> HIDE DEF f, more, seen
    <3>10. stamps' \in Seq(Nat) /\ Len(stamps') = Len(samples')
      BY <3>7, <3>8, <3>9, LastKeeps
    <3>11. /\ now' = now /\ assessedAt' = now /\ decoded' = decoded
           /\ hydroFrameChan' = Tail(hydroFrameChan)
      BY <2>2 DEF AssessNext
    <3> QED BY <3>1, <3>6, <3>10, <3>11
  <2>3. Tick \/ (\E p \in Pressures : Decode(p)) \/ (\E i \in 1 .. SolverWorkers : Solve(i))
          \/ UNCHANGED backlogVars => UNCHANGED vars /\ UNCHANGED stamps
    BY DEF Tick, Decode, Solve, backlogVars
  <2> QED BY <2>1, <2>2, <2>3 DEF BacklogNext
<1> QED BY <1>1, <1>2, PTL DEF BacklogSpec

\* What detectNonlinearSurge takes for a surge is steeper than 0.3 of its threshold.
LEMMA SurgeIsSteep ==
  ASSUME NEW d1 \in Rate, NEW d2 \in Rate, detectNonlinearSurge(d1, d2)
  PROVE  d1 # Zero /\ 10 * d1.num > 3 * SurgeThreshold * d1.den
<1> DEFINE p == d1.num
           q == d1.den
           S == SurgeThreshold
<1>1. p \in Int /\ q \in Nat \ {0} /\ S \in Nat \ {0} /\ p > 0
  BY ThresholdsAssumption DEF Rate, detectNonlinearSurge, Positive
<1>2. p > S * q \/ 10 * p > 3 * S * q
  BY DEF detectNonlinearSurge, Exceeds
<1>3. S * q \in Nat /\ 3 * S * q = 3 * (S * q)
  BY <1>1
<1>4. 10 * p > 3 * S * q
  <2> DEFINE m == S * q
  <2>1. m \in Nat /\ 3 * S * q = 3 * m /\ (p > m \/ 10 * p > 3 * m)
    BY <1>2, <1>3
  <2> HIDE DEF m, p
  <2> QED BY <1>1, <2>1
<1> QED BY <1>1, <1>4 DEF Zero

\* A valve that is shut below the limit is shut for a reason, however long the
\* frames have waited and in whatever order they come (controller.go:85-131,
\* 198-229; pipeline.go).
THEOREM LockdownsHaveCause == BacklogSpec => []LockdownHasCause
<1>1. ASSUME BacklogIInv PROVE LockdownHasCause
  <2> DEFINE win == Last(samples, Window)
             taken == Last(stamps, Window)
             n == Len(win)
             d1 == Derivatives(samples)[1]
             d2 == Derivatives(samples)[2]
             a == 3 * SurgeThreshold
  <2> SUFFICES ASSUME AssessedBelowLimit, lastAssessment.LockdownRequired,
                      \A i \in 2 .. n :
                        LET apart == taken[i] - taken[i - 1]
                        IN  /\ ~(apart >= 0 /\ Steep(win[i].pressure - win[i - 1].pressure, apart))
                            /\ ~(apart < 0)
                            /\ ~(win[i].gap < apart)
               PROVE  FALSE
    BY DEF LockdownHasCause
  <2>1. samples \in Seq(Sample) /\ stamps \in Seq(Nat) /\ Len(stamps) = Len(samples)
        /\ Window \in Nat /\ DecidedFromSamples
    BY <1>1, ControllerAssumption DEF BacklogIInv, TypeOK
  <2>2. PICK opening \in Openings, demand \in Demands :
               lastAssessment = Assessment(currentPressure, d1, d2, opening, demand, 2 * demand)
    BY <2>1 DEF DecidedFromSamples, AssessedBelowLimit
  <2>3. ~(currentPressure >= SafetyPressureLimit)
    <3>1. currentPressure \in Pressures /\ Pressures \subseteq Nat /\ SafetyPressureLimit \in Nat
      BY <2>1, ControllerAssumption, ThresholdsAssumption DEF DecidedFromSamples, AssessedBelowLimit
    <3> QED BY <3>1 DEF AssessedBelowLimit
  <2>4. detectNonlinearSurge(d1, d2)
    BY <2>2, <2>3 DEF Assessment, Imminent, Critical, Elevated, Normal
  <2>5. d1 \in Rate /\ d2 \in Rate
    BY <2>1, DerivativesTyped
  <2>6. d1 # Zero /\ 10 * d1.num > a * d1.den
    BY <2>4, <2>5, SurgeIsSteep
  <2>7. d1 = LineSlope(win) /\ ~(Len(samples) < 2)
    <3>1. ~(Len(samples) < MinSamplesForDeriv)
      BY <2>6 DEF Derivatives
    <3>2. d1 = computeFirstDerivative(samples)
      BY <3>1 DEF Derivatives
    <3>3. ~(Len(samples) < 2)
      BY <2>6, <3>2 DEF computeFirstDerivative
    <3> QED BY <3>2, <3>3, FirstDerivativeIs
  <2>8. n \in Nat \ {0} /\ n >= 2 /\ win \in [1 .. n -> Sample]
    <3>1. Len(samples) >= 2
      BY <2>1, <2>7
    <3> QED BY <2>1, <3>1, WindowOf
  <2>9. Len(taken) = n /\ taken \in Seq(Nat)
    BY <2>1, LastKeeps
  <2>10. a \in Int /\ 10 \in Int /\ SurgeThreshold \in Nat
    BY ThresholdsAssumption
  <2>11. \A i \in 2 .. n : 10 * Chord(win, i).num <= a * Chord(win, i).den
    <3> SUFFICES ASSUME NEW i \in 2 .. n PROVE 10 * Chord(win, i).num <= a * Chord(win, i).den
      OBVIOUS
    <3> DEFINE apart == taken[i] - taken[i - 1]
               r == Chord(win, i).num
               g == Chord(win, i).den
    <3>1. r \in Int /\ g \in Nat /\ g = win[i].gap
      <4> HIDE DEF win, n
      <4> QED BY <2>8, PointsOfWindow
    <3>2. taken[i] \in Nat /\ taken[i - 1] \in Nat
      <4> HIDE DEF win, taken, n
      <4> QED BY <2>8, <2>9
    <3>3. apart \in Int /\ ~(apart < 0) /\ ~(g < apart)
      BY <3>1, <3>2
    <3>4. ~(10 * r > 3 * SurgeThreshold * apart)
      <4>1. ~Steep(win[i].pressure - win[i - 1].pressure, apart)
        BY <3>3
      <4> QED BY <4>1 DEF Steep, Chord
    <3> HIDE DEF apart, r, g
    <3>5. a * apart <= a * g
      <4>1. \A s \in Nat : \A u, v \in Int : u <= v => s * u <= s * v
        OBVIOUS
      <4>2. a \in Nat /\ apart <= g
        BY <2>10, <3>1, <3>3
      <4>3. g \in Int
        BY <3>1
      <4> HIDE DEF a
      <4> QED BY ONLY <3>3, <4>1, <4>2, <4>3, Zenon
    <3>6. a * apart \in Int /\ a * g \in Int
      BY <2>10, <3>1, <3>3
    <3> HIDE DEF a
    <3> QED BY <3>1, <3>4, <3>5, <3>6 DEF r, g, a
  <2>12. 10 * d1.num <= a * d1.den
    <3> HIDE DEF win, n, a, d1
    <3>1. LineSlope(win) = Zero \/ 10 * LineSlope(win).num <= a * LineSlope(win).den
      BY ONLY <2>8, <2>10, <2>11, SlopeBelow
    <3> QED BY <2>6, <2>7, <3>1
  <2>13. 10 * d1.num \in Int /\ a * d1.den \in Int
    BY <2>5, <2>10 DEF Rate
  <2> QED BY <2>6, <2>12, <2>13
<1> QED BY <1>1, BacklogInvariant, PTL
=============================================================================
