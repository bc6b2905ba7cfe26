SPECIFICATION Spec
CONSTANTS
  SafetyPressureLimit = 35
  WarningPercent = 85
  PredictionHorizon = 5
  TicksPerSecond = 50
  MaxDerivative = 2
  SurgeThreshold = 1
  MinSamplesForDeriv = 3
  Window = 3
  MaxSamples = 3
  Pressures <- MCPressures
  Gaps <- MCGaps
  Demands <- MCDemands
  Openings <- MCOpenings
  GapScale = 2
  MaxAssess = 4
INVARIANTS
  TypeOK
  SlopeWithinChords
  TrimmingInvisible
  CriticalOnlyWhenDecelerating
  RampDecidedExactly
  OverrideNeedsSamples
PROPERTIES
  PromiseKept
