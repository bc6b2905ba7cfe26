SPECIFICATION BacklogSpec
CONSTANTS
  SafetyPressureLimit = 35
  WarningPercent = 85
  PredictionHorizon = 1
  TicksPerSecond = 10
  MaxDerivative = 10
  SurgeThreshold = 5
  MinSamplesForDeriv = 3
  Window = 3
  MaxSamples = 3
  Pressures <- MCPressures
  Gaps <- MCGaps
  Demands = {0}
  Openings = {1000}
  GapScale = 420
  MaxAssess = 3
  SolverWorkers = 2
  FrameBufferSize = 2
  MaxFrames = 3
  MaxTime = 7
INVARIANTS
  LockdownHasCause
CHECK_DEADLOCK FALSE
