SPECIFICATION FairSpec
CONSTANTS
  d1 = d1
  s1 = s1
  Decoders = {d1}
  Solvers = {s1}
  SolverLoop = SolverLoop
  ErrorHandler = ErrorHandler
  Nothing = Nothing
  Kinds = {"garbled", "cold", "calm"}
  RawBufferSize = 1
  ChannelSize = 1
  ErrorBufferSize = 1
  MaxRaw = 2
INVARIANTS
  TypeOK
  NothingLostSilently
  OnePlaceEach
PROPERTIES
  EverythingWorkedOff
  StopEndsWorkers
CHECK_DEADLOCK FALSE
