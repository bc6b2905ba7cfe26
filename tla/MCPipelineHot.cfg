SPECIFICATION Spec
CONSTANTS
  d1 = d1
  s1 = s1
  Decoders = {d1}
  Solvers = {s1}
  SolverLoop = SolverLoop
  ErrorHandler = ErrorHandler
  Nothing = Nothing
  Kinds = {"calm", "hot"}
  RawBufferSize = 1
  ChannelSize = 1
  ErrorBufferSize = 1
  MaxRaw = 2
INVARIANT HotFramesAssessed
CHECK_DEADLOCK FALSE
