SPECIFICATION Spec
CONSTANTS
  Interceptor = Interceptor
  SendLoop = SendLoop
  NoPacket = NoPacket
  Throttles <- MCThrottles
  InitialOpening = 1000
  MaxOutput = 1
  RetryCount = 1
  MaxInFlight = 2
  MaxFaults = 2
INVARIANT
  ReportedOpeningIsValveOpening
CHECK_DEADLOCK FALSE
