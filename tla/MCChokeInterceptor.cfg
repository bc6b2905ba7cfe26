SPECIFICATION FairSpec
CONSTANTS
  Interceptor = Interceptor
  SendLoop = SendLoop
  NoPacket = NoPacket
  Throttles <- MCThrottles
  InitialOpening = 1000
  MaxOutput = 1
  RetryCount = 1
  MaxInFlight = 2
  MaxFaults = 2
INVARIANTS
  TypeOK
  SentMeansInForce
PROPERTIES
  LockdownHolds
  PersistentThreatShutsValve
  StopEndsLoop
CHECK_DEADLOCK FALSE
