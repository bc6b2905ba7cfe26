SPECIFICATION FairSpec
CONSTANTS
  c1 = c1
  p1 = p1
  SendLoop = SendLoop
  NoPacket = NoPacket
  Callers = {c1}
  Packets = {p1}
  RetryCount = 1
  MaxOverrideQueueSize = 2
  MaxResults = 1
  MaxInFlight = 1
  CounterModulus = 2
INVARIANTS
  TypeOK
  EveryCallCounted
PROPERTIES
  SenderKeepsPromise
  OnlyRacingSendPanics
  QueueServed
CHECK_DEADLOCK FALSE
