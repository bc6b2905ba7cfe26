SPECIFICATION FairSpec
CONSTANTS
  k1 = k1
  k2 = k2
  k3 = k3
  k4 = k4
  a1 = a1
  a2 = a2
  a3 = a3
  Conns = {k1, k2}
  Addrs = {a1, a2}
  Accepter = Accepter
  Stopper = Stopper
  None = None
  MaxConnections = 1
  AcceptBackoffThreshold = 1
INVARIANTS
  TypeOK
  LimitKept
  StopLeavesNoReader
  PanicNeedsTimeout
PROPERTIES
  AllClosedAfterStop
  AcceptingGoesOn
CHECK_DEADLOCK FALSE
