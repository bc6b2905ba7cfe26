SPECIFICATION Spec
CONSTANTS
  k1 = k1
  k2 = k2
  k3 = k3
  k4 = k4
  a1 = a1
  a2 = a2
  a3 = a3
  Conns = {k1, k2, k3, k4}
  Addrs = {a1, a2, a3}
  Accepter = Accepter
  Stopper = Stopper
  None = None
  MaxConnections = 2
  AcceptBackoffThreshold = 0
INVARIANT
  ConnectionLimit
SYMMETRY Symmetry
CHECK_DEADLOCK FALSE
