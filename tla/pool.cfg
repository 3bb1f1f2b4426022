SPECIFICATION Spec
CONSTANTS
  Node = {m1, m2, m3}
  head = head
  Wild = Wild
  Client <- PoolClient
  TLS = {"s"}
  Script <- PoolScript
  NOFILE = 9
  FD_SETSIZE = 9
  Hasty = {"f"}
  Slow = {}
  Faults = {}
SYMMETRY Nodes
INVARIANTS TypeOK ListIsRing OwnSocket SelectValid NothingLost RecvReturns StayingKept PoolIsComplete
