SPECIFICATION Spec
CONSTANTS
  Node = {m1, m2}
  head = head
  Wild = Wild
  Client <- TurnClient
  TLS = {"s"}
  Script <- TurnScript
  NOFILE = 9
  FD_SETSIZE = 9
  Hasty = {"s"}
  Slow = {"s"}
  Faults = {"alloc", "cgi", "handshake"}
INVARIANT IInv
PROPERTIES RoundRobinSpec EveryRequestAnswered NumbersComeBack
