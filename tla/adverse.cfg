SPECIFICATION Spec
CONSTANTS
  BUFSIZE = 3
  Line <- MCLine
  Method <- MCMethod
  Target <- MCTarget
  PieceLen <- MCPieceLen
  FileSize <- MCFileSize
  CgiSize = 4
  Scripts <- AnyScripts
  Pipelining = TRUE
  Transports = {FALSE}
  Faults = {"alloc", "cgi", "signal", "hangup"}
  Garbage = {0, 2}
  SNDBUF = 3
  RCVBUF = 1
INVARIANTS TypeOK NeverSelectClosed FinishedHasBytes RequestHeld BodyHasFile IInv
PROPERTIES CodeIsSettled
