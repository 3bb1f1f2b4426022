SPECIFICATION Spec
CONSTANTS
  BUFSIZE = 4
  Line <- MCLine
  Method <- MCMethod
  Target <- MCTarget
  PieceLen <- MCPieceLen
  FileSize <- MCFileSize
  CgiSize = 5
  Scripts <- FileScripts
  Pipelining = FALSE
  Transports = {TRUE, FALSE}
  Faults = {"hangup"}
  Garbage = {0}
  SNDBUF = 6
  RCVBUF = 2
INVARIANTS StreamOwed StreamInv
PROPERTIES ServiceSpec
