SPECIFICATION Spec
CONSTANTS
  BUFSIZE = 6
  Line <- MCLine
  Method <- MCMethod
  Target <- MCTarget
  PieceLen <- MCPieceLen
  FileSize <- MCFileSize
  CgiSize = 5
  Scripts <- ReapScripts
  Pipelining = TRUE
  Transports = {TRUE, FALSE}
  Faults = {"hangup", "signal"}
  Garbage = {0}
  SNDBUF = 6
  RCVBUF = 2
PROPERTY HungUpReaped
