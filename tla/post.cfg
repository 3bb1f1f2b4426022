SPECIFICATION Spec
CONSTANTS
  BUFSIZE = 4
  Line <- MCLine
  Method <- MCMethod
  Target <- MCTarget
  PieceLen <- MCPieceLen
  FileSize <- MCFileSize
  CgiSize = 5
  Scripts <- PostScripts
  Pipelining = FALSE
  Transports = {FALSE}
  Faults = {}
  Garbage = {0}
  SNDBUF = 6
  RCVBUF = 2
PROPERTY EveryRequestAnswered
