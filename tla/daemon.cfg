SPECIFICATION Spec
CONSTANTS
  Inst <- MCInst
  none = none
  Digits <- MCDigits
  OldFile <- MCOldFile
  MaxLog = 2
  Faults = {"fork", "open", "log_init", "ssl_init"}
INVARIANTS TypeOK OneServer PidOfServer LogOfServer Detached
PROPERTIES OneOfThemServes
CHECK_DEADLOCK FALSE
