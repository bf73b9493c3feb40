\* One hart with an S-mode and an M-mode interrupt, U/S/M, Debug mode by
\* vectoring; reset and resethaltreq driven; NMI and deferint not driven.
CONSTANTS
  Ints = {1, 7}
  MIDELEG = {1}
  SIDELEG = {}
  MEDELEG = {2, 8}
  SEDELEG = {2}
  Implemented = {0, 1, 3}
  HasN = FALSE
  XretPreservesLR = FALSE
  DebugKind = "VECTOR"
  EbreakDM = {0}
  NMIConnected = FALSE
  DeferintConnected = FALSE
  ResetConnected = TRUE
  Wrap = TRUE
  BasicPresent = TRUE
  ClicPresent = FALSE
  UseCLIC = {}
  CLICCFGMBITS = 0
  CLICINTCTLBITS = 8
  CLICSELHVEC = FALSE
  Thresh <- NoThresh
  VectorFaults = {FALSE}
  CtlWrites = {}
  NmWrites = {}
  NlWrites = {}
  TrigWrites = {}
  ModeWrites = {}
SPECIFICATION Spec
VIEW NoExceptionView
INVARIANT TypeOK DeliveredInterruptIsArchWinner PendEnabFresh WFINoLostWakeup
PROPERTY TrapNeverLowersPrivilege DebugModeTransparent
