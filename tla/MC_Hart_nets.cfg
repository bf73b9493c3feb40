\* One hart with a U-mode and an M-mode interrupt (N extension), U/M only,
\* Debug mode by halting, and the nmi, deferint and haltreq nets driven
\* (reset is exercised by the core run).
CONSTANTS
  Ints = {0, 7}
  MIDELEG = {0}
  SIDELEG = {0}
  MEDELEG = {2}
  SEDELEG = {2}
  Implemented = {0, 3}
  HasN = TRUE
  XretPreservesLR = TRUE
  DebugKind = "HALT"
  EbreakDM = {3}
  NMIConnected = TRUE
  DeferintConnected = TRUE
  ResetConnected = FALSE
  Wrap = TRUE
  BasicPresent = TRUE
  ClicPresent = FALSE
  UseCLIC = {}
  CLICCFGMBITS = 0
  CLICINTCTLBITS = 8
  CLICSELHVEC = FALSE
  Thresh <- NoThresh
  VectorFaults = {FALSE}
  CtlWrites = {}
  NmWrites = {}
  NlWrites = {}
  TrigWrites = {}
  ModeWrites = {}
SPECIFICATION Spec
VIEW NoExceptionView
INVARIANT WFINoLostWakeup
PROPERTY DebugModeTransparent InterruptEventuallyTaken HaltreqHonoured PrivStackRefined
