\* One hart with an S-mode and an M-mode interrupt, U/S/M, no Debug mode,
\* nmi driven (deferint not): is the interrupt the fetch gate takes still enabled?
CONSTANTS
  Ints = {1, 7}
  MIDELEG = {1}
  SIDELEG = {}
  MEDELEG = {}
  SEDELEG = {}
  Implemented = {0, 1, 3}
  HasN = FALSE
  XretPreservesLR = FALSE
  DebugKind = "NONE"
  EbreakDM = {}
  NMIConnected = TRUE
  DeferintConnected = FALSE
  ResetConnected = FALSE
  Wrap = TRUE
  BasicPresent = TRUE
  ClicPresent = FALSE
  UseCLIC = {}
  CLICCFGMBITS = 0
  CLICINTCTLBITS = 8
  CLICSELHVEC = FALSE
  Thresh <- NoThresh
  VectorFaults = {FALSE}
  CtlWrites = {}
  NmWrites = {}
  NlWrites = {}
  TrigWrites = {}
  ModeWrites = {}
SPECIFICATION Spec
VIEW NoExceptionView
INVARIANT DeliveredInterruptIsArchWinner
