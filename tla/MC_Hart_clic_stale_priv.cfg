\* The U/M CLIC hart of the modes run with the nmi net driven: an NMI
\* switches to M between the selection of a U-mode CLIC interrupt and the
\* fetch gate taking it.
CONSTANTS
  Ints = {16, 17}
  Implemented = {0, 3}
  HasN = TRUE
  MIDELEG = {}
  SIDELEG = {}
  MEDELEG = {}
  SEDELEG = {}
  XretPreservesLR = FALSE
  DebugKind = "NONE"
  EbreakDM = {}
  NMIConnected = TRUE
  DeferintConnected = FALSE
  ResetConnected = FALSE
  Wrap = TRUE
  BasicPresent = FALSE
  ClicPresent = TRUE
  Thresh <- NoThresh
  UseCLIC = {0, 3}
  CLICCFGMBITS = 1
  CLICINTCTLBITS = 0
  CLICSELHVEC = FALSE
  VectorFaults = {FALSE}
  CtlWrites = {}
  NmWrites = {0, 1}
  NlWrites = {0}
  TrigWrites = {0}
  ModeWrites = {0, 3}
SPECIFICATION Spec
VIEW ClicOnlyView
PROPERTY TrapNeverLowersPrivilege
