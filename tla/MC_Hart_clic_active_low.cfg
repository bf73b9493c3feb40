\* The M-mode CLIC hart of the levels run with level-triggered interrupts
\* that may be made active-low (clicintattr.trig = 2).
CONSTANTS
  Ints = {16, 17}
  Implemented = {3}
  HasN = FALSE
  MIDELEG = {}
  SIDELEG = {}
  MEDELEG = {}
  SEDELEG = {}
  XretPreservesLR = FALSE
  DebugKind = "NONE"
  EbreakDM = {}
  NMIConnected = FALSE
  DeferintConnected = FALSE
  ResetConnected = FALSE
  Wrap = TRUE
  BasicPresent = FALSE
  ClicPresent = TRUE
  Thresh <- NoThresh
  UseCLIC = {3}
  CLICCFGMBITS = 0
  CLICINTCTLBITS = 1
  CLICSELHVEC = TRUE
  VectorFaults = {FALSE}
  CtlWrites = {0, 128}
  NmWrites = {0}
  NlWrites = {0, 8}
  TrigWrites = {0, 2}
  ModeWrites = {3}
SPECIFICATION Spec
PROPERTY ClicLevelInputFollowsLine
