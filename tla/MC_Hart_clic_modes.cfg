\* One U/M hart (N extension) with the CLIC alone, both modes in CLIC mode:
\* two interrupts, each targeting M or U (nmbits 1) at the single level 255
\* (nlbits 0), level-triggered, without SHV.
CONSTANTS
  Ints = {16, 17}
  Implemented = {0, 3}
  HasN = TRUE
  MIDELEG = {}
  SIDELEG = {}
  MEDELEG = {}
  SEDELEG = {}
  XretPreservesLR = FALSE
  DebugKind = "NONE"
  EbreakDM = {}
  NMIConnected = FALSE
  DeferintConnected = FALSE
  ResetConnected = FALSE
  Wrap = TRUE
  BasicPresent = FALSE
  ClicPresent = TRUE
  Thresh <- NoThresh
  UseCLIC = {0, 3}
  CLICCFGMBITS = 1
  CLICINTCTLBITS = 0
  CLICSELHVEC = FALSE
  VectorFaults = {FALSE}
  CtlWrites = {}
  NmWrites = {0, 1}
  NlWrites = {0}
  TrigWrites = {0}
  ModeWrites = {0, 3}
SPECIFICATION Spec
VIEW ClicOnlyView
INVARIANT DeliveredInterruptIsArchWinner
PROPERTY InterruptEventuallyTaken PrivStackRefined
