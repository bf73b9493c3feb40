\* One M-mode-only hart with the CLIC alone (no basic controller): two
\* interrupts, two priority levels (clicintctl bit 7 with nlbits 8, or one
\* level with nlbits 0), edge and level triggering, SHV with vector-table
\* reads that may fault; mintthresh.th is 127, so that level-127 interrupts
\* are held off by the threshold and level-255 ones only by mintstatus.mil.
CONSTANTS
  Ints = {16, 17}
  Implemented = {3}
  HasN = FALSE
  MIDELEG = {}
  SIDELEG = {}
  MEDELEG = {}
  SEDELEG = {}
  XretPreservesLR = FALSE
  DebugKind = "NONE"
  EbreakDM = {}
  NMIConnected = FALSE
  DeferintConnected = FALSE
  ResetConnected = FALSE
  Wrap = TRUE
  BasicPresent = FALSE
  ClicPresent = TRUE
  Thresh <- MThresh127
  UseCLIC = {3}
  CLICCFGMBITS = 0
  CLICINTCTLBITS = 1
  CLICSELHVEC = TRUE
  VectorFaults = {FALSE, TRUE}
  CtlWrites = {0, 128}
  NmWrites = {0}
  NlWrites = {0, 8}
  TrigWrites = {0, 1}
  ModeWrites = {3}
SPECIFICATION Spec
VIEW ClicOnlyView
INVARIANT PendEnabFresh DeliveredInterruptIsArchWinner WFINoLostWakeup
