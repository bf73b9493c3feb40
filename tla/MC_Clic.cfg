\* Two harts sharing cliccfg, one standard and one local interrupt each, on
\* an M/S/U hart with N, written byte by byte through every offset of the
\* window; nmbits writes include the out-of-range 3 and attr mode writes
\* include H.  clicintctl stays at its reset value and, without SHV
\* (CLICSELHVEC FALSE), attr.shv stays 0: the properties here rank by mode.
CONSTANTS
  Harts = {h1, h2}
  Ints = {7, 16}
  HasN = TRUE
  Implemented = {0, 1, 3}
  CLICCFGMBITS = 2
  CLICINTCTLBITS = 2
  CLICSELHVEC = FALSE
  UseCLIC = {0, 1, 3}
  Thresh <- MCThresh
  Checkpoints <- MCCheckpoints
  CtlWrites = {0}
  NmWrites = {0, 1, 2, 3}
  NlWrites = {0}
  TrigWrites = {0}
  ModeWrites = {0, 1, 2}
SYMMETRY HartSymmetry
INIT Init
NEXT Next
INVARIANT ClicWindowLayout ClicModeLegal ClicScanSelectsRankWinner ClicSelFresh
