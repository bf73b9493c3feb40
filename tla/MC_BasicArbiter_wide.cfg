\* RV64 with more than 16 local interrupts: local ids 37 and 41 share their
\* low five bits with STI (5) and SEI (9)
CONSTANTS
  Ids = {5, 9, 37, 41}
  MieValues = {{5, 9, 37, 41}}
  DelegIds = {5, 9, 37, 41}
  WrapValues = {TRUE, FALSE}
SPECIFICATION Spec
INVARIANT ArbiterSelectsArchWinner
