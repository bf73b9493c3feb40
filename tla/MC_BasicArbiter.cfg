\* Ids below 32: standard interrupts of all three modes and two locals of
\* equal (lowest) priority
CONSTANTS
  Ids = {1, 5, 7, 9, 16, 17}
  MieValues = {{1, 5, 7, 9, 16, 17}, {5, 7, 17}}
  DelegIds = {1, 5, 9, 17}
  WrapValues = {TRUE}
SPECIFICATION Spec
INVARIANT ArbiterSelectsArchWinner
