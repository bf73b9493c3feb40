--------------------------- MODULE MC_BasicArbiter ---------------------------
(***************************************************************************)
(* Checks the arbiter's scan against the rule it implements, over every    *)
(* combination of inputs drawn from small sets: the initial states         *)
(* enumerate the inputs and the state never changes.                       *)
(***************************************************************************)
EXTENDS BasicArbiter

CONSTANTS
  Ids,          \* interrupt ids that may be pending
  MieValues,    \* values of mie tried
  DelegIds,     \* ids whose delegation bits are varied
  WrapValues    \* shift outcomes of the build (see DelegBit)

VARIABLES mode, ie, mip, mie, mideleg, sideleg, wrap

vars == <<mode, ie, mip, mie, mideleg, sideleg, wrap>>

NoCLIC == [x \in Modes |-> FALSE]

Init ==
  /\ mode \in Modes
  /\ ie \in [Modes -> BOOLEAN]
  /\ mip \in SUBSET Ids
  /\ mie \in MieValues
  /\ mideleg \in SUBSET DelegIds
  /\ sideleg \in SUBSET DelegIds
  /\ wrap \in WrapValues

Spec == Init /\ [][UNCHANGED vars]_vars

TypeOK ==
  /\ mode \in Modes
  /\ ie \in [Modes -> BOOLEAN]
  /\ mip \subseteq Ids /\ mie \subseteq Ids
  /\ wrap \in BOOLEAN

(***************************************************************************)
(* The rule as the spec states it (section 4.D): an interrupt's target     *)
(* mode is M unless its mideleg bit is set, then S unless its sideleg bit  *)
(* is set, then U; it is enabled when pending in mip and mie and its       *)
(* target mode is above the current mode, or equal to it with xIE set;     *)
(* the winner has the highest target mode, then the highest fixed          *)
(* priority.  The spec leaves equal fixed priorities (all local            *)
(* interrupts are 0) open; the rule here resolves them as the spec does    *)
(* for the CLIC and as the scan's comment "higher fixed priority order"    *)
(* with <= intends: the highest id wins, so exactly one winner exists.     *)
(***************************************************************************)
TargetMode(i) ==
  IF i \notin mideleg THEN M ELSE IF i \notin sideleg THEN S ELSE U

ArchEnabled(i) ==
  /\ i \in mip \cap mie
  /\ \/ mode < TargetMode(i)
     \/ mode = TargetMode(i) /\ ie[mode]

Enabled == {i \in Ids : ArchEnabled(i)}

Winners ==
  {i \in Enabled : \A j \in Enabled :
      \/ TargetMode(j) < TargetMode(i)
      \/ TargetMode(j) = TargetMode(i) /\ IntPri(j) < IntPri(i)
      \/ TargetMode(j) = TargetMode(i) /\ IntPri(j) = IntPri(i) /\ j <= i}

(***************************************************************************)
(* The interrupt refreshPendingAndEnabledBasic selects is the winner of    *)
(* the rule, ties between local interrupts included, and the mode it       *)
(* records (later used by riscvTakeException as the trap's target) is      *)
(* that interrupt's delegated target mode; nothing is selected when        *)
(* nothing is enabled.                                                     *)
(***************************************************************************)
ArbiterSelectsArchWinner ==
  LET sel == SelectBasic(mode, ie, mip, mie, mideleg, sideleg, NoCLIC, wrap)
  IN  IF Enabled = {} THEN sel.id = NoInt
      ELSE sel.id \in Winners /\ sel.priv = TargetMode(sel.id)

=============================================================================
