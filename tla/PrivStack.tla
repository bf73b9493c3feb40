------------------------------ MODULE PrivStack ------------------------------
(***************************************************************************)
(* The privilege stack a RISC-V hart promises to the program, the contract *)
(* riscvTakeException, doNMI, the xRET instructions and reset implement    *)
(* (spec sections 5 and 6): a trap to mode x never goes below the current  *)
(* mode, pushes xIE into xPIE and the current mode into xPP (MPP or SPP)   *)
(* and clears xIE; an xRET pops them again; an NMI enters M touching       *)
(* nothing else; the program may write xIE and the WARL xPP fields.        *)
(* Debug mode is not part of the contract: the program never sees it.      *)
(***************************************************************************)
EXTENDS Naturals

CONSTANTS
  Implemented,   \* implemented privilege modes
  HasN           \* the N extension: ustatus.UIE and URET exist

VARIABLES
  mode,          \* the privilege the program runs at
  ie,            \* mstatus.xIE per mode
  pie,           \* mstatus.xPIE per mode
  mpp,           \* mstatus.MPP
  spp            \* mstatus.SPP

vars == <<mode, ie, pie, mpp, spp>>

U == 0
S == 1
M == 3
Modes == {U, S, M}

\* the lowest implemented mode, which an xRET leaves in xPP
Lowest == CHOOSE x \in Implemented : \A y \in Implemented : x <= y

\* SPP holds U, or S when S exists
SPPLegal == {U} \cup (Implemented \cap {S})

\* the stack as one record, so that traps compose
Cur == [mode |-> mode, ie |-> ie, pie |-> pie, mpp |-> mpp, spp |-> spp]

Set(s) == mode' = s.mode /\ ie' = s.ie /\ pie' = s.pie
          /\ mpp' = s.mpp /\ spp' = s.spp

\* a trap of stack s to mode x
Push(s, x) ==
  [s EXCEPT !.pie[x] = s.ie[x], !.ie[x] = FALSE,
            !.mpp = IF x = M THEN s.mode ELSE @,
            !.spp = IF x = S THEN s.mode ELSE @,
            !.mode = x]

Init ==
  /\ mode = M
  /\ ie = [x \in Modes |-> FALSE] /\ pie = [x \in Modes |-> FALSE]
  /\ mpp \in Implemented /\ spp \in SPPLegal

\* an exception or interrupt taken to mode x, at or above the current mode
Trap == \E x \in Implemented : x >= mode /\ Set(Push(Cur, x))

\* a trap whose entry itself faults (the vector-table read of an SHV
\* interrupt): the second trap is taken from the state the first left
NestedTrap ==
  \E x, y \in Implemented : x >= mode /\ y >= x /\ Set(Push(Push(Cur, x), y))

\* the mode an xRET from x returns to: xPP if it names an implemented mode
RetMode(x) ==
  LET pp == IF x = M THEN mpp ELSE IF x = S THEN spp ELSE U
  IN  IF pp \in Implemented THEN pp ELSE Lowest

\* MRET, SRET or URET, from a mode at least x
Return ==
  \E x \in Implemented :
    /\ x <= mode /\ (x = U => HasN)
    /\ mode' = RetMode(x)
    /\ ie' = [ie EXCEPT ![x] = pie[x]]
    /\ pie' = [pie EXCEPT ![x] = TRUE]
    /\ mpp' = IF x = M THEN Lowest ELSE mpp
    /\ spp' = IF x = S THEN Lowest ELSE spp

\* a CSR write of the enables or of the legal xPP values
CsrWrite ==
  /\ ie' \in [Modes -> BOOLEAN]
  /\ \A x \in Modes : (x \notin Implemented \/ (x = U /\ ~HasN)) => ie'[x] = ie[x]
  /\ mpp' \in Implemented /\ spp' \in SPPLegal
  /\ UNCHANGED <<mode, pie>>

\* an NMI enters M and leaves the stack alone
Nmi == mode' = M /\ UNCHANGED <<ie, pie, mpp, spp>>

\* reset returns to the initial stack
Reset == Init'

Next == Trap \/ NestedTrap \/ Return \/ CsrWrite \/ Nmi \/ Reset

Spec == Init /\ [][Next]_vars

=============================================================================
