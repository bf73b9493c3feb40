---------------------------- MODULE BasicArbiter ----------------------------
(***************************************************************************)
(* The basic-mode interrupt arbiter of riscvExceptions.c: delegation of a  *)
(* trap to its target privilege mode (getModeX), the effective interrupt   *)
(* enables (getIE), the pending-and-enabled mask and the bit-by-bit scan   *)
(* that selects one interrupt (refreshPendingAndEnabledBasic).             *)
(*                                                                         *)
(* CSR bitmaps (mip, mie, mideleg, sideleg, medeleg, sedeleg) are sets of  *)
(* bit indices.  Interrupt ids use the code's exceptionToInt numbering:    *)
(* 0..11 standard, 16 and up local.  These are pure operators; the hart    *)
(* module applies them to its state.                                       *)
(***************************************************************************)
EXTENDS Integers, FiniteSetsExt, TLC

\* riscvMode
U == 0
S == 1
M == 3
Modes == {U, S, M}

\* RV_NO_INT
NoInt == -1

(***************************************************************************)
(* getModeX tests delegation with (mask & (1<<ecode)): the masks are       *)
(* passed as Uns32 and 1 is an int, so for ecode >= 32 the shift is         *)
(* undefined.  The builds produce one of two results: the shift count is   *)
(* taken modulo 32 (x86 shl), or the shifted value is 0.  wrap selects     *)
(* which one.                                                              *)
(***************************************************************************)
DelegBit(mask, ecode, wrap) ==
  IF ecode < 32 THEN ecode \in mask
  ELSE wrap /\ (ecode % 32) \in mask

\* fault model: getModeX without the raise to the current mode
GetModeXNoRaise(modeY, mMask, sMask, ecode, wrap) ==
  IF ~DelegBit(mMask, ecode, wrap) THEN M
  ELSE IF ~DelegBit(sMask, ecode, wrap) THEN S
  ELSE U

\* getModeX: the mode implied by the delegation registers, never below the
\* current mode modeY
GetModeX(modeY, mMask, sMask, ecode, wrap) ==
  LET modeX == IF ~DelegBit(mMask, ecode, wrap) THEN M
               ELSE IF ~DelegBit(sMask, ecode, wrap) THEN S
               ELSE U
  IN  IF modeX > modeY THEN modeX ELSE modeY

\* getIE: a mode's interrupts are always enabled below it, never above it,
\* and by its xIE bit in it; CLIC mode disables its basic interrupts
GetIE(mode, IE, modeIE, useCLIC) ==
  IF useCLIC THEN FALSE
  ELSE IF mode < modeIE THEN TRUE
  ELSE IF mode > modeIE THEN FALSE
  ELSE IE

\* getIntPri: fixed priority of the standard interrupts, locals lowest
IntPriTable ==
  (4 :> 1) @@ (0 :> 2) @@ (8 :> 3) @@ (5 :> 4) @@ (1 :> 5) @@
  (9 :> 6) @@ (7 :> 7) @@ (3 :> 8) @@ (11 :> 9)

IntPri(id) == IF id \in DOMAIN IntPriTable THEN IntPriTable[id] ELSE 0

(***************************************************************************)
(* The mask of pending-and-enabled basic interrupts: mie & mip with the    *)
(* interrupts of every mode whose effective enable is clear removed.  The  *)
(* mode of an interrupt for masking is read from the full 64-bit mideleg   *)
(* and sideleg & mideleg.                                                  *)
(***************************************************************************)
PendingEnabledBasic(mode, ie, mip, mie, mideleg, sideleg, useCLIC) ==
  LET pe      == mie \cap mip
      sdeleg  == sideleg \cap mideleg
      maskOf(x) == CASE x = M -> {i \in pe : i \notin mideleg}
                   []   x = S -> {i \in pe : i \in mideleg \ sdeleg}
                   []   x = U -> {i \in pe : i \in sdeleg}
      masked  == UNION {maskOf(x) : x \in {x \in Modes :
                            ~GetIE(mode, ie[x], x, useCLIC[x])}}
  IN  pe \ masked

NoSel == [id |-> NoInt, priv |-> U]

\* fault model: the scan compares fixed priorities only, not modes
ReplacesPriorityOnly(sel, try) ==
  sel.id = NoInt \/ IntPri(sel.id) <= IntPri(try.id)

\* fault model: a tie in fixed priority keeps the earlier, lower id
ReplacesStrict(sel, try) ==
  \/ sel.id = NoInt
  \/ sel.priv < try.priv
  \/ sel.priv = try.priv /\ IntPri(sel.id) < IntPri(try.id)

\* the selection rule of the scan: a higher destination mode wins, and in the
\* same mode a priority at least as high (so the later, higher id wins a tie)
Replaces(sel, try) ==
  \/ sel.id = NoInt
  \/ sel.priv < try.priv
  \/ sel.priv = try.priv /\ IntPri(sel.id) <= IntPri(try.id)

\* the do/while loop over the pending-and-enabled bits, lowest bit first
RECURSIVE ScanBasic(_, _, _, _, _, _)
ScanBasic(pe, sel, mode, mideleg, sideleg, wrap) ==
  IF pe = {} THEN sel
  ELSE LET id  == Min(pe)
           try == [id |-> id,
                   priv |-> GetModeX(mode, mideleg, sideleg, id, wrap)]
       IN  ScanBasic(pe \ {id}, IF Replaces(sel, try) THEN try ELSE sel,
                     mode, mideleg, sideleg, wrap)

\* refreshPendingAndEnabledBasic, started from the reset selection
SelectBasic(mode, ie, mip, mie, mideleg, sideleg, useCLIC, wrap) ==
  ScanBasic(PendingEnabledBasic(mode, ie, mip, mie, mideleg, sideleg, useCLIC),
            NoSel, mode, mideleg, sideleg, wrap)

\* getPendingBasic: what wakes a hart from WFI, masked or not
PendingBasic(mip, mie) == mie \cap mip # {}

=============================================================================
