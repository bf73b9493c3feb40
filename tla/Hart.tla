-------------------------------- MODULE Hart --------------------------------
(***************************************************************************)
(* One hart of riscvExceptions.c with the basic interrupt controller: the  *)
(* net-input callbacks (interrupt lines, nmi, deferint, haltreq, SC_valid),*)
(* the fetch gate (riscvIFetchExcept), the trap engine                     *)
(* (riscvTakeException), the return engine (MRET/SRET/URET/DRET), Debug    *)
(* mode entry and exit, WFI, and the CSR writes of the running program     *)
(* that the code relies on to re-arbitrate (riscvTestInterrupt).          *)
(*                                                                         *)
(* Data the trap engine only copies (xcause, xepc, xtval, riscv->exception,*)
(* dcsr.cause, the PC, the retired-instruction count, the access-fault     *)
(* detail, the external interrupt ID) is left out, and so is mstatus.MPRV, *)
(* which only affects data accesses; the history variable traps marks the  *)
(* steps that take a trap.                                                 *)
(***************************************************************************)
EXTENDS Clic

CONSTANTS
  MIDELEG, SIDELEG, \* interrupt delegation CSRs
  MEDELEG, SEDELEG, \* exception delegation CSRs
  Implemented,      \* implemented privilege modes (riscvHasMode)
  XretPreservesLR,  \* configInfo.xret_preserves_lr
  DebugKind,        \* configInfo.debug_mode: "NONE", "VECTOR" or "HALT"
  EbreakDM,         \* modes whose dcsr.ebreak{u,s,m} bit is set
  NMIConnected,     \* the nmi net is driven
  DeferintConnected,\* the deferint net is driven
  ResetConnected,   \* the reset and resethaltreq nets are driven
  Wrap,             \* shift outcome of the build (BasicArbiter!DelegBit)
  BasicPresent,     \* basicICPresent: the basic interrupt controller
  ClicPresent,      \* CLICPresent: the CLIC
  VectorFaults      \* outcomes of an SHV vector-table read (TRUE: it faults)

ASSUME /\ M \in Implemented /\ Implemented \subseteq Modes
       /\ S \in Implemented => U \in Implemented
       /\ DebugKind \in {"NONE", "VECTOR", "HALT"}
       /\ DebugKind = "NONE" => EbreakDM = {}
       /\ ~ClicPresent => UseCLIC = {}
       /\ VectorFaults \subseteq BOOLEAN /\ VectorFaults # {}

VARIABLES
  mode,         \* current privilege mode
  ie, pie,      \* mstatus.xIE and mstatus.xPIE, per mode
  mpp, spp,     \* mstatus.MPP, mstatus.SPP
  mie,          \* mie CSR
  mip,          \* riscv->ip, the interrupt input nets; the mip CSR follows
                \* it when the basic controller is present (swip, the
                \* software-pending bits, is not modelled)
  pendEnab,     \* riscv->pendEnab: the interrupt the fetch gate will take
  reservation,  \* riscv->exclusiveTag # RISCV_NO_TAG
  dm,           \* riscv->DM: in Debug mode
  dcsrPrv,      \* dcsr.prv
  disable,      \* riscv->disable: reasons the hart is halted
  nmi,          \* netValue.nmi (mirrored in dcsr.nmip)
  deferint,     \* netValue.deferint
  haltreq,      \* netValue.haltreq
  resetNet,     \* netValue.reset
  resethaltreq, \* netValue.resethaltreq
  resethaltreqS,\* netValue.resethaltreqS: Debug entry out of reset pending
  clic,         \* the CLIC state (module Clic)
  clicSel,      \* hart->clic.sel: the CLIC candidate, id and shv
  il,           \* mintstatus.xil, per mode
  pil           \* xcause.pil, per mode

\* history variable: traps flips at every step that takes a trap outside
\* Debug mode (riscvTakeException and doNMI), so a step takes one iff it
\* changes it
VARIABLE traps

\* riscv->exception: the last exception taken (0 after reset and an NMI)
VARIABLE exception

\* history variable: the mode the hart was in when it last entered Debug mode
VARIABLE dmEntry

vars == <<mode, ie, pie, mpp, spp, mie, mip, pendEnab, reservation, dm,
          dcsrPrv, disable, nmi, deferint, haltreq, resetNet, resethaltreq,
          resethaltreqS, clic, clicSel, il, pil, traps, exception, dmEntry>>

rstVars == <<resetNet, resethaltreq, resethaltreqS>>

\* the CLIC state, the CLIC candidate and the interrupt levels
clicVars == <<clic, clicSel, il, pil>>

\* riscvException values: a trap code with its is-interrupt flag
Exc(code) == [int |-> FALSE, code |-> code]
IntExc(id) == [int |-> TRUE, code |-> id]

InstructionAccessFault == Exc(1)
IllegalInstruction     == Exc(2)
Breakpoint             == Exc(3)
LoadAccessFault        == Exc(5)
\* riscv->exception = 0
NoException            == Exc(0)

\* the exceptions of the data-access handlers: riscvRdAlignExcept and
\* riscvWrAlignExcept, and riscvRd/WrAbortExcept and riscvRd/WrDeviceExcept
\* outside a page-table walk
LoadAddressMisaligned     == Exc(4)
StoreAMOAddressMisaligned == Exc(6)
StoreAMOAccessFault       == Exc(7)
MemoryFaults == {LoadAddressMisaligned, LoadAccessFault,
                 StoreAMOAddressMisaligned, StoreAMOAccessFault}
\* riscv_E_EnvironmentCallFromUMode + mode
EnvironmentCall(md)    == Exc(8 + md)

\* riscvGetMinMode
MinMode == Min(Implemented)

\* the legal values of the WARL field mstatus.SPP: U or S, and 0 (U) when
\* it is hardwired
SPPValues == {U} \cup {x \in Implemented : x = S}

\* useCLICM/S/U as the useCLIC argument of getIE
UseCLICOf == [x \in Modes |-> x \in UseCLIC]

\* the mip CSR: riscvUpdatePending copies ip into it only when the basic
\* controller is present; otherwise it keeps its reset value 0
MipCSR(ipV) == IF BasicPresent THEN ipV ELSE {}

\* the reset pendEnab and clic.sel (refreshPendingAndEnabled, riscvNewCLIC)
NoPE == [id |-> NoInt, priv |-> U, level |-> 0, isCLIC |-> FALSE]
NoClicSel == [id |-> NoInt, shv |-> FALSE]

----------------------------------------------------------------------------
(***************************************************************************)
(* riscvTestInterrupt, applied to the state a handler leaves behind.       *)
(* refreshPendingAndEnabled resets pendEnab, lets the basic scan select    *)
(* (basicICPresent) and then the CLIC override it (CLICPresent); a hart    *)
(* halted in WFI restarts if any interrupt is pending, masked or not: in   *)
(* mip & mie, or a CLIC candidate (getPending).  handlePendingAndEnabled   *)
(* only schedules the fetch gate.  The arguments are the handler's new     *)
(* values: mode, mstatus.xIE, ip, mie, mintstatus.xil and the CLIC state.  *)
(***************************************************************************)
Refresh(md, ieV, mipV, mieV, ilV, cs) ==
  LET b     == SelectBasic(md, ieV, MipCSR(mipV), mieV, MIDELEG, SIDELEG,
                           UseCLICOf, Wrap)
      basic == IF BasicPresent
               THEN [NoPE EXCEPT !.id = b.id, !.priv = b.priv] ELSE NoPE
  IN  IF ClicPresent THEN RefreshClic(cs, md, ieV, ilV, basic)
      ELSE [sel |-> NoClicSel, pe |-> basic]

\* fault model: getPending without getPendingCLIC
PendingBasicOnly(mipV, mieV, sel) == PendingBasic(MipCSR(mipV), mieV)

\* getPending
Pending(mipV, mieV, sel) ==
  PendingBasic(MipCSR(mipV), mieV) \/ sel.id # NoInt

\* fault model: riscvTestInterrupt without the WFI restart
WakeWFINever(d, mipV, mieV, sel) == d

WakeWFI(d, mipV, mieV, sel) ==
  IF Pending(mipV, mieV, sel) THEN d \ {"WFI"} ELSE d

\* pendEnab and clic.sel from refreshPendingAndEnabled
SetSelection(r) == pendEnab' = r.pe /\ clicSel' = r.sel

TestInterrupt(md, ieV, mipV, mieV, ilV, cs, d) ==
  LET r == Refresh(md, ieV, mipV, mieV, ilV, cs)
  IN  /\ SetSelection(r)
      /\ disable' = WakeWFI(d, mipV, mieV, r.sel)

\* fault model: the gate ignoring a selection made by the CLIC
PendingAndEnabledBasicOnly ==
  pendEnab.id # NoInt /\ ~pendEnab.isCLIC /\ ~dm /\ ~deferint

\* getPendingAndEnabled
PendingAndEnabled == pendEnab.id # NoInt /\ ~dm /\ ~deferint

\* updateDMStall: with debug_mode HALT, halt or restart for reason DEBUG
DMStall(d, stall) ==
  IF DebugKind # "HALT" THEN d
  ELSE IF stall THEN d \cup {"DEBUG"} ELSE d \ {"DEBUG"}

\* fault model: enterDM records dcsr.prv even when already in Debug mode
EnterDMAlwaysRecord(cause, d) ==
  /\ dm' = TRUE
  /\ dcsrPrv' = mode
  /\ mode' = M
  /\ disable' = DMStall(d, TRUE)
  /\ dmEntry' = IF dm THEN dmEntry ELSE mode

(***************************************************************************)
(* enterDM.  On first entry dcsr records the mode and the cause and the    *)
(* hart switches to M; in Debug mode already nothing is recorded.  With    *)
(* debug_mode VECTOR the PC moves to debug_address or dexc_address (not    *)
(* modelled); with HALT the hart stalls.                                   *)
(***************************************************************************)
EnterDM(cause, d) ==
  /\ dm' = TRUE
  /\ IF dm THEN UNCHANGED <<dcsrPrv, mode>>
     ELSE /\ dcsrPrv' = mode
          /\ mode' = M
  /\ disable' = DMStall(d, TRUE)
  /\ dmEntry' = IF dm THEN dmEntry ELSE mode

(***************************************************************************)
(* The trap state: what riscvTakeException changes besides the CLIC.       *)
(* TARGET_MODE_X for target x at level lvl (-1 leaves mintstatus.xil):     *)
(* xPIE takes xIE, xIE is cleared, xcause.pil takes mintstatus.xil, which  *)
(* takes the level; then MPP or SPP records the mode and the mode switches.*)
(***************************************************************************)
TrapState == [mode |-> mode, ie |-> ie, pie |-> pie, mpp |-> mpp, spp |-> spp,
              il |-> il, pil |-> pil]

SetTrapState(t) ==
  /\ mode' = t.mode /\ ie' = t.ie /\ pie' = t.pie
  /\ mpp' = t.mpp /\ spp' = t.spp /\ il' = t.il /\ pil' = t.pil

\* fault model: TARGET_MODE_X writing xIE before it is read into xPIE
TargetModeXNoSave(t, x, lvl) ==
  [t EXCEPT !.pie[x] = FALSE, !.ie[x] = FALSE,
            !.pil[x] = t.il[x], !.il[x] = IF lvl >= 0 THEN lvl ELSE @,
            !.mpp = IF x = M THEN t.mode ELSE @,
            !.spp = IF x = S THEN t.mode ELSE @,
            !.mode = x]

TargetModeX(t, x, lvl) ==
  [t EXCEPT !.pie[x] = t.ie[x], !.ie[x] = FALSE,
            !.pil[x] = t.il[x], !.il[x] = IF lvl >= 0 THEN lvl ELSE @,
            !.mpp = IF x = M THEN t.mode ELSE @,
            !.spp = IF x = S THEN t.mode ELSE @,
            !.mode = x]

\* getExceptionModeX
ExceptionModeX(md, code) == GetModeX(md, MEDELEG, SEDELEG, code, Wrap)

\* a synchronous exception from trap state t: a vertical trap is taken at
\* level 0, a horizontal one leaves the level
TrapException(t, exc) ==
  LET x == ExceptionModeX(t.mode, exc.code)
  IN  TargetModeX(t, x, IF x # t.mode THEN 0 ELSE -1)

\* GET_CLIC_VECTORED_HANDLER_PC: the vector-table read from trap state t;
\* one that faults takes the load access fault from the state the interrupt
\* left (nested riscvTakeException) and abandons the interrupt
VectorFetch(id, t) ==
  \E fault \in VectorFaults :
    IF fault THEN /\ SetTrapState(TrapException(t, LoadAccessFault))
                  /\ exception' = LoadAccessFault
             ELSE /\ SetTrapState(t)
                  /\ exception' = IntExc(id)

\* fault model: the acknowledge clears an edge but never re-arbitrates
AcknowledgeNoRefresh(id, pe, t) ==
  LET edge == clic.attr[id].trig % 2 = 1
  IN  /\ clic' = IF edge THEN WriteIP(clic, id, FALSE).cs ELSE clic
      /\ pendEnab' = pe
      /\ UNCHANGED <<clicSel, disable>>
      /\ VectorFetch(id, t)

(***************************************************************************)
(* An SHV interrupt taken to trap state t: riscvAcknowledgeCLICInt clears  *)
(* an edge-triggered interrupt's pending bit (re-arbitrating in full if    *)
(* that changes ipe) or refreshes pendEnab for a level-triggered one;      *)
(* then the handler address is read from the vector table.                 *)
(***************************************************************************)
AcknowledgeAndFetch(id, pe, t) ==
  LET edge == clic.attr[id].trig % 2 = 1
      ack  == IF edge THEN WriteIP(clic, id, FALSE) ELSE NoTest(clic)
      r    == Refresh(t.mode, t.ie, mip, mie, t.il, ack.cs)
  IN  /\ clic' = ack.cs
      /\ IF ~edge \/ ack.test THEN SetSelection(r)
         ELSE pendEnab' = pe /\ UNCHANGED clicSel
      /\ disable' = IF edge /\ ack.test THEN WakeWFI(disable, mip, mie, r.sel)
                    ELSE disable
      /\ VectorFetch(id, t)

(***************************************************************************)
(* riscvTakeException, with pe the pendEnab it reads (doInterrupt has      *)
(* already unregistered the id).  In Debug mode the program buffer is      *)
(* abandoned and Debug mode re-entered with cause NONE.  Otherwise the     *)
(* target mode X is found from the delegation CSRs (never below the        *)
(* current mode Y) or, for a CLIC interrupt, taken from pe.priv as it is;  *)
(* the level is pe.level for an interrupt; the reservation is cleared and  *)
(* TARGET_MODE_X applied.  An SHV interrupt to a mode in CLIC mode         *)
(* (clic.sel.shv, read on entry) is acknowledged and vectored.  pendEnab   *)
(* is not refreshed otherwise.                                             *)
(***************************************************************************)
TakeException(exc, pe) ==
  IF dm
  THEN /\ EnterDM("NONE", disable)
       /\ pendEnab' = pe
       /\ UNCHANGED <<ie, pie, mpp, spp, reservation, traps, exception,
                      clicVars>>
  ELSE LET modeX == IF ~exc.int THEN ExceptionModeX(mode, exc.code)
                    ELSE IF pe.isCLIC THEN pe.priv
                    ELSE GetModeX(mode, MIDELEG, SIDELEG, exc.code, Wrap)
           lvl   == IF exc.int THEN pe.level
                    ELSE IF modeX # mode THEN 0 ELSE -1
           t     == TargetModeX(TrapState, modeX, lvl)
       IN  /\ reservation' = FALSE
           /\ traps' = ~traps
           /\ UNCHANGED <<dm, dcsrPrv, dmEntry>>
           /\ IF exc.int /\ modeX \in UseCLIC /\ clicSel.shv
              THEN AcknowledgeAndFetch(exc.code, pe, t)
              ELSE /\ SetTrapState(t)
                   /\ exception' = exc
                   /\ pendEnab' = pe
                   /\ UNCHANGED <<clic, clicSel, disable>>

----------------------------------------------------------------------------
(***************************************************************************)
(* Net-input callbacks.  They run between instructions, serialized with    *)
(* the hart, and fire only when the net's value changes.                   *)
(***************************************************************************)

\* fault model: riscvUpdatePending re-arbitrating only when a bit rises
UpdatePendingTestRiseOnly(ipV) ==
  BasicPresent /\ mip \subseteq ipV /\ mip # ipV

\* riscvUpdatePending's condition: mip = ip | swip changes (basic only)
UpdatePendingTest(ipV) == BasicPresent /\ ipV # mip

(***************************************************************************)
(* interruptPortCB: the line sets or clears its ip bit; the CLIC input     *)
(* (updateCLICInput) is updated first and re-arbitrates while the mip CSR  *)
(* still holds the old bits, then riscvUpdatePending copies ip to mip and  *)
(* re-arbitrates again on a change.  Writes of an unchanged value reach    *)
(* the callback too.                                                       *)
(***************************************************************************)
SetInterruptLine(i, v) ==
  LET ipV == IF v THEN mip \cup {i} ELSE mip \ {i}
      c   == IF ClicPresent THEN UpdateInput(clic, i, v) ELSE NoTest(clic)
      r1  == Refresh(mode, ie, mip, mie, il, c.cs)
      d1  == IF c.test THEN WakeWFI(disable, mip, mie, r1.sel) ELSE disable
      r2  == Refresh(mode, ie, ipV, mie, il, c.cs)
  IN  /\ mip' = ipV
      /\ clic' = c.cs
      /\ IF UpdatePendingTest(ipV)
         THEN SetSelection(r2) /\ disable' = WakeWFI(d1, ipV, mie, r2.sel)
         ELSE IF c.test THEN SetSelection(r1) /\ disable' = d1
         ELSE UNCHANGED <<pendEnab, clicSel, disable>>
      /\ UNCHANGED <<mode, ie, pie, mpp, spp, il, pil, mie, reservation, dm,
                     dcsrPrv, nmi, deferint, haltreq, traps, exception, dmEntry>>

\* doNMI: the hart leaves WFI, switches to M and records the NMI in mcause
\* and mepc; mstatus, mintstatus and pendEnab are untouched
DoNMI ==
  /\ disable' = disable \ {"WFI"}
  /\ mode' = M
  /\ traps' = ~traps
  /\ exception' = NoException

\* fault model: nmiPortCB without the Debug-mode check
SetNMIInDM(v) ==
  /\ NMIConnected
  /\ v # nmi
  /\ nmi' = v
  /\ IF v THEN DoNMI ELSE UNCHANGED <<disable, mode, traps, exception>>
  /\ UNCHANGED <<ie, pie, mpp, spp, mie, mip, pendEnab, reservation, dm,
                 dcsrPrv, deferint, haltreq, dmEntry, clicVars>>

\* nmiPortCB: doNMI on a rising edge outside Debug mode
SetNMI(v) ==
  /\ NMIConnected
  /\ v # nmi
  /\ nmi' = v
  /\ IF ~dm /\ v THEN DoNMI ELSE UNCHANGED <<disable, mode, traps, exception>>
  /\ UNCHANGED <<ie, pie, mpp, spp, mie, mip, pendEnab, reservation, dm,
                 dcsrPrv, deferint, haltreq, dmEntry, clicVars>>

\* the variables only the hart's instructions, traps and the CLIC change
HartOnly == <<mode, ie, pie, mpp, spp, mie, mip, pendEnab, reservation, dm,
              dcsrPrv, traps, exception, dmEntry, clicVars>>

\* deferintPortCB: while high the fetch gate holds interrupts off; on the
\* falling edge the already computed pendEnab is delivered (not refreshed)
SetDeferint(v) ==
  /\ DeferintConnected
  /\ v # deferint
  /\ deferint' = v
  /\ UNCHANGED <<disable, nmi, haltreq>>
  /\ UNCHANGED HartOnly

\* haltreqPortCB: the level is latched; the fetch gate acts on it
SetHaltreq(v) ==
  /\ DebugKind # "NONE"
  /\ v # haltreq
  /\ haltreq' = v
  /\ UNCHANGED <<disable, nmi, deferint>>
  /\ UNCHANGED HartOnly

\* SCValidPortCB: a low SC_valid clears the reservation
SCInvalid ==
  /\ reservation
  /\ reservation' = FALSE
  /\ UNCHANGED <<mode, ie, pie, mpp, spp, mie, mip, pendEnab, dm, dcsrPrv,
                 disable, nmi, deferint, haltreq, traps, exception, dmEntry,
                 clicVars>>

(***************************************************************************)
(* A store to the CLIC window (clicWriteCB) from the program or another    *)
(* bus master: a field of interrupt i through the page of mode page, or    *)
(* cliccfg through the control page (refreshCCLICInterruptAll).  The       *)
(* handler's test decides whether riscvTestInterrupt runs on the new state.*)
(***************************************************************************)
ClicWrite(r) ==
  /\ clic' = r.cs
  /\ IF r.test THEN TestInterrupt(mode, ie, mip, mie, il, r.cs, disable)
     ELSE UNCHANGED <<pendEnab, clicSel, disable>>
  /\ UNCHANGED <<mode, ie, pie, mpp, spp, il, pil, mie, mip, reservation, dm,
                 dcsrPrv, nmi, deferint, haltreq, traps, exception, dmEntry>>

ClicFieldWrite(i, page) ==
  /\ ClicPresent
  /\ \E r \in FieldWrites(clic, i, page) : ClicWrite(r)

ClicCfgWrite(nm, nl) ==
  /\ ClicPresent
  /\ ClicWrite(CfgWrite(clic, nm, nl))

----------------------------------------------------------------------------
(***************************************************************************)
(* riscvIFetchExcept, the fetch gate, run before every instruction of a    *)
(* hart that is not halted.  Its branches are tried in order: haltreq      *)
(* outside Debug mode enters Debug mode; else a pending-and-enabled        *)
(* interrupt in pendEnab is taken (doInterrupt); else the fetch address is *)
(* validated and the instruction executes.                                 *)
(***************************************************************************)
Running == disable = {}

\* fault model: the gate checks haltreq only after the other branches
NoHaltIgnoringHaltreq == Running /\ ~resethaltreqS

\* the branches before the interrupt branch did not fire
NoHalt == Running /\ ~resethaltreqS /\ ~(haltreq /\ ~dm)

\* every branch before the instruction fired did not fire
Executes == NoHalt /\ ~PendingAndEnabled

\* Debug-mode entries from the gate leave the trap state and the CLIC alone
GateDMUnchanged ==
  UNCHANGED <<ie, pie, mpp, spp, mie, mip, pendEnab, reservation, nmi,
              deferint, haltreq, traps, exception, clicVars>>

FetchResethaltreq ==
  /\ Running
  /\ resethaltreqS
  /\ resethaltreqS' = FALSE
  /\ EnterDM("RESETHALTREQ", disable)
  /\ GateDMUnchanged
  /\ UNCHANGED <<resetNet, resethaltreq>>

FetchHaltreq ==
  /\ Running
  /\ ~resethaltreqS
  /\ haltreq /\ ~dm
  /\ EnterDM("HALTREQ", disable)
  /\ GateDMUnchanged
  /\ UNCHANGED rstVars

\* doInterrupt: unregister pendEnab.id and take it
FetchInterrupt ==
  /\ NoHalt
  /\ PendingAndEnabled
  /\ TakeException(IntExc(pendEnab.id), [pendEnab EXCEPT !.id = NoInt])
  /\ UNCHANGED <<mie, mip, nmi, deferint, haltreq>>
  /\ UNCHANGED rstVars

\* the trap-taking instructions and faults leave these alone
TrapUnchanged == UNCHANGED <<mie, mip, nmi, deferint, haltreq>>

\* validateFetchAddress fails: instruction access fault
FetchAccessFault ==
  /\ Executes
  /\ TakeException(InstructionAccessFault, pendEnab)
  /\ TrapUnchanged

\* riscvECALL
Ecall ==
  /\ Executes
  /\ TakeException(EnvironmentCall(mode), pendEnab)
  /\ TrapUnchanged

\* riscvIllegalInstruction
Illegal ==
  /\ Executes
  /\ TakeException(IllegalInstruction, pendEnab)
  /\ TrapUnchanged

(***************************************************************************)
(* riscvTakeMemoryException: a load or store of the program faults and the *)
(* exception is taken.  Its other outcomes leave the state modelled here   *)
(* alone: an abort during a page-table walk only marks the walk            *)
(* (PTWBadAddr), and handleFF suppresses a fault of a fault-only-first     *)
(* vector load past its first element (clamping vl).                      *)
(***************************************************************************)
MemoryException(exc) ==
  /\ Executes
  /\ TakeException(exc, pendEnab)
  /\ TrapUnchanged

\* riscvEBREAK: Debug mode entry in Debug mode or when dcsr.ebreak<mode> is
\* set, a Breakpoint exception otherwise
Ebreak ==
  /\ Executes
  /\ IF dm \/ mode \in EbreakDM
     THEN /\ EnterDM("EBREAK", disable)
          /\ UNCHANGED <<ie, pie, mpp, spp, reservation, traps, exception,
                         pendEnab, clicVars>>
     ELSE TakeException(Breakpoint, pendEnab)
  /\ TrapUnchanged

(***************************************************************************)
(* The xRET instructions.  In Debug mode they are NOPs.  Otherwise the     *)
(* reservation is cleared unless xret_preserves_lr, mintstatus.xil takes   *)
(* xcause.pil when mode x is in CLIC mode, xIE takes xPIE, xPIE is set,    *)
(* xPP is set to the minimum mode (clearMPRV is not modelled), and         *)
(* doERETCommon switches mode and calls riscvTestInterrupt.  Legal-        *)
(* instruction checks (mode, TSR) are made by the decoder before the call. *)
(***************************************************************************)

\* getERETMode
ERETMode(newMode) == IF newMode \in Implemented THEN newMode ELSE MinMode

\* clearEAxRET
ClearEAxRET == reservation' = (XretPreservesLR /\ reservation)

\* the mintstatus.xil restore of xRET from mode x
RestoreLevel(x) == IF x \in UseCLIC THEN [il EXCEPT ![x] = pil[x]] ELSE il

\* doERETCommon
ERETCommon(newMode, ieV, ilV) ==
  /\ mode' = newMode
  /\ TestInterrupt(newMode, ieV, mip, mie, ilV, clic, disable)

\* the xRET instructions leave these alone
XRETUnchanged ==
  UNCHANGED <<mie, mip, dm, dcsrPrv, nmi, deferint, haltreq, traps, exception,
              dmEntry, pil, clic>>

\* fault model: MRET without riscvTestInterrupt
MRETNoTest ==
  /\ Executes
  /\ mode = M
  /\ ~dm
  /\ ClearEAxRET
  /\ il' = RestoreLevel(M)
  /\ ie' = [ie EXCEPT ![M] = pie[M]]
  /\ pie' = [pie EXCEPT ![M] = TRUE]
  /\ mpp' = MinMode
  /\ mode' = ERETMode(mpp)
  /\ UNCHANGED <<spp, pendEnab, clicSel, disable>>
  /\ XRETUnchanged

MRET ==
  /\ Executes
  /\ mode = M
  /\ ~dm
  /\ LET ieV == [ie EXCEPT ![M] = pie[M]]
         ilV == RestoreLevel(M)
     IN  /\ ClearEAxRET
         /\ il' = ilV
         /\ ie' = ieV
         /\ pie' = [pie EXCEPT ![M] = TRUE]
         /\ mpp' = MinMode
         /\ ERETCommon(ERETMode(mpp), ieV, ilV)
  /\ UNCHANGED spp
  /\ XRETUnchanged

SRET ==
  /\ Executes
  /\ S \in Implemented /\ mode \in {S, M}
  /\ ~dm
  /\ LET ieV == [ie EXCEPT ![S] = pie[S]]
         ilV == RestoreLevel(S)
     IN  /\ ClearEAxRET
         /\ il' = ilV
         /\ ie' = ieV
         /\ pie' = [pie EXCEPT ![S] = TRUE]
         /\ spp' = MinMode
         /\ ERETCommon(ERETMode(spp), ieV, ilV)
  /\ UNCHANGED mpp
  /\ XRETUnchanged

\* fault model: URET without riscvTestInterrupt
URETNoTest ==
  /\ Executes
  /\ HasN
  /\ ~dm
  /\ ClearEAxRET
  /\ il' = RestoreLevel(U)
  /\ ie' = [ie EXCEPT ![U] = pie[U]]
  /\ pie' = [pie EXCEPT ![U] = TRUE]
  /\ mode' = U
  /\ UNCHANGED <<mpp, spp, pendEnab, clicSel, disable>>
  /\ XRETUnchanged

\* URET: xPP is untouched
URET ==
  /\ Executes
  /\ HasN
  /\ ~dm
  /\ LET ieV == [ie EXCEPT ![U] = pie[U]]
         ilV == RestoreLevel(U)
     IN  /\ ClearEAxRET
         /\ il' = ilV
         /\ ie' = ieV
         /\ pie' = [pie EXCEPT ![U] = TRUE]
         /\ ERETCommon(U, ieV, ilV)
  /\ UNCHANGED <<mpp, spp>>
  /\ XRETUnchanged

\* the variables WFI and LR leave alone, besides the one they change
InstrUnchanged ==
  UNCHANGED <<mode, ie, pie, mpp, spp, mie, mip, pendEnab, dm, dcsrPrv, nmi,
              deferint, haltreq, traps, exception, dmEntry, clicVars>>

\* fault model: WFI halts without checking for a pending interrupt
WFIUnconditional ==
  /\ Executes
  /\ ~dm
  /\ disable' = disable \cup {"WFI"}
  /\ UNCHANGED reservation
  /\ InstrUnchanged

\* riscvWFI: halt unless in Debug mode or an interrupt is pending, in
\* mip & mie or as a CLIC candidate (getPending); otherwise a NOP
WFI ==
  /\ Executes
  /\ ~(dm \/ Pending(mip, mie, clicSel))
  /\ disable' = disable \cup {"WFI"}
  /\ UNCHANGED reservation
  /\ InstrUnchanged

\* fault model: leaveDM without riscvTestInterrupt
LeaveDMNoTest ==
  /\ dm' = FALSE
  /\ mode' = dcsrPrv
  /\ UNCHANGED <<pendEnab, clicSel, dmEntry>>
  /\ disable' = DMStall(disable, FALSE)

(***************************************************************************)
(* leaveDM: go to dcsr.prv, doERETCommon (which calls                      *)
(* riscvTestInterrupt), then restart a hart stalled by Debug mode.         *)
(***************************************************************************)
LeaveDM ==
  LET r == Refresh(dcsrPrv, ie, mip, mie, il, clic)
  IN  /\ dm' = FALSE
      /\ mode' = dcsrPrv
      /\ SetSelection(r)
      /\ disable' = DMStall(WakeWFI(disable, mip, mie, r.sel), FALSE)
      /\ UNCHANGED dmEntry

\* the variables the debugger's entry and exit leave alone
DebugUnchanged ==
  UNCHANGED <<ie, pie, mpp, spp, mie, mip, reservation, nmi, deferint,
              haltreq, traps, exception, clic, il, pil>>

\* riscvDRET in Debug mode (outside it DRET is riscvIllegalInstruction)
DRET ==
  /\ Executes
  /\ dm
  /\ LeaveDM
  /\ UNCHANGED dcsrPrv
  /\ DebugUnchanged

\* riscvSetDM, called by the debug module: enter Debug mode with cause
\* HALTREQ or leave it; no change when already in the requested state
SetDM(v) ==
  /\ DebugKind # "NONE"
  /\ v # dm
  /\ IF v THEN /\ EnterDM("HALTREQ", disable)
               /\ UNCHANGED <<pendEnab, clicSel>>
          ELSE /\ LeaveDM
               /\ UNCHANGED dcsrPrv
  /\ DebugUnchanged

(***************************************************************************)
(* CSR writes of the running program (riscvCSR.c).  Each write of mstatus  *)
(* or mie is followed by riscvTestInterrupt.  A mode's xIE is writable     *)
(* from that mode up (ustatus needs N); mie and mstatus.MPP from M;        *)
(* SPP from S up.  MPP and SPP are WARL and hold implemented modes.  The   *)
(* mie bits exist only with the basic controller.                          *)
(***************************************************************************)
CsrUnchanged ==
  UNCHANGED <<mode, mip, reservation, dm, dcsrPrv, nmi, deferint, haltreq,
              traps, exception, dmEntry, clic, il, pil>>

CsrWriteIE(x, v) ==
  /\ Executes
  /\ x \in Implemented /\ x <= mode /\ (x = U => HasN)
  /\ v # ie[x]
  /\ ie' = [ie EXCEPT ![x] = v]
  /\ TestInterrupt(mode, ie', mip, mie, il, clic, disable)
  /\ UNCHANGED <<pie, mpp, spp, mie>>
  /\ CsrUnchanged

CsrWriteMIE(i, v) ==
  /\ Executes
  /\ BasicPresent /\ mode = M
  /\ v # (i \in mie)
  /\ mie' = IF v THEN mie \cup {i} ELSE mie \ {i}
  /\ TestInterrupt(mode, ie, mip, mie', il, clic, disable)
  /\ UNCHANGED <<ie, pie, mpp, spp>>
  /\ CsrUnchanged

\* fault model: SPP written without its WARL legalisation to U or S
CsrWritePPNoWARL(m, s) ==
  /\ Executes
  /\ mode = M
  /\ m \in Implemented /\ s \in Implemented
  /\ <<m, s>> # <<mpp, spp>>
  /\ mpp' = m
  /\ spp' = s
  /\ TestInterrupt(mode, ie, mip, mie, il, clic, disable)
  /\ UNCHANGED <<ie, pie, mie>>
  /\ CsrUnchanged

CsrWritePP(m, s) ==
  /\ Executes
  /\ mode = M
  /\ m \in Implemented /\ s \in SPPValues
  /\ <<m, s>> # <<mpp, spp>>
  /\ mpp' = m
  /\ spp' = s
  /\ TestInterrupt(mode, ie, mip, mie, il, clic, disable)
  /\ UNCHANGED <<ie, pie, mie>>
  /\ CsrUnchanged

\* LR: registers a reservation (exclusiveTag)
LoadReserved ==
  /\ Executes
  /\ ~reservation
  /\ reservation' = TRUE
  /\ UNCHANGED disable
  /\ InstrUnchanged

----------------------------------------------------------------------------
(***************************************************************************)
(* Reset.  resetPortCB halts the hart while reset is high and calls        *)
(* riscvReset on the falling edge: restart from any halted state, leave    *)
(* Debug mode, switch to M, reset the CSRs (riscvCSRReset: mstatus, mie,   *)
(* mintstatus and the xcause.pil fields clear, dcsr.prv = M, MPP/SPP WARL  *)
(* values), reset cliccfg (resetCLIC: the per-interrupt state is kept),    *)
(* clear riscv->exception and latch resethaltreq into resethaltreqS.       *)
(* Re-arbitration follows the CSR and cliccfg writes.                      *)
(***************************************************************************)
NoLevels == [x \in Modes |-> 0]

\* the state riscvReset leaves, and the initial state
ResetState ==
  /\ mode = M
  /\ ie = [x \in Modes |-> FALSE]
  /\ pie = [x \in Modes |-> FALSE]
  /\ mpp \in Implemented
  /\ spp \in SPPValues
  /\ mie = {}
  /\ il = NoLevels /\ pil = NoLevels
  /\ dm = FALSE
  /\ dcsrPrv = M
  /\ disable = {}
  /\ exception = NoException

\* the same state, as riscvReset's writes
ResetCSRs ==
  /\ mode' = M
  /\ ie' = [x \in Modes |-> FALSE]
  /\ pie' = [x \in Modes |-> FALSE]
  /\ mpp' \in Implemented
  /\ spp' \in SPPValues
  /\ mie' = {}
  /\ il' = NoLevels /\ pil' = NoLevels
  /\ dm' = FALSE
  /\ dcsrPrv' = M
  /\ disable' = {}
  /\ exception' = NoException

ResetAssert ==
  /\ ResetConnected
  /\ ~resetNet
  /\ resetNet' = TRUE
  /\ disable' = disable \cup {"RESET"}
  /\ UNCHANGED <<mode, ie, pie, mpp, spp, mie, mip, pendEnab, reservation,
                 dm, dcsrPrv, nmi, deferint, haltreq, resethaltreq,
                 resethaltreqS, traps, exception, dmEntry, clicVars>>

\* resetCLIC: cliccfgW(0) when the CLIC is present
ResetCLIC(cs) == IF ClicPresent THEN CfgWrite(cs, 0, 0).cs ELSE cs

\* fault model: riscvReset without re-arbitration after the CSR reset
ResetReleaseNoRefresh ==
  /\ resetNet
  /\ resetNet' = FALSE
  /\ ResetCSRs
  /\ clic' = ResetCLIC(clic)
  /\ resethaltreqS' = resethaltreq
  /\ UNCHANGED <<pendEnab, clicSel, mip, reservation, nmi, deferint, haltreq,
                 resethaltreq, traps, dmEntry>>

ResetRelease ==
  /\ resetNet
  /\ resetNet' = FALSE
  /\ ResetCSRs
  /\ clic' = ResetCLIC(clic)
  /\ SetSelection(Refresh(M, ie', mip, {}, NoLevels, clic'))
  /\ resethaltreqS' = resethaltreq
  /\ UNCHANGED <<mip, reservation, nmi, deferint, haltreq, resethaltreq,
                 traps, dmEntry>>

\* resethaltreqPortCB: the level is latched, sampled at the next reset
SetResethaltreq(v) ==
  /\ ResetConnected /\ DebugKind # "NONE"
  /\ v # resethaltreq
  /\ resethaltreq' = v
  /\ UNCHANGED <<disable, nmi, deferint, haltreq, resetNet, resethaltreqS>>
  /\ UNCHANGED HartOnly

----------------------------------------------------------------------------
(***************************************************************************)
(* The hart starts as riscvNewCLIC and riscvReset leave it, with the nets  *)
(* low and nothing selected.                                               *)
(***************************************************************************)
Init ==
  /\ ResetState
  /\ clic = ClicInit
  /\ pendEnab = NoPE /\ clicSel = NoClicSel
  /\ mip = {}
  /\ reservation = FALSE
  /\ nmi = FALSE /\ deferint = FALSE /\ haltreq = FALSE
  /\ resetNet = FALSE /\ resethaltreq = FALSE /\ resethaltreqS = FALSE
  /\ traps = FALSE
  /\ dmEntry = M

\* the hart's own steps: the fetch gate and the instruction it admits
HartStep ==
  \/ FetchResethaltreq
  \/ /\ \/ FetchHaltreq \/ FetchInterrupt \/ FetchAccessFault
        \/ Ecall \/ Illegal \/ Ebreak \/ MRET \/ SRET \/ URET \/ DRET \/ WFI
        \/ \E exc \in MemoryFaults : MemoryException(exc)
        \/ \E x \in Modes, v \in BOOLEAN : CsrWriteIE(x, v)
        \/ \E i \in Ints, v \in BOOLEAN : CsrWriteMIE(i, v)
        \/ \E m, sp \in Modes : CsrWritePP(m, sp)
        \/ LoadReserved
     /\ UNCHANGED rstVars

\* the net-input callbacks, the debug module and the CLIC's bus port
Environment ==
  \/ /\ \/ \E i \in Ints, v \in BOOLEAN : SetInterruptLine(i, v)
        \/ \E v \in BOOLEAN : SetNMI(v) \/ SetDeferint(v) \/ SetHaltreq(v)
                              \/ SetDM(v)
        \/ SCInvalid
        \/ \E i \in Ints, page \in Implemented : ClicFieldWrite(i, page)
        \/ \E nm \in NmWrites, nl \in NlWrites : ClicCfgWrite(nm, nl)
     /\ UNCHANGED rstVars
  \/ ResetAssert \/ ResetRelease
  \/ \E v \in BOOLEAN : SetResethaltreq(v)

Next == HartStep \/ Environment

(***************************************************************************)
(* The simulator runs the fetch gate before every instruction of a hart    *)
(* that is not halted, so a continuously admitted interrupt, and a halt    *)
(* request latched at a running hart, are eventually acted on.  The        *)
(* environment (nets, debug module, bus) owes the hart nothing.            *)
(***************************************************************************)
Spec ==
  Init /\ [][Next]_vars /\ WF_vars(FetchInterrupt) /\ WF_vars(FetchHaltreq)

----------------------------------------------------------------------------
TypeOK ==
  /\ mode \in Implemented /\ dcsrPrv \in Implemented
  /\ ie \in [Modes -> BOOLEAN] /\ pie \in [Modes -> BOOLEAN]
  /\ mpp \in Implemented /\ spp \in SPPValues
  /\ mie \subseteq Ints /\ mip \subseteq Ints
  /\ pendEnab \in [id : Ints \cup {NoInt}, priv : Modes, level : 0..255,
                   isCLIC : BOOLEAN]
  /\ clicSel \in [id : Ints \cup {NoInt}, shv : BOOLEAN]
  /\ il \in [Modes -> 0..255] /\ pil \in [Modes -> 0..255]
  /\ disable \subseteq {"WFI", "DEBUG", "RESET"}
  /\ {reservation, dm, nmi, deferint, haltreq, resetNet, resethaltreq,
      resethaltreqS, traps} \subseteq BOOLEAN
  /\ dmEntry \in Implemented

(***************************************************************************)
(* The architectural rules the delivered interrupt must obey.  Basic (spec *)
(* 4.D): pending in mip and mie, target mode (by mideleg, sideleg) not in  *)
(* CLIC mode, above the current mode or equal to it with xIE set, and no   *)
(* enabled interrupt of a higher target mode or, in the same mode, of a    *)
(* higher fixed priority.  CLIC (spec 4.C): the rank winner of ip & ie,    *)
(* presented if its mode is not below the basic winner's nor the current   *)
(* mode, its mode is in CLIC mode with xIE set, and it is above the        *)
(* current mode or its level exceeds mintstatus.xil and xintthresh.        *)
(***************************************************************************)
TargetMode(i) ==
  IF i \notin MIDELEG THEN M ELSE IF i \notin SIDELEG THEN S ELSE U

ArchEnabled(i) ==
  /\ i \in MipCSR(mip) \cap mie
  /\ TargetMode(i) \notin UseCLIC
  /\ \/ mode < TargetMode(i)
     \/ mode = TargetMode(i) /\ ie[mode]

ArchWinner(i) ==
  /\ ArchEnabled(i)
  /\ \A j \in Ints : ArchEnabled(j) =>
        \/ TargetMode(j) < TargetMode(i)
        \/ TargetMode(j) = TargetMode(i) /\ IntPri(j) <= IntPri(i)

ArchClicWinner(i) ==
  LET x   == IntMode(clic, i)
      lvl == Level(clic, i)
  IN  /\ ClicPresent
      /\ i \in RankWinners(clic)
      /\ \A j \in Ints : ArchWinner(j) => TargetMode(j) <= x
      /\ mode <= x /\ x \in UseCLIC /\ ie[x]
      /\ mode < x \/ (lvl > il[x] /\ lvl > Thresh[x])

(***************************************************************************)
(* Whenever the fetch gate would take the interrupt recorded in pendEnab   *)
(* (doInterrupt), that interrupt is a winner of the architectural rule     *)
(* now, and the mode and level riscvTakeException will use are its target  *)
(* mode and level; a basic interrupt is taken only when no CLIC interrupt  *)
(* is presented.  pendEnab is only recomputed by riscvTestInterrupt, so    *)
(* every path that changes the mode, an enable, a level, the CLIC state or *)
(* a pending bit must have refreshed it.                                   *)
(***************************************************************************)
DeliveredInterruptIsArchWinner ==
  NoHalt /\ PendingAndEnabled =>
    LET i == pendEnab.id
    IN  IF pendEnab.isCLIC
        THEN /\ ArchClicWinner(i)
             /\ pendEnab.priv = IntMode(clic, i)
             /\ pendEnab.level = Level(clic, i)
        ELSE /\ ArchWinner(i)
             /\ pendEnab.priv = TargetMode(i)
             /\ ~\E j \in Ints : ArchClicWinner(j)

(***************************************************************************)
(* Outside Debug mode the cached selection pendEnab, and the CLIC          *)
(* candidate clic.sel, are what refreshPendingAndEnabled would compute     *)
(* from the current CSRs, mode, levels and CLIC state (pendEnab in full    *)
(* when it names an interrupt): no handler that changes them leaves the    *)
(* cache stale.                                                            *)
(***************************************************************************)
PendEnabFresh ==
  ~dm =>
    LET fresh == Refresh(mode, ie, mip, mie, il, clic)
    IN  /\ pendEnab.id = fresh.pe.id
        /\ pendEnab.id # NoInt => pendEnab = fresh.pe
        /\ clicSel = fresh.sel

(***************************************************************************)
(* A hart halted in WFI has no interrupt pending, masked or not (spec 5, *)
(* suspension points): none in mip & mie and, with the CLIC, none with   *)
(* clicintip and clicintie both set.  Every path that raises a pending    *)
(* bit or an enable restarts it (riscvTestInterrupt), and WFI does not     *)
(* halt when one is already pending.                                       *)
(***************************************************************************)
WFINoLostWakeup ==
  "WFI" \in disable =>
    /\ ~PendingBasic(MipCSR(mip), mie)
    /\ ClicPresent => clic.ip \cap clic.ie = {}

(***************************************************************************)
(* A trap (riscvTakeException outside Debug mode, or an NMI) never lowers  *)
(* the privilege mode: getModeX raises a delegated target to the current   *)
(* mode, and a CLIC interrupt's pendEnab.priv is never below it when the   *)
(* gate takes it.                                                          *)
(***************************************************************************)
TrapNeverLowersPrivilege ==
  [][traps' # traps => mode' >= mode]_vars

(***************************************************************************)
(* Debug mode is transparent: no trap is taken while in it (exceptions     *)
(* re-enter Debug mode, interrupts and NMIs are held off), and leaving it  *)
(* returns to the mode the hart was in when it first entered, however many *)
(* nested entries (cause NONE, EBREAK, HALTREQ) happened meanwhile.        *)
(***************************************************************************)
DebugModeTransparent ==
  [][/\ dm => traps' = traps
     /\ dm /\ ~dm' /\ resetNet = resetNet' => mode' = dmEntry]_vars

(***************************************************************************)
(* An interrupt that stays selectable (enabled by the current CSRs, no     *)
(* Debug mode, no halt, no deferint) is eventually taken or disabled:      *)
(* every handler that enables one must refresh pendEnab, or the hart runs  *)
(* on with the interrupt pending forever.                                  *)
(***************************************************************************)
Selectable ==
  /\ NoHalt /\ ~haltreq /\ ~dm /\ ~deferint
  /\ Refresh(mode, ie, mip, mie, il, clic).pe.id # NoInt

InterruptEventuallyTaken == Selectable ~> ~Selectable

(***************************************************************************)
(* A debugger's halt request reaching a running hart outside Debug mode is *)
(* honoured: the hart enters Debug mode unless the request is withdrawn or *)
(* the hart is reset.  The fetch gate checks haltreq before interrupts and *)
(* before WFI can execute, so the hart cannot go to sleep past it.         *)
(***************************************************************************)
HaltreqHonoured ==
  (haltreq /\ ~dm /\ Running) ~> (dm \/ ~haltreq \/ resetNet)

(***************************************************************************)
(* A change of an interrupt line reaches a level-triggered CLIC interrupt  *)
(* as its pending bit: the line's value, inverted when clicintattr.trig    *)
(* selects active-low (updateCLICInput, "handle active low inputs").       *)
(***************************************************************************)
ClicLevelInputFollowsLine ==
  [][\A i \in Ints :
       /\ ClicPresent
       /\ (i \in mip) # (i \in mip')
       /\ clic.attr[i].trig % 2 = 0
       => ((i \in clic'.ip) = ((i \in mip') # (clic.attr[i].trig >= 2)))]_vars


----------------------------------------------------------------------------
(***************************************************************************)
(* Refinement of the privilege stack.  The program's privilege is the mode *)
(* it runs at, or, in Debug mode, dcsr.prv, the mode it will resume in:    *)
(* Debug-mode entries and exits are then invisible steps.                  *)
(***************************************************************************)
ProgramMode == IF dm THEN dcsrPrv ELSE mode

PS == INSTANCE PrivStack WITH mode <- ProgramMode

(***************************************************************************)
(* Every step of the hart is a step of the privilege stack or leaves it    *)
(* alone: riscvTakeException (including the nested fault of an SHV vector *)
(* read), doNMI, the xRETs, the mstatus writes and riscvReset push, pop,   *)
(* write or reset xIE/xPIE/xPP and the mode exactly as the contract says,  *)
(* and enterDM, leaveDM, riscvDRET and the halts change none of it.        *)
(***************************************************************************)
PrivStackRefined == PS!Spec

=============================================================================
