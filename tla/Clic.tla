-------------------------------- MODULE Clic --------------------------------
(***************************************************************************)
(* The CLIC of riscvExceptions.c: the per-interrupt state of one hart      *)
(* (clicintip, clicintie, clicintattr, clicintctl and the ipe[] mask), the *)
(* cliccfg register of the cluster root, the writes through the memory     *)
(* window, the input nets, the acknowledge of an SHV interrupt, target-    *)
(* mode decoding and the rank scan of refreshPendingAndEnabledCLIC.        *)
(*                                                                         *)
(* The state is one record cs = [ip, ie, ipe, attr, ctl, cfg]; every       *)
(* handler is an operator from the old record to [cs, test], test telling  *)
(* whether the code calls riscvTestInterrupt afterwards.  The hart module  *)
(* applies them to its variable.                                           *)
(***************************************************************************)
EXTENDS BasicArbiter

CONSTANTS
  Ints,           \* implemented interrupt ids, each with a CLIC entry
  HasN,           \* arch has the N extension
  CLICCFGMBITS,   \* configInfo.CLICCFGMBITS: 0 (M), 1 (M/U) or 2 (M/S/U)
  CLICINTCTLBITS, \* configInfo.CLICINTCTLBITS: implemented clicintctl bits
  CLICSELHVEC,    \* configInfo.CLICSELHVEC: cliccfg.nvbits, SHV implemented
  UseCLIC,        \* modes whose xtvec selects CLIC mode (useCLICM/S/U)
  Thresh,         \* xintthresh.th per mode
  CtlWrites,      \* values written to clicintctl
  NmWrites,       \* nmbits values written to cliccfg
  NlWrites,       \* nlbits values written to cliccfg
  TrigWrites,     \* values written to clicintattr.trig
  ModeWrites      \* values written to clicintattr.mode

ASSUME /\ CLICCFGMBITS \in 0..2 /\ CLICINTCTLBITS \in 0..8
       /\ UseCLIC \subseteq Modes /\ Thresh \in [Modes -> 0..255]

\* RISCV_MODE_HYPERVISOR: never implemented here
H == 2

\* (v & ~m) | m for m = 2^k - 1: v with its k low bits forced to one
SetLowBits(v, k) == (v \div 2^k) * 2^k + (2^k - 1)

\* getCLICIntCtl1Bits: the unimplemented low bits of clicintctl read as one
IntCtl1Bits == SetLowBits(0, 8 - CLICINTCTLBITS)

\* riscvNewCLIC: attr.mode M, ctl with the always-one bits; cliccfg as
\* resetCLIC leaves it
ClicInit ==
  [ip   |-> {}, ie |-> {}, ipe |-> {},
   attr |-> [i \in Ints |-> [mode |-> M, shv |-> FALSE, trig |-> 0]],
   ctl  |-> [i \in Ints |-> IntCtl1Bits],
   cfg  |-> [nmbits |-> 0, nlbits |-> 0]]

(***************************************************************************)
(* getCLICInterruptMode: the target mode of interrupt i decoded from its   *)
(* attr.mode through cliccfg.nmbits and CLICCFGMBITS.                      *)
(***************************************************************************)
IntMode(cs, i) ==
  LET a  == cs.attr[i].mode
      nm == cs.cfg.nmbits
  IN  IF nm = 0 THEN M
      ELSE IF CLICCFGMBITS = 1 THEN IF a \in {2, 3} THEN M ELSE U
      \* attr_mode | (nmbits==1)
      ELSE IF nm = 1 /\ a % 2 = 0 THEN a + 1 ELSE a

\* accessCLICInterrupt: visible through the page of mode page
Access(cs, i, page) == IntMode(cs, i) <= page

\* the level of the interrupt: clicintctl with the bits below nlbits set
Level(cs, i) == SetLowBits(cs.ctl[i], 8 - cs.cfg.nlbits)

NoTest(cs) == [cs |-> cs, test |-> FALSE]

\* writeCLICInterruptPending: ipe[] follows ip & ie, and a change of it
\* re-arbitrates (updateCLICPendingEnable)
WriteIP(cs, i, v) ==
  LET newIPE == v /\ i \in cs.ie
  IN  [cs   |-> [cs EXCEPT !.ip  = IF v THEN @ \cup {i} ELSE @ \ {i},
                           !.ipe = IF newIPE THEN @ \cup {i} ELSE @ \ {i}],
       test |-> (i \in cs.ipe) # newIPE]

\* writeCLICInterruptEnable, symmetric
WriteIE(cs, i, v) ==
  LET newIPE == v /\ i \in cs.ip
  IN  [cs   |-> [cs EXCEPT !.ie  = IF v THEN @ \cup {i} ELSE @ \ {i},
                           !.ipe = IF newIPE THEN @ \cup {i} ELSE @ \ {i}],
       test |-> (i \in cs.ipe) # newIPE]

\* updateCLICInterruptField: store and re-arbitrate only on a change
UpdateField(cs, field, i, v) ==
  IF cs[field][i] = v THEN NoTest(cs)
  ELSE [cs |-> [cs EXCEPT ![field][i] = v], test |-> TRUE]

\* fault model: writeCLICInterruptAttr without the refusal of H
WriteAttrNoH(cs, i, m, shv, trig, page) ==
  LET mode == IF \/ m > page
                 \/ CLICCFGMBITS = 0
                 \/ CLICCFGMBITS < 2 /\ m = S
                 \/ m = U /\ ~HasN
              THEN page ELSE m
  IN  UpdateField(cs, "attr", i,
                  [mode |-> mode, shv |-> shv /\ CLICSELHVEC, trig |-> trig])

(***************************************************************************)
(* writeCLICInterruptAttr: shv is dropped without SHV, and an illegal mode *)
(* (above the page, any change when CLICCFGMBITS is 0, H, S without S      *)
(* support, U without N) is replaced by the page's mode.                   *)
(***************************************************************************)
WriteAttr(cs, i, m, shv, trig, page) ==
  LET mode == IF \/ m > page
                 \/ CLICCFGMBITS = 0
                 \/ m = H
                 \/ CLICCFGMBITS < 2 /\ m = S
                 \/ m = U /\ ~HasN
              THEN page ELSE m
  IN  UpdateField(cs, "attr", i,
                  [mode |-> mode, shv |-> shv /\ CLICSELHVEC, trig |-> trig])

\* writeCLICInterruptCtl: the always-one bits are ORed in
WriteCtl(cs, i, v) ==
  UpdateField(cs, "ctl", i, SetLowBits(v, 8 - CLICINTCTLBITS))

\* writeCLICInterrupt: a write through a page that cannot see the
\* interrupt is dropped
WriteInterrupt(cs, i, page, w) == IF Access(cs, i, page) THEN w ELSE NoTest(cs)

\* the writes of field f (getCLICIntFieldType: 0 clicintip, 1 clicintie,
\* 2 clicintattr, 3 clicintctl) of interrupt i through the page of mode
\* page (writeCLICInterrupt), each a [cs, test] result
FieldWrite(cs, i, page, f) ==
  LET W(r) == WriteInterrupt(cs, i, page, r)
  IN  CASE f = 0 -> {W(WriteIP(cs, i, v)) : v \in BOOLEAN}
        [] f = 1 -> {W(WriteIE(cs, i, v)) : v \in BOOLEAN}
        [] f = 2 -> {W(WriteAttr(cs, i, m, shv, t, page)) :
                       m \in ModeWrites, shv \in BOOLEAN, t \in TrigWrites}
        [] f = 3 -> {W(WriteCtl(cs, i, v)) : v \in CtlWrites}

\* the writes of any field of interrupt i through the page of mode page
FieldWrites(cs, i, page) == UNION {FieldWrite(cs, i, page, f) : f \in 0..3}

(***************************************************************************)
(* The byte offset into the CLIC window, decoded.  Page 0 is the control   *)
(* page; the interrupt pages come in blocks of four 4 KiB pages (4096      *)
(* interrupts of four bytes), block b serving page type b \div nHarts      *)
(* (M, S, U) of hart b % nHarts.                                           *)
(***************************************************************************)
\* getCLICPage
ClicPage(off) == off \div 4096

\* fault model: get4kIntPage without the control page subtracted
IntPage4kNoBase(page) == page \div 4

\* get4kIntPage: the block of an interrupt page
IntPage4k(page) == (page - 1) \div 4

\* getCLICPageType and getCLICPageMode, for an interrupt page
PageMode(off, nHarts) == <<M, S, U>>[IntPage4k(ClicPage(off)) \div nHarts + 1]

\* getCLICHartIndex: the index into root->clic.harts
HartIndex(off, nHarts) == IntPage4k(ClicPage(off)) % nHarts

\* getCLICIntIndex
IntIndex(off) == ((off - 4096) \div 4) % 4096

\* getCLICIntFieldType (getCLICWordByte)
FieldType(off) == off % 4

\* fault model: cliccfgW without the refresh of the harts
CfgWriteNoTest(cs, nm, nl) ==
  LET cfg == [nmbits |-> IF nm > CLICCFGMBITS THEN CLICCFGMBITS ELSE nm,
              nlbits |-> IF nl > 8 THEN 8 ELSE nl]
  IN  NoTest([cs EXCEPT !.cfg = cfg])

\* fault model: PRESENT_INT_CLIC without the level comparisons
PresentIntClicNoLevel(x, lvl, md, ieV, ilV) == x \in UseCLIC /\ ieV[x]

\* cliccfgW: nmbits and nlbits clamped; a change re-arbitrates every hart
CfgWrite(cs, nm, nl) ==
  LET cfg == [nmbits |-> IF nm > CLICCFGMBITS THEN CLICCFGMBITS ELSE nm,
              nlbits |-> IF nl > 8 THEN 8 ELSE nl]
  IN  IF cfg = cs.cfg THEN NoTest(cs)
      ELSE [cs |-> [cs EXCEPT !.cfg = cfg], test |-> TRUE]

(***************************************************************************)
(* updateCLICInput.  activeLow is the Bool trig&2, which holds 2, not 1,   *)
(* when set: Bool is an integer type, not C99 _Bool.  newValue ^= activeLow *)
(* therefore gives 2 or 3 (the sum, the bits being disjoint), and the      *)
(* pending bit written is newValue&1.                                      *)
(***************************************************************************)
UpdateInput(cs, i, v) ==
  LET trig      == cs.attr[i].trig
      isEdge    == trig % 2 = 1
      activeLow == IF trig >= 2 THEN 2 ELSE 0
      newValue  == (IF v THEN 1 ELSE 0) + activeLow
  IN  IF ~isEdge \/ newValue # 0 THEN WriteIP(cs, i, newValue % 2 = 1)
      ELSE NoTest(cs)

\* fault model: the restore without refreshCLICIPE
RefreshCLICIPEKeep(cs) == cs

\* refreshCLICIPE: ipe[] rebuilt from the pending and enable bits
RefreshCLICIPE(cs) == [cs EXCEPT !.ipe = cs.ip \cap cs.ie]

\* the CLIC part of riscvNetRestore: cliccfg and intState (ip, ie, attr,
\* ctl of every interrupt) from the checkpoint cp, then refreshCLICIPE;
\* ipe[] is not saved
NetRestoreClic(cs, cp) ==
  RefreshCLICIPE([cs EXCEPT !.ip = cp.ip, !.ie = cp.ie, !.attr = cp.attr,
                            !.ctl = cp.ctl, !.cfg = cp.cfg])

(***************************************************************************)
(* refreshPendingAndEnabledCLIC, scan: over the ipe[] bits from the lowest *)
(* the rank (mode<<8)|clicintctl replaces the best one when maxRank <=     *)
(* rank, so the highest id wins a tie.                                     *)
(***************************************************************************)
Rank(cs, i) == IntMode(cs, i) * 256 + cs.ctl[i]

\* fault model: the scan keeps the lower id on a tie (maxRank < rank)
ReplacesRankStrict(best, rank) == best.rank < rank

ReplacesRank(best, rank) == best.rank <= rank

RECURSIVE ScanClic(_, _, _)
ScanClic(cs, pe, best) ==
  IF pe = {} THEN best.id
  ELSE LET id == Min(pe)
       IN  ScanClic(cs, pe \ {id},
                    IF ReplacesRank(best, Rank(cs, id))
                    THEN [rank |-> Rank(cs, id), id |-> id] ELSE best)

SelectClic(cs) == ScanClic(cs, cs.ipe, [rank |-> 0, id |-> NoInt])

\* the selection rule of spec 4.C: the pending-and-enabled interrupts of
\* largest rank, the highest id among them
RankWinners(cs) ==
  LET pe == cs.ip \cap cs.ie
  IN  {i \in pe : \A j \in pe :
         Rank(cs, j) < Rank(cs, i) \/ (Rank(cs, j) = Rank(cs, i) /\ j <= i)}

\* PRESENT_INT_CLIC for target mode x at level lvl from mode md
PresentIntClic(x, lvl, md, ieV, ilV) ==
  /\ x \in UseCLIC
  /\ ieV[x]
  /\ md < x \/ (lvl > ilV[x] /\ lvl > Thresh[x])

\* clic.sel and, when presented, the pendEnab the CLIC overrides:
\* the basic candidate wins when its mode is higher, and nothing is
\* presented below the current mode
RefreshClic(cs, md, ieV, ilV, basic) ==
  LET id == SelectClic(cs)
  IN  IF id = NoInt
      THEN [sel |-> [id |-> NoInt, shv |-> FALSE], pe |-> basic]
      ELSE LET priv == IntMode(cs, id)
               lvl  == Level(cs, id)
               enable == /\ ~(basic.priv > priv)
                         /\ ~(md > priv)
                         /\ PresentIntClic(priv, lvl, md, ieV, ilV)
           IN  [sel |-> [id |-> id, shv |-> cs.attr[id].shv],
                pe  |-> IF enable
                        THEN [id |-> id, priv |-> priv, level |-> lvl,
                              isCLIC |-> TRUE]
                        ELSE basic]

=============================================================================
