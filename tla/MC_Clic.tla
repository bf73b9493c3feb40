------------------------------- MODULE MC_Clic -------------------------------
(***************************************************************************)
(* The CLIC of a cluster of harts on its own: every sequence of writes     *)
(* through the memory window (any page of any hart, any field), of writes  *)
(* of the one cliccfg the harts share (it lives in the SMP root), and of   *)
(* input changes.  sel is each hart's cached CLIC selection (clic.sel, set *)
(* when riscvTestInterrupt runs refreshPendingAndEnabledCLIC).  Each state *)
(* is checked for a legal target mode per interrupt, the rank scan against *)
(* the selection rule, and the freshness of every hart's selection.        *)
(***************************************************************************)
EXTENDS Clic

CONSTANTS
  Implemented,  \* implemented privilege modes
  Harts,        \* the leaf harts of the cluster
  Checkpoints   \* CLIC states saved by riscvNetSave, one for all harts

\* the harts are interchangeable: Next writes through every offset, so
\* whichever hart root->clic.harts lists first, the writes to each hart
\* are the same set
HartSymmetry == Permutations(Harts)

NumHarts == Cardinality(Harts)

\* root->clic.harts: the leaf harts by index
HartAt == CHOOSE f \in [0..NumHarts-1 -> Harts] : \A h \in Harts : \E k \in DOMAIN f : f[k] = h

\* the window layout of spec 4.C: after the control page, a {M, S, U} x hart
\* matrix of four 4 KiB pages each, interrupt i at bytes 4i..4i+3 of them
\* as ip, ie, attr, ctl
SpecOffset(t, k, i, f) == 4096 + (t * NumHarts + k) * 16384 + 4 * i + f

\* the offsets the program writes: cliccfg and every field of every
\* implemented interrupt through every page
WindowOffsets ==
  {0} \cup {SpecOffset(t, k, i, f) : t \in 0..2, k \in 0..NumHarts-1,
                                     i \in Ints, f \in 0..3}

\* checkpoints of a platform whose harts were programmed alike: nothing or
\* everything pending, everything enabled, every interrupt targeting U or
\* M, nmbits 0 or 2.  Each is reachable by writes through the M pages.
MCCheckpoints ==
  {[ip |-> P, ie |-> Ints, ctl |-> [i \in Ints |-> IntCtl1Bits],
    attr |-> [i \in Ints |-> [mode |-> md, shv |-> FALSE, trig |-> 0]],
    cfg |-> [nmbits |-> nm, nlbits |-> 0]] :
     P \in {{}, Ints}, md \in {U, M}, nm \in {0, 2}}

\* xintthresh.th of every mode
MCThresh == [x \in Modes |-> 0]

VARIABLES
  clic,   \* per hart: its interrupt state, and a copy of the root's cliccfg
  sel     \* per hart: the id of hart->clic.sel

vars == <<clic, sel>>

Init ==
  /\ clic = [h \in Harts |-> ClicInit]
  /\ sel  = [h \in Harts |-> NoInt]

\* riscvTestInterrupt on hart h, whose CLIC state is now cs: the scan of
\* refreshPendingAndEnabledCLIC stores the selection
TestHart(h, cs) == sel' = [sel EXCEPT ![h] = SelectClic(cs)]

\* fault model: cliccfgW stores the value and refreshes no hart
RefreshCCLICInterruptNone(c) == sel' = sel

\* refreshCCLICInterruptAll: riscvTestInterrupt on every leaf hart
RefreshCCLICInterruptAll(c) == sel' = [h \in Harts |-> SelectClic(c[h])]

\* a write of one field through a page of hart h (writeCLICInterrupt):
\* the handler re-arbitrates that hart when it reports a change
HartWrite(h, r) ==
  /\ clic' = [clic EXCEPT ![h] = r.cs]
  /\ IF r.test THEN TestHart(h, r.cs) ELSE UNCHANGED sel

\* cliccfgW on the root: the new value is seen by every hart, and a change
\* re-arbitrates all of them
RootCfgWrite(nm, nl) ==
  LET r == [h \in Harts |-> CfgWrite(clic[h], nm, nl)]
  IN  /\ clic' = [h \in Harts |-> r[h].cs]
      /\ IF \E h \in Harts : r[h].test
         THEN RefreshCCLICInterruptAll(clic') ELSE UNCHANGED sel

\* writeCLICInt: a byte store at offset off of the window, to a field of
\* an interrupt page or to cliccfg (the other control bytes are read-only)
WindowWrite(off) ==
  IF ClicPage(off) # 0
  THEN LET h == HartAt[HartIndex(off, NumHarts)]
       IN  \E r \in FieldWrite(clic[h], IntIndex(off), PageMode(off, NumHarts),
                               FieldType(off)) :
             HartWrite(h, r)
  ELSE /\ off = 0
       /\ \E nm \in NmWrites, nl \in NlWrites : RootCfgWrite(nm, nl)

(***************************************************************************)
(* A restore of the platform from a checkpoint: riscvNetRestore runs on    *)
(* every hart before the simulation resumes, each restoring the root's     *)
(* cliccfg and its own intState, rebuilding ipe[] and calling              *)
(* riscvTestInterrupt for itself.  The harts restore the same cliccfg, so  *)
(* the order in which they run does not matter.                            *)
(***************************************************************************)
PlatformRestore(cp) ==
  /\ clic' = [h \in Harts |-> NetRestoreClic(clic[h], cp)]
  /\ sel'  = [h \in Harts |-> SelectClic(clic'[h])]

Next ==
  \/ \E off \in WindowOffsets : WindowWrite(off)
  \/ \E cp \in Checkpoints : PlatformRestore(cp)
  \/ \E h \in Harts, i \in Ints, v \in BOOLEAN : HartWrite(h, UpdateInput(clic[h], i, v))

Spec == Init /\ [][Next]_vars

TypeOK ==
  /\ \A h \in Harts :
       /\ clic[h].ip \subseteq Ints /\ clic[h].ie \subseteq Ints
       /\ clic[h].attr \in [Ints -> [mode : 0..3, shv : BOOLEAN, trig : 0..3]]
       /\ clic[h].ctl \in [Ints -> 0..255]
  /\ sel \in [Harts -> Ints \cup {NoInt}]

(***************************************************************************)
(* Whatever sequence of attr writes (through any page) and cliccfg writes  *)
(* reaches, every interrupt decodes to an implemented mode, never H, and   *)
(* to U only with the N extension: writeCLICInterruptAttr's clamp and the  *)
(* nmbits clamp of cliccfgW keep getCLICInterruptMode legal.               *)
(***************************************************************************)
ClicModeLegal ==
  \A h \in Harts, i \in Ints :
    LET x == IntMode(clic[h], i)
    IN  x \in Implemented /\ (x = U => HasN)

(***************************************************************************)
(* The spec's arbitration (4.C): among the pending-and-enabled interrupts  *)
(* the one of largest rank (mode<<8)|ctl, the highest id on a tie, is      *)
(* clic.sel; the scan's result agrees, and the ipe[] mask it scans is      *)
(* ip & ie.                                                                *)
(***************************************************************************)
ClicScanSelectsRankWinner ==
  \A h \in Harts :
    LET pe == clic[h].ip \cap clic[h].ie
    IN  /\ clic[h].ipe = pe
        /\ IF pe = {} THEN SelectClic(clic[h]) = NoInt
           ELSE {SelectClic(clic[h])} = RankWinners(clic[h])

(***************************************************************************)
(* Spec section 5: a cliccfg write re-arbitrates every leaf hart.  Every   *)
(* hart's cached selection is what the scan of its CLIC state gives now,   *)
(* whichever hart's page, the root's cliccfg or an input last changed it:  *)
(* nmbits decides each interrupt's mode and so the ranks of every hart.    *)
(***************************************************************************)
ClicSelFresh == \A h \in Harts : sel[h] = SelectClic(clic[h])

\* the ids whose offsets are decoded against the layout: the implemented
\* ones and the first and last of a block
LayoutIds == Ints \cup {0, 4095}

(***************************************************************************)
(* The decoding of a window offset by getCLICPage, get4kIntPage,           *)
(* getCLICPageType/Mode, getCLICHartIndex, getCLICIntIndex and             *)
(* getCLICIntFieldType inverts the layout of spec 4.C: every byte of every *)
(* page type, hart and interrupt is decoded to that page's mode, that      *)
(* hart, that interrupt and that field.  The writes of Next go through     *)
(* the decoding, so a wrong one writes another hart's or mode's register.  *)
(***************************************************************************)
ClicWindowLayout ==
  \A h \in DOMAIN clic, t \in 0..2, i \in LayoutIds, f \in 0..3 :
    \E k \in 0..NumHarts-1 :
      LET off == SpecOffset(t, k, i, f)
      IN  /\ HartAt[k] = h
          /\ ClicPage(off) # 0
          /\ PageMode(off, NumHarts) = <<M, S, U>>[t + 1]
          /\ HartAt[HartIndex(off, NumHarts)] = h
          /\ IntIndex(off) = i
          /\ FieldType(off) = f

=============================================================================
