------------------------------- MODULE MC_Hart -------------------------------
(***************************************************************************)
(* Model-checking instance of Hart: the .cfg files give the constants (the *)
(* interrupts, delegation CSRs, implemented modes and the configuration    *)
(* options) and choose which nets the environment drives.                  *)
(***************************************************************************)
EXTENDS Hart

\* xintthresh.th of every mode at its reset value
NoThresh == [x \in Modes |-> 0]

\* mintthresh.th set by the program to 127, the lower of the two levels
\* of clic_levels, so that the threshold alone holds some interrupts off
MThresh127 == [x \in Modes |-> IF x = M THEN 127 ELSE 0]

\* the state without the history variable exception, which no action reads:
\* runs whose properties do not mention it explore this view
NoExceptionView ==
  <<mode, ie, pie, mpp, spp, mie, mip, pendEnab, reservation, dm, dcsrPrv,
    disable, nmi, deferint, haltreq, resetNet, resethaltreq, resethaltreqS,
    clic, clicSel, il, pil, traps, dmEntry>>

\* without the basic controller riscv->ip only feeds the CLIC through the
\* line value itself, and the reservation only its own LR, SC_valid and
\* xRET updates: runs on a CLIC-only hart whose properties read neither
\* explore the state without them
ClicOnlyView ==
  <<mode, ie, pie, mpp, spp, mie, pendEnab, dm, dcsrPrv, disable, nmi,
    deferint, haltreq, resetNet, resethaltreq, resethaltreqS, clic, clicSel,
    il, pil, traps, dmEntry>>

=============================================================================
