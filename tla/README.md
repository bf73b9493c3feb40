# TLA+ models of the RISC-V trap, interrupt and Debug logic

These modules model `src/riscv-ovpsim/source/riscvExceptions.c`, the
exception, interrupt and Debug-mode engine of the RISC-V OVP simulator. It is
the only implementation file in `src/`. The CSR file it reads (`riscvCSR.c`)
is not in this repository, so the CSR writes the engine depends on are
modelled from `spec.md`.

## Parts of the system and how they interact

- **Pending sources.** Interrupt lines (`interruptPortCB` → `riscvUpdatePending`)
  set bits of `mip`. Every change re-arbitrates through `riscvTestInterrupt`.
- **Basic arbiter.** `refreshPendingAndEnabledBasic` masks `mie & mip` with the
  effective enables (`getIE`), then scans the bits. It keeps the interrupt with
  the highest target mode (`getModeX`), then the highest fixed priority
  (`getIntPri`). The result is cached in `riscv->pendEnab`.
- **Fetch gate.** `riscvIFetchExcept` runs before every instruction. In order,
  it checks `resethaltreqS`, then `haltreq` (enters Debug mode), then the
  *cached* `pendEnab` (unless the hart is in Debug mode or `deferint` is high),
  then the fetch address.
- **Trap engine.** `riscvTakeException` redirects to `enterDM` in Debug mode.
  Otherwise it computes the target mode, saves xIE into xPIE, clears xIE, sets
  MPP/SPP, clears the LR reservation and switches mode. `doNMI` is a separate,
  shorter trap into M.
- **Return engine.** MRET/SRET/URET restore xIE and the mode, then re-arbitrate
  through `doERETCommon`. DRET and `leaveDM` restore `dcsr.prv`.
- **Debug controller.** `enterDM`, `leaveDM` and `riscvSetDM`. Depending on
  `debug_mode`, entering Debug mode vectors the PC or halts the hart
  (`updateDMStall`). Nested entries keep the `dcsr.prv` recorded first.
- **WFI and halt.** `riscv->disable` is the set of reasons the hart is halted.
  A WFI halts unless an interrupt is pending, and `riscvTestInterrupt` wakes it.
- **Net inputs and reset.** NMI, haltreq, resethaltreq, deferint, SC_valid and
  reset ports change state asynchronously to the instruction stream.
- **CLIC.** With `CLICPresent`, every interrupt also has a CLIC entry (ip, ie,
  attr, ctl) and the cluster a `cliccfg`. The entries are written through a
  memory window whose pages are per mode (`writeCLIC` → `writeCLICInt` →
  `writeCLICInterrupt`), the inputs drive ip (`updateCLICInput`), and each
  change of ip&ie, a field or cliccfg calls `riscvTestInterrupt`.
  `refreshPendingAndEnabled` runs the basic scan first, then
  `refreshPendingAndEnabledCLIC`: the rank scan picks `clic.sel`, and the
  selection overrides `pendEnab` if it is presented (mode, level above
  `mintstatus.xil` and the threshold). `riscvTakeException` takes a CLIC
  interrupt to `pendEnab.priv` at `pendEnab.level`, and for an SHV interrupt
  acknowledges it (`riscvAcknowledgeCLICInt`) before reading the vector table;
  a faulting read is a load access fault that supersedes the interrupt
  (spec 7), so an acknowledged edge is consumed by design.
  xRETs restore `mintstatus.xil` from `xcause.pil`.

## Modules

| Module | Models |
|---|---|
| `BasicArbiter` | `getModeX`, `getIE`, `getIntPri`, `getPendingBasic` and the scan of `refreshPendingAndEnabledBasic`, as pure operators (`ScanBasic` is RECURSIVE). CSR bitmaps are sets of bit numbers. |
| `MC_BasicArbiter` | Checks `SelectBasic` against the architectural rule of spec section 4.D (`Winners`, `TargetMode`), over every input from small sets. The state never changes; `Init` enumerates the inputs. |
| `Hart` | One hart: the fetch gate, trap engine, return engine, Debug controller, WFI, the net ports and reset. There is one action per handler, and each action includes the `riscvTestInterrupt` call the handler makes (or does not make). |
| `Clic` | The CLIC of one hart as operators on a record `cs = [ip, ie, ipe, attr, ctl, cfg]`: each write handler maps the old record to `[cs, test]`, `test` telling whether the code calls `riscvTestInterrupt`. Also `getCLICInterruptMode` (`IntMode`), page visibility, the level, the RECURSIVE rank scan (`ScanClic`), `PRESENT_INT_CLIC` and the override of `pendEnab` (`RefreshClic`). |
| `MC_Clic` | The CLIC of a cluster of harts (`Harts`) sharing the root's cliccfg. Every step is a byte store at an offset of the CLIC window (`WindowWrite`, i.e. `writeCLICInt`), or an input change. The offset is decoded as the code does (`ClicPage`, `IntPage4k`, `PageMode`, `HartIndex`, `IntIndex`, `FieldType` in `Clic`) into a field of an interrupt of a hart (`HartWrite`) through that page's mode, or into cliccfg (`RootCfgWrite`, which re-arbitrates every hart through `RefreshCCLICInterruptAll`). `sel[h]` is hart h's cached `clic.sel`, set by `TestHart` when the handler calls `riscvTestInterrupt`. A platform restore (`PlatformRestore`) loads a checkpoint into cliccfg and every hart's intState, rebuilds ipe[] (`NetRestoreClic`, `RefreshCLICIPE`) and re-arbitrates every hart, as `riscvNetRestore` does on each hart. Multi-byte stores (`writeCLIC`) are loops of these byte stores with nothing in between, so their effect is a sequence of `WindowWrite` steps. |
| `PrivStack` | The abstract privilege-stack contract (spec sections 5 and 6): a trap to a mode at or above the current one pushes xIE into xPIE and the mode into xPP; a trap whose entry faults is two such pushes in one step; an xRET pops; an NMI only enters M; the program writes xIE and the WARL xPP fields; reset restores the initial stack. |
| `MC_Hart` | Instantiates `Hart`. The cfgs choose the delegation registers, implemented modes, connected nets, Debug flavour and which controllers are present (basic, CLIC or both). Two VIEWs are defined, explained below. |

### State of `Hart` and the code it stands for

`mode` is `riscv->mode`. `ie`, `pie`, `mpp`, `spp` are the mstatus fields. `mie` and `mip` are the CSRs, restricted to the ids in `Ints`. `pendEnab` is the cached `riscv->pendEnab` (id and priv). `reservation` is `exclusiveTag`. `dm` and `dcsrPrv` are `DM` and `dcsr.prv`. `disable` is `riscv->disable`. The net values are `nmi`, `deferint`, `haltreq`, `resetNet`, `resethaltreq` and `resethaltreqS`.

`clic` is the hart's CLIC state and the root's `cliccfg` (module `Clic`), `clicSel` is `clic.sel` (id and shv; its priv and level are only printed). `il` and `pil` are `mintstatus.xil` and `xcause.pil` per mode. `exception` is `riscv->exception`, which the nested fault of the vector read overwrites.

Two history variables support the action properties:
- `traps` flips on every trap.
- `dmEntry` records the mode in which the current Debug session started.

Two VIEWs shrink the state space where it is sound:
- `NoExceptionView` drops `exception`. No action reads it, so two states that differ only in it have the same successors; runs whose properties do not mention it explore the view.
- `ClicOnlyView` also drops `mip` and `reservation`, for a hart without the basic controller. There `mip` (riscv->ip) is only read through `MipCSR`, which is empty without the basic controller, and by the line callback, which takes the new line value itself; the reservation is read only by its own updates. Runs using this view check properties that read neither.

The data the properties do not distinguish is left out: the PC, xcause, xepc, xtval, the vector tables, MPRV and the instruction encodings.

The program is an unconstrained instruction stream. A running hart (`Running`, and not halted at the gate: `NoHalt`) may at any step:
- fetch from a faulting address;
- execute ECALL, an illegal instruction, EBREAK, MRET, SRET, URET, DRET, WFI or LR;
- fault on a data access (`MemoryException`, `riscvTakeMemoryException` called by the alignment, abort and device handlers with codes 4 to 7);
- write `mstatus.xIE`, `mie` or MPP/SPP.

The environment (`Environment`) may, at any time:
- change an interrupt line;
- raise or lower NMI, deferint, haltreq or resethaltreq;
- assert or release reset;
- invalidate the reservation;
- have the debugger enter or leave Debug mode.

Each of these is one action, modelled from the corresponding port callback.

### Undefined behaviour

`getModeX` shifts an `int` 1 by the exception code. For interrupt ids of 32
and above this is undefined. The constant `Wrap` (and `wrap` in
`MC_BasicArbiter`) chooses between the two results builds produce: the shift
count taken modulo 32, or zero.

## Runs

| Run | Expect | What it shows |
|---|---|---|
| `arbiter_basic` | pass | For six ids below 32 (every fixed-priority class and locals 16, 17), every mode, every enable, every pending set and every delegation of two ids, the scan picks the architectural winner (a tie of the two locals going to the higher id, as the `<=` at line 1499 intends) and records its target mode (786,432 input vectors). |
| `arbiter_wide_ids` | violation | With local ids 37 and 41, the 32-bit shift in `getModeX` reads bit 5 or 9, while the masking uses the 64-bit `mideleg`. The recorded target mode (and so the trap's mode) is wrong. |
| `hart_core` | pass | U/S/M hart with vectored Debug mode, the instruction stream, CSR writes, lines, debugger, reset and resethaltreq. Checks: `pendEnab` is fresh outside Debug mode (`PendEnabFresh`), also across reset; a delivered interrupt is the architectural winner (`DeliveredInterruptIsArchWinner`); WFI never sleeps with an interrupt pending; traps never lower privilege; Debug mode is transparent (reset is the one way out of it that does not return to `dcsr.prv`). 1,248,768 states. |
| `hart_nets` | pass | With NMI, deferint and haltreq connected, halting Debug mode, and the N extension with user interrupts delegated to U: WFI, traps and Debug mode still behave, a selectable interrupt is eventually taken, and a halt request reaching a running hart is eventually honoured. |
| `stale_deferint` | violation | deferint holds an M interrupt while the program traps into M. Releasing deferint delivers the stale selection with MIE clear. |
| `stale_nmi` | violation | After an S interrupt is selected in U, an NMI switches to M without re-arbitrating. The gate then takes the S interrupt in M, where it is disabled, and overwrites the NMI's mepc/mcause. |
| `mc_clic` | pass | Two harts share cliccfg; every store is a byte at an offset of the window. The decoding of every offset (implemented ids and ids 0 and 4095) inverts the page layout of spec 4.C (`ClicWindowLayout`). Every sequence of stores (any field, any page of either hart, out-of-range cliccfg values) and input changes keeps each interrupt's decoded mode implemented, never H, and U only with N; the scan's result is the rank winner of spec 4.C and `ipe` is `ip & ie`; and after a cliccfg write or a restore no hart keeps a stale `clic.sel` (`ClicSelFresh`); a restore rebuilds `ipe` (spec T7). 31,320 states, symmetry over the harts. |
| `clic_levels` | pass | An M-only CLIC hart (no basic controller) with levels (`nlbits` 0 or 8, ctl 0 or 128 over one implemented bit), edge and level triggers, SHV and vector reads that may fault. `pendEnab` and `clic.sel` stay fresh, a delivered interrupt is the rank winner and presented above `mintstatus.mil`, and WFI never sleeps while `clic.sel` has a candidate. `mintthresh` is 127, so the threshold holds level-127 interrupts off and only `mintstatus.mil` holds level-255 ones off. |
| `clic_modes` | pass | A U/M CLIC hart with N, where attr writes retarget interrupts between U and M (`nmbits` 0 or 1). The delivered interrupt's `priv` is its decoded mode, and a selectable interrupt is eventually taken. |
| `clic_stale_priv` | violation | A U-mode CLIC interrupt is selected in U; an NMI switches to M; the gate takes the interrupt and `riscvTakeException` traps to the cached `pendEnab.priv`, U, lowering privilege. |
| `clic_active_low` | violation | A level-triggered active-low input (`trig` = 2): the line rises and the pending bit is set, because `activeLow` is 2 and the XOR never flips bit 0. |

### Properties

- **`PendEnabFresh`.** Outside Debug mode, the cached selection equals what `refreshPendingAndEnabledBasic` would compute now.
  - It is violated by any handler that changes the mode, xIE, mie or mip without `riscvTestInterrupt`.
  - In Debug mode, xRETs are NOPs, and `leaveDM` refreshes on exit.
  - The violation runs also show that deferint and NMI break it. Those runs check the weaker `DeliveredInterruptIsArchWinner`, so that they report the consequence: a wrong interrupt taken.
- **`DeliveredInterruptIsArchWinner`.** Whenever the gate would deliver an interrupt, it is a winner of the spec's rule, and `pendEnab.priv` is its delegated target mode.
- **`WFINoLostWakeup`.** A hart halted by WFI has no interrupt pending in `mie & mip`.
- **`TrapNeverLowersPrivilege`** (action). Every trap ends in a mode at least the current one.
- **`DebugModeTransparent`** (action). In Debug mode no trap is taken. Leaving Debug mode other than by reset returns to the mode the session was entered from, however many entries were nested.
- **`ClicLevelInputFollowsLine`** (action, violation run). A level-triggered input sets ip to the line value, inverted when active-low.
- **`ClicModeLegal`**, **`ClicScanSelectsRankWinner`** (`MC_Clic`). Described in the run table.
- **`ClicWindowLayout`** (`MC_Clic`). For every hart, page type, field and interrupt (the implemented ones and the first and last of a 4096-interrupt block), the offset the spec's layout gives decodes to that hart (through `root->clic.harts`), that mode, that interrupt and that field. The id 4095 lies in the last 4 KiB page of its block, where an off-by-one in `get4kIntPage` would write the next hart's or mode's registers.
- **`ClicSelFresh`** (`MC_Clic`). Every hart's cached CLIC selection is what the scan of its state gives now. A cliccfg write changes the decoded mode, and so the rank, of every interrupt of every hart; the property fails if `cliccfgW` refreshes fewer harts than all of them.
- **`PrivStackRefined`** (refinement). `Hart` implements `PrivStack` under `INSTANCE PrivStack WITH mode <- ProgramMode`, where `ProgramMode` is `dcsr.prv` in Debug mode and `mode` otherwise; the other stack variables map to themselves. Debug-mode entry and exit, halts, line changes and CLIC writes are stuttering steps. It implies `TrapNeverLowersPrivilege` and adds the save and restore of xIE/xPIE/xPP. It is checked in `hart_nets` and `clic_modes`. It is not checked in `clic_levels`: on an M-only hart a faulting vector read is the nested push M, M, which the contract allows and which also explains any single trap that loses MPIE.
- **`HaltreqHonoured`** (liveness, `hart_nets`). A halt request at a running hart outside Debug mode leads to Debug mode, unless the request is withdrawn or the hart is reset. It fails if the gate lets WFI execute past a pending request. A hart already asleep in WFI when haltreq rises is not covered: whether the runtime's synchronous interrupt restarts it is outside `src/`.
- **`InterruptEventuallyTaken`** (liveness). An interrupt that is selectable (pending, enabled, not held off) eventually stops being selectable: it is taken, or the environment or program withdraws it.

Every property of a passing run has a mutant in `PROJECT.json`: a plausible bug in the mapped code (a dropped `riscvTestInterrupt`, a missing raise in `getModeX`, an unconditional `dcsr.prv` write, a priority-only comparison...) that TLC finds.

### Bounds and why they are enough

- Two or three interrupt ids per hart run are enough to distinguish target modes: one M and one delegated id. The arbiter run covers priority classes and ties.
- `Ints` and the delegation sets are chosen per run so that each kind of case occurs:
  - a delegated interrupt below, at and above the current mode;
  - an exception delegated below M (so the raise in `getModeX` matters);
  - every mode implemented (`{0,1,3}`) or only U/M.
- Every variable has a finite domain. There is no counter to bound.
- The CLIC runs use two local ids (16, 17), enough for a tie, a rank difference and an SHV interrupt beside a non-SHV one. Levels need only two values per interrupt (the threshold and `mil` compare against them); one implemented ctl bit with `nlbits` 0 or 8 gives levels 255 and 127/255. The modes run fixes `CtlWrites` empty so that the mode bits alone decide the rank; the levels run fixes the mode to M so that the levels alone decide it. Splitting them keeps each under a minute; the product exceeds four million states.
- `mc_clic` has two harts, enough for a hart other than the one last written to go stale. To keep the product of two harts' states small it fixes `TrigWrites` to level, `NlWrites` to 0, `CtlWrites` to 0 (clicintctl stays at its reset value, so the mode alone decides the rank) and `CLICSELHVEC` FALSE (shv is never read there); triggers, levels, ctl ranks and SHV are covered by the Hart CLIC runs. `ModeWrites` is {0, 1, 2}: 3 written through the M page gives the same M as the refused 2. `HartSymmetry` is sound: `HartAt` orders the harts, but `Next` writes through the offsets of every index, so the set of writes to each hart does not depend on that order.
- The written values (`CtlWrites`, `NmWrites`, `NlWrites`, `TrigWrites`, `ModeWrites`) include an out-of-range value in `MC_Clic` so that the clamps are exercised.

### Fairness

`Spec` has weak fairness on `FetchInterrupt` and `FetchHaltreq`, the two branches of the fetch gate that act on a pending event. The simulator calls `riscvIFetchExcept` before every instruction of a non-halted hart, so a selected, deliverable interrupt is taken, and a latched haltreq enters Debug mode, at the next fetch. The program and the environment get no fairness: a program may loop forever, and nets may never change.

## What is not modelled

- CLIC: writes of `xintthresh` (a CSR of `riscvCSR.c`; `Thresh` is a constant), CLIC reads (`readCLIC`: no state change), and the vector-table address and handler PC. The Hart runs have one hart; the sharing of cliccfg by several harts is checked in `mc_clic` on the CLIC alone.
- Of the memory-exception handlers: the page-table-walk path of the abort handlers (it sets `PTWBadAddr` and takes no trap; the walk is in `riscvVM.c`), fault-only-first suppression in `handleFF` (vector state the model does not carry), and `riscvRdPrivExcept`/`riscvWrPrivExcept`, whose work is done by `riscvVMMiss` outside this file.
- Single-step (`riscvStepExcept`), `debug_mode=INTERRUPT`, `stopcount`.
- The exception table, port and timer creation, the timer save/restore, `riscvNetSave` (it only writes the checkpoint; `Checkpoints` stands for what it wrote), the restore of `riscv->ip`, `netValue` and the basic intState, and `riscvSetExceptionMask` (configuration and I/O). Restores are checked on the CLIC cluster only, from checkpoints of harts programmed alike, so that the hart symmetry stays sound; a snapshot variable would square the state space.
- MPRV, the PC and the cause/epc/tval values (data no property distinguishes).
- swip and the interrupt-ID ports.

## Plan for later work

1. `xintthresh` writes as a program step.
2. The CLIC level stack (`mintstatus.xil`, `xcause.pil`) in `PrivStack`.
3. Single-step in Debug mode.

