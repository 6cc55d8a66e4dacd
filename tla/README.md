# TLA+ models of the SoC validation lab

This directory models the simulated SoC (`soc_c/`) and the firmware that runs
on it (`firmware/`): interrupt controller, DMA engine, timer and UART on one
side, interrupt dispatcher and drivers on the other. TLC checks the models on
small instances and TLAPS proves their safety properties for all parameters.

Paths below are relative to `src/`. `PROJECT.json` holds the exact map from
definitions to source lines, the runs, the mutants and the list of hazards.

## 1. The system

On the host the firmware and the SoC are one single-threaded program. A driver
call becomes a register access through the HAL and the host bridge, and time
passes only when somebody calls the step function. Nothing preempts. On the
host the concurrency comes from three sources:

* ticks of the SoC, raises of interrupt lines and injected faults happen
  between any two calls of the client;
* `isr_dispatch` calls handlers of the application in the middle of its loop,
  and such a handler may itself step the SoC, program the interrupt controller
  and change the vector table;
* the DMA engine validates a request at START and performs it many ticks
  later, from registers that may have been rewritten.

On silicon, the target that `isr.h` and `docs/firmware-c.md:67-73` describe,
handlers preempt the main line and the hardware works on while code runs; only
the critical sections of the HAL keep the two apart.

| Component | Source | State | Operations | What makes it correct |
|---|---|---|---|---|
| Interrupt controller | `soc_c/src/soc_intc.c`, `firmware/drivers/intc.c` | ENABLE, PENDING, ACTIVE | raise, read of ACK, write of CLEAR and ENABLE | an interrupt raised after ACK survives the CLEAR that follows it |
| Dispatcher | `firmware/isr/isr.c` | vector table, line count, loop state | `isr_configure`, `isr_register`, `isr_dispatch` | returns whatever handlers do, serves all pending lines, leaves no line ACTIVE, starves no line beyond its priority |
| DMA engine | `soc_c/src/soc_dma.c` | registers, flags, countdown, latch of IRQ_ENABLE | register writes, START, tick, reset, stuck fault | coherent STATUS, ends on time, raises iff enabled at START, copies like memmove, writes nothing on a fault |
| Capabilities and validation | `firmware/include/dma_caps.h`, `firmware/drivers/dma.c`, `soc_c/src/soc_dma.c` | none | two independent validations | they agree |
| Memory regions, bus decode | `firmware/include/mem_regions.h`, `soc_c/src/bus.c` | none | containment, overlap, lookup, route | at most one owner; bus and DMA agree on it |
| DMA driver | `firmware/drivers/dma.c` | lifecycle state, done flag, error latch, IRQ count, tables | `dma_submit`, `dma_start`, `dma_clear`, `dma_isr`, `dma_recover`, configuration | no completion is lost, every outcome is reported once and unaltered |
| UART | `soc_c/src/soc_uart.c` | data registers, countdown, two streams | register accesses, tick, append and drain by the DMA, reset, stuck fault | bytes come back once and in order, streams stay within their buffers and agree |
| UART driver | `firmware/drivers/uart.c` | none | init, write, read | never overwrites a byte on the way |
| Timer and driver | `soc_c/src/soc_timer.c`, `firmware/drivers/timer.c` | LOAD, VALUE, CTRL, FIRED | start, stop, clear, register writes, tick, reset | fires after exactly LOAD ticks, a running timer fires |
| Memories | `soc_c/src/soc_memory.c` | bytes of ROM and SRAM | byte and word access, loading an image, clearing | ROM is never written through the bus; see DMA engine |
| SoC integration | `soc_c/src/soc.c`, `soc_c/src/bus.c` | all of the above, tick count | bus read and write, tick, `soc_run_until`, boot, reset | exactly the accesses of the register map succeed, the order of a tick loses no data, the loop stops at the right tick, boot leaves nothing behind |
| Performance counters | `soc_c/src/soc_perf.c` | five counters, gate | count, reset, register access | each event is counted once while enabled |
| CPU record | `soc_c/src/soc_cpu.c` | PC, SP, running | reset, enter main | running after boot |
| Host bridge and hooks | `soc_c/src/host_bridge.c` | the SoC instance | init, boot, step, bus access, raise, error and completion hooks | hooks behave like the hardware they stand for and return |
| HAL | `firmware/hal/` | interrupt mask | register access, read-modify-write, critical sections | the mask is restored on every path |
| Platform | `firmware/platform/` | tables, `.data` and `.bss` markers | `platform_init` | drivers and decoder agree on every address |
| Apps, benchmarks, tests | | | | not modelled, see section 8 |

The behaviours that are hard to test are listed as hazards in `PROJECT.json`,
each at its line and with the properties that address it.

## 2. Modules

```
Intc ── U32 ── Perf            MemRegions ── DmaCaps
  │      │      │                │             │
  ├── Isr ──────┼──────┐       Uart ───────────┤
  ├── Timer ────┤      │         │             │
  └── Uart ── UartDriver         └──────── DmaEngine
                │      │                   │       │
              SocBus ──┼───────────────────┘       │
                │      └────── DmaDriver ──────────┘ ··· implements ··· DmaLifecycle
               Soc                 │                                        :
                               DmaPreempt ············· implements ·········:
```

| Module | What it models |
|---|---|
| `Intc` | the interrupt controller; registers are sets of lines, operations are functions of the controller, so that other modules compose them within one step |
| `Isr` | the dispatcher, split at the call of a handler (`isr.pc`: idle, loop, handler); `ClientRuns` says where client code can act |
| `U32` | the wrap-around statistics counters |
| `MemRegions` | region tables, `find_region`, `soc_bus_route`; addresses wrap at `U32Mod`; the cast of a `uint32_t` to `int32_t` |
| `DmaCaps` | the two validations, translated separately, and `transfer_ticks` with its unsigned wrap-around and its cast to `int32_t` |
| `Uart`, `UartDriver` | the UART with the two streams the DMA sees, its countdown as the `int32_t` it is, and its driver |
| `Timer` | the timer and its driver |
| `DmaEngine` | the engine with SRAM, the UART bridges and the line it raises; a tick is split by its outcome (count, malloc failed, fault, done) |
| `DmaDriver` | the driver composed with engine, controller and dispatcher; a *disciplined* client (`Next`) and an *open* one (`OpenNext`) |
| `DmaPreempt` | the driver on silicon: `dma_submit`, `dma_recover` and `dma_isr` split into their accesses, the interrupt mask, an engine that ticks at any moment |
| `Perf` | the performance counters |
| `SocBus` | `soc_read`, `soc_write` and the register windows, as functions on the record `Hw` of all the hardware |
| `Soc` | the tick, boot, `soc_run_until`, the hooks, the HAL, `platform_init` and the drivers as sequences of bus accesses |
| `DmaLifecycle` | the abstract specification: IDLE, ACTIVE, one outcome, one report, recovery |
| `MCIsr`, `MCTimer`, `MCUart`, `MCDmaCaps`, `MCDmaEngine`, `MCDmaDriver`, `MCDmaPreempt`, `MCSoc` | instances for TLC, with history variables where a property needs one |
| `CommonProofs` | lemmas on controller, counters, validation, lookup and multiples of a word that several proofs use |
| `MCIsrProofs`, `MCTimerProofs`, `MCUartProofs`, `MCDmaCapsProofs`, `MCDmaEngineProofs`, `DmaDriverProofs`, `MCSocProofs` | theorems and proofs, one module per component (`DmaDriverProofs` has the driver on the host and on silicon); `MC` in the name where a theorem speaks of the history variables of the instance |

Definitions keep the names of the C functions they translate. Definitions
called `Mutant_...` are plausible bugs; they are used by no specification and
serve to show that each property can fail (`mutants` in `PROJECT.json`).

In `DmaDriver` each driver call is one step, because on the host it is atomic: `dma_submit`
is validation, four register writes with the whole of `soc_dma_start`, and the
state change. `dma_isr` includes what `isr_dispatch` does after the handler
has returned. A call that is refused changes nothing and is not a step.

`Soc` looks at the same calls from the bus. A call is a function on `Hw`, the
composition of its accesses, each with its counting and its possible error:
`dma_start` is a read of STATUS, three writes and the write of CTRL at the
addresses of `soc_regs.h` (`VlabRegs`), which the decoder finds again by the
offsets of `soc.h` (`SocOffsets`). Loops that tick (boot, `soc_run_until`,
`vlab_test_dma_complete`) are steps of their own, one per tick, with `run`
as the loop in progress. `DriversHitTheirRegisters` ties the two views
together: each call does to its peripheral what the component modules say.

`DmaPreempt` splits `dma_submit`, `dma_recover` and `dma_isr` where another
actor can come in between. `main` is the call in progress with the mask it
saved, `isr_at` the position in `dma_isr`. Between its calls the client may
open and close a critical section of its own (`hal_irq_disable`,
`hal_irq_restore`), so that a driver call also finds the mask closed. The writes of SRC, DST and LEN are
one step, since an idle engine does not look at them, and so are the reads of
STATUS and ERR_CODE, since the second only follows a terminal flag, after which
the engine stands still. In this module the driver's STARTING and RECOVERY
states are visible.

Abstractions of data:

* the bits of a control register that nothing reads are left out. START is not
  one of them: CTRL of the engine can hold it, and a write has to remove it
  (`CtrlStored`), or the next read-modify-write would start a transfer;
* words have two bytes, addresses are small, counters wrap at `CounterMod`;
* a control or status register is the set of its named bits, a word of memory
  the tuple of its bytes; BAUDDIV stays at the zero that bring-up writes;
* the performance counters are part of `SocBus` and `Soc` only, because no
  other component reads them;
* the `STARTING` and `RECOVERY` states of the driver exist only inside a call
  and appear in `DmaPreempt` only.

## 3. Runs

`tlc -config X.cfg M` for each row. *pass* means no violation.

| Run | Module | Properties | Shows |
|---|---|---|---|
| `isr` | MCIsr | IsrTypeOK, ActiveExplained, QuietDispatchDrains, DispatchReturns, NoStarvation | under arbitrary clients and handlers nothing acknowledged stays ACTIVE unless the platform configured fewer lines than the controller has; a call without interference drains all lines; `isr_dispatch` returns although handlers re-raise lines and change the table; only priority can starve a line |
| `timer` | MCTimer | FiresOnTime, RunningFires | the timer against a reference countdown; restarting a running timer does not postpone it for ever |
| `uart` | MCUart | AcceptedBytesLoopBack, StreamsAgree, BusyUartEnds | no accepted byte is lost, overwritten or reordered; full streams are cut off, and until then they agree; a byte on the way arrives; with the latency above the cast the transmitter never shows busy and the byte is not claimed to come back |
| `caps` | MCDmaCaps | SameVerdict, RouteIsOwner, TicksAsSpecified | every request of a small address space on several platforms; a transfer takes the specified time, and where the arithmetic wraps it takes less, but never no time at all |
| `engine` | MCDmaEngine | StatusCoherent, EndsOnTime, RaisedIffEnabledAtStart, AcceptedNeverFaults, FaultWritesNothing, BusyEnds | registers written in any order at any time, resets, stuck faults, failing allocations; a transfer ends all the same |
| `driver` | MCDmaDriver | TypeOK, NoLostCompletion, QuietUnlessActive, FlagsMatchState, RefinesLifecycle, SubmittedIsReported | the composed system under the disciplined client; every submitted transfer is reported |
| `driver_open` | MCDmaDriver | OpenFlags | what is left under a client that may call everything |
| `soc` | MCSoc | SocTypeOK, AccessRights, DriversHitTheirRegisters, BootIsFresh, DataArrives, PendingOnlyAcked, RunUntilExact, HookDrivesToEnd, LoopsReturn | the whole SoC under driver calls, raw accesses, ticks, hooks, faults and boot |
| `preempt` | MCDmaPreempt | PreemptTypeOK, NoCompletionPreempted, PreemptRefinesLifecycle, MaskIsRestored, PreemptedIsReported | the driver on silicon, preempted wherever its critical sections allow it, called with the mask open and closed |

Three runs expect a violation; section 7 describes what they show.

### Bounds

* **Lines and vectors.** The three lines are those of the code. The vector
  table has three or four entries, so that a line count below, at and above
  the number of lines, zero, and one beyond the table all occur (`LineCounts`).
* **Addresses.** The maps keep the shape of `platform_vlab.c`: entry 0 ROM,
  entry 1 SRAM, MMIO with two FIFO registers of opposite roles, unmapped
  addresses above. `caps` adds a map that ends at the end of the address space,
  so that wrap-around at `U32Mod` is met, and takes *every* address for source
  and destination. The other runs take one address of each class, a misaligned
  one and one whose range leaves SRAM.
* **Lengths** include zero, one word, and more than one word, so that copies
  overlap partially and a transfer takes more than one tick.
* **Allocation failures** (`MaxAllocFails`): up to two in a row in `engine`,
  one in the driver runs, none in `soc`. After the first the countdown is at zero or below and every further retry is alike.
* **FIFO sizes** one to three, below what clients send, so that buffers fill.
* **UART bytes** (`MaxBytes`): up to four accepted between two resets, one more
  than the streams hold. **UART latencies** of zero, two and four ticks with
  `U32Mod` 8: the one the code raises to one, one that leaves room in the middle
  of a byte, and one that the cast to `int32_t` makes negative.
* **Timer loads** 0, 1, 2 and 4: refused, fires in the next tick, periodic with
  and without ticks in between.
* **`CounterMod` = 1** switches statistics counters off in the driver runs;
  nothing depends on their value. In the proofs it is arbitrary. `soc` counts
  modulo 2, which tells one event from none and meets the wrap-around.
* **Clients of `soc`**: what they transfer, load, store, read and boot are
  constants (`Transfers`, `TimerLoads`, `Stores`, `RawReads`, `Images`), arbitrary
  in the proofs. The instance has an overlapping copy, a transfer in each
  direction of the UART and one that is refused, with and without interrupt.
* **Calls in `soc`** (`MaxOps`): three between two boots, with any number of
  ticks and bring-ups. Three are enough to start a transfer, do something to it
  and enter a loop; boot renews them, so that every such state is met by boot.
  `SOC_BOOT_TICKS` is 1, `MaxPolls` 4 (the longest transfer takes three ticks,
  so that only a stuck engine reaches it), `TxPolls` 3, and `UntilTicks` holds
  zero, one limit below the longest transfer and the exact limit.
* **Register windows in `soc`** have five to seven registers and one word
  behind them, so that holes exist; `AccessRights` tries every address.
* **`preempt`** takes source and destination from SRAM and the transmit FIFO,
  so that requests are accepted and refused, raises of the timer beside those of
  the engine, and faults at any step.
* `caps` is the one run without a deadlock check: a behaviour there is one
  request and ends when it is answered.

### Fairness

* `WF(Tick)` for engine, timer and UART alone: time goes on. The step function
  is called again and again by the main loop of every test and demo.
* `WF(DispatchStep)` and `WF(isr_dispatch_call)`: a call runs to its end in a
  single thread, handlers return, and the main loop keeps calling
  `isr_dispatch`. Raises, masks and configuration are never fair.
* `SF(Tick)` in `DmaDriver`: the main loop alternates between stepping and
  `isr_dispatch`. Ticks are disabled while the dispatcher itself runs, so weak
  fairness would promise nothing.
* `WF(LoopStep)` in `MCSoc`: a loop that was called goes on. Nothing else is
  fair there, not even time outside the loops.
* `DmaPreempt`: `WF(MainStep)`, a driver call runs on; `WF(EngineTick)`, time
  goes on; `SF(HandlerStep)`, a handler returns, although one of the
  application may make driver calls and can return only between them;
  `SF(TakeInterrupt)`, the CPU takes a pending interrupt when the mask opens,
  although the client may close it again at once; `SF(hal_irq_restore)`, a
  critical section of the client ends, although it may make driver calls and
  can end only between them.
* `SubmittedIsReported`, `PreemptedIsReported` and `NoStarvation` are stated under the condition that
  lines of higher priority are not raised for ever, since the controller has
  strict priorities and the dispatcher a bound per call.

## 4. The main properties

`NoLostCompletion`: while the driver is ACTIVE, either the engine is busy and
has IRQ_ENABLE latched, or its terminal flag is set *and* the DMA line is
pending or `dma_isr` is already entered. Spurious interrupts, masks, raises of
other lines, handlers that step the SoC inside the dispatcher, injected errors
and stuck faults may come in between. The design depends on several details at
once: raises coalesce in PENDING, CLEAR touches ACTIVE only, `dma_isr` looks at
the flags and not at the fact that it was called, and `dma_recover` refuses to
run in ACTIVE. A CLEAR that also removes the pending bit, for example, is the
mutant that breaks it.

`RefinesLifecycle`: with the engine's terminal flags as the outcome under way
and the driver's two result variables as the report, the composed system
implements `DmaLifecycle`: each transfer has one outcome, reported once,
unaltered, before the driver can be IDLE again.

`NoCompletionPreempted` says the same on silicon, from the write of START on:
a transfer may end before `dma_submit` has set ACTIVE, and its interrupt then
waits for the mask. Without the mask `dma_isr` would report, and the late
ACTIVE would overwrite its report; that is the mutant. `PreemptRefinesLifecycle`
shows the same abstract specification for the preemptive driver, with START as
the moment of submission and the STATUS read as that of the report.

`DataArrives`, `RunUntilExact` and `HookDrivesToEnd` compare the SoC with short
references: what a memmove and a queue would do with the bytes, and the number
of ticks that the transfer still needed when the loop was called
(`hist.need`). `BootIsFresh` compares the state at the end of `soc_boot` with
that of a fresh SoC after the same ticks. `PendingOnlyAcked` is about every
step of the system: an interrupt leaves PENDING by an ACK of the highest line,
or by boot.

`OpenFlags` is what the driver still guarantees if a client mixes polling and
interrupts, submits without interrupt, clears flags by hand, resets the
peripherals or installs tables that differ from the engine's. The stronger
properties then fail, which is what the findings are about.

## 5. Proofs

All proofs are checked by TLAPS with its SMT, Zenon and LS4 backends. *Checked
by* is the property of section 3 that the theorem states.

| Theorem | Module | Statement | Checked by |
|---|---|---|---|
| `ValidationAgrees` | CommonProofs | on an idle engine `validate` of the driver returns the engine's own start code, for every configuration with capabilities and every request | |
| `OwnerIsUnique` | CommonProofs | on a map without overlaps at most one region contains a range | |
| `RouteFindsOwner` | CommonProofs | on a map of whole words the bus routes a word to the region the DMA finds for it | |
| `VerdictsAgree` | MCDmaCapsProofs | driver and engine give every request the same verdict | SameVerdict |
| `BusAndDmaAgree` | MCDmaCapsProofs | bus decode and DMA lookup agree on every word | RouteIsOwner |
| `TicksCorrect` | MCDmaCapsProofs | an accepted transfer takes at least one tick and at most the specified number, and exactly that where nothing wraps | TicksAsSpecified |
| `IsrTypeCorrect` | MCIsrProofs | the loop and its table accesses stay in range | IsrTypeOK |
| `EveryActiveIsExplained` | MCIsrProofs | no line stays ACTIVE without a reason | ActiveExplained |
| `QuietDispatchDrainsAll` | MCIsrProofs | the loop bound of `isr_dispatch` suffices to serve all lines | QuietDispatchDrains |
| `TimerKeepsTime` | MCTimerProofs | a countdown lasts exactly LOAD ticks | FiresOnTime |
| `EveryByteLoopsBack` | MCUartProofs | accepted bytes come back once and in order, for every latency below 2^31 | AcceptedBytesLoopBack |
| `StreamsNeverDiverge` | MCUartProofs | the streams agree until one is full | StreamsAgree |
| `StatusIsCoherent` | MCDmaEngineProofs | the flags exclude each other, a code goes with ERROR | StatusCoherent |
| `TransfersEndOnTime` | MCDmaEngineProofs | ticks counted and ticks left add up to the length computed at START | EndsOnTime |
| `InterruptsAsEnabled` | MCDmaEngineProofs | the line is raised iff IRQ_ENABLE was set at START | RaisedIffEnabledAtStart |
| `AcceptedTransfersSucceed` | MCDmaEngineProofs | an accepted transfer that nobody touches does not fault | AcceptedNeverFaults |
| `FaultsLeaveNoTrace` | MCDmaEngineProofs | a fault writes neither SRAM nor the transmit stream | FaultWritesNothing |
| `TypeCorrect` | DmaDriverProofs | `Spec => []TypeOK` | TypeOK |
| `CompletionNeverLost` | DmaDriverProofs | `Spec => []NoLostCompletion` | NoLostCompletion |
| `EngineQuietUnlessActive` | DmaDriverProofs | `Spec => []QuietUnlessActive` | QuietUnlessActive |
| `FlagsAreCoherent` | DmaDriverProofs | `Spec => []FlagsMatchState` | FlagsMatchState |
| `DriverImplementsLifecycle` | DmaDriverProofs | `Spec` implements `DmaLifecycle` | RefinesLifecycle |
| `FlagsUnderOpenClient` | DmaDriverProofs | `OpenSpec => []OpenFlags` | OpenFlags |
| `PreemptTypeCorrect` | DmaDriverProofs | types of the split driver; the mask is closed exactly inside calls and critical sections | PreemptTypeOK |
| `PreemptionLosesNothing` | DmaDriverProofs | no completion is lost to preemption | NoCompletionPreempted |
| `PreemptImplementsLifecycle` | DmaDriverProofs | the split driver implements `DmaLifecycle` | PreemptRefinesLifecycle |
| `SocTypeCorrect` | MCSocProofs | types of all the hardware, streams within their buffers | SocTypeOK |
| `SocAccessRights` | MCSocProofs | at every address exactly the accesses of the register map succeed; a refused one costs a stall and nothing else | AccessRights |
| `SocDriversHit` | MCSocProofs | every driver call, through the decoder, does to its own peripheral what the component modules say and to no other anything | DriversHitTheirRegisters |
| `SocBootsFresh` | MCSocProofs | boot leaves nothing of the time before | BootIsFresh |
| `SocDataArrives` | MCSocProofs | a transfer that ends with DONE is a memmove, or an append behind the byte sent in the same tick | DataArrives |
| `SocKeepsPending` | MCSocProofs | an interrupt leaves PENDING by the ACK that returns it, or by boot and initialisation | PendingOnlyAcked |
| `SocRunUntilExact` | MCSocProofs | `soc_run_until` returns the ticks the transfer needed, -1 iff they exceed its limit | RunUntilExact |
| `SocHookDrives` | MCSocProofs | `vlab_test_dma_complete` steps a transfer to its end and no further | HookDrivesToEnd |

`IsrInvariance`, `TimerInvariance`, `UartInvariance`, `EngineInvariance`,
`Invariance`, `PreemptInvariance` and `SocInvariance` are the inductive
invariants below.

### Assumptions

The theorems hold for every address space, platform map, FIFO table, latency,
burst, vector table size, set of handlers, mask, request and error code that
satisfies the named assumptions of the modules, all of which TLC evaluates on
the instances.

* `WidthAssumption`, `CounterModAssumption`, `IsrAssumption`,
  `EngineAssumption`, `TimerAssumption`, `UartAssumption`,
  `UartDriverAssumption` and `EngineClientAssumption` give the constants their
  types. The vector table is at least as long as there are lines, as in `isr.h`.
  A latency of the UART is any `uint32_t`; that it is below 2^31 is a condition
  of `AcceptedBytesLoopBack`, and of nothing else.
* `DriverAssumption`: the platform has a capability record, and the handlers
  include `dma_isr`.
* `RequestAssumption` (for `MCDmaCaps`): the configurations have capability
  records, and their maps consist of whole words and do not overlap, which is
  the shape of the tables in `platform_vlab.c`.
* `BridgeAssumption` (for `MCDmaEngine`): the platform is strict, the only
  memory it offers the DMA is the SRAM, the only FIFO it offers for reading is
  RXDATA and for writing TXDATA. `platform_vlab.c` and the two bridge functions
  of `soc.c` agree in this way; `AcceptedTransfersSucceed` is false on a
  platform whose tables promise a FIFO that the bridges do not have.
* `BusAssumption` (for the SoC): the table has the seven entries of
  `platform_vlab.c`, two memories and five windows, of whole words and without
  overlaps; each window has room for its registers, and the DMA's FIFO addresses
  are those of the UART's data registers. Bases, sizes, gaps and the number of
  bytes of a word are arbitrary.
* `SocAssumption` and `SocClientAssumption` give the types of what clients pass:
  any transfers, timer loads, limits, raw reads, images, and stores of words to
  memory or to nowhere. `Platform.hasCaps` holds as in `platform_vlab.c`.
* `SocBoundAssumption`: the boot ticks (5 in the code) do not wrap a counter
  (2^32); no transfer takes longer than the hook polls, where the longest the
  capabilities allow, 16384 bytes, takes 5119 ticks and the hook makes 100000;
  and `malloc` does not fail. The first is needed by `BootIsFresh`, the others by
  `RunUntilExact` and `HookDrivesToEnd`, which compare a loop with the countdown
  at its start. Failing allocations are the subject of `MCDmaEngine`.

### The inductive invariants

Each was checked by TLC as an invariant of its run before it was proved. All of
them are proved with one step or lemma per action.

**Dispatcher** (`IsrInv`, `DrainInv`). `ActiveExplained` needs the origin of
the line count: it is the initial one or one that a client configured, so that
a line the loop breaks on is foreign. The types need that the pass in which a
handler runs fits the table *although the handler may shrink the line count
under the loop*. For `QuietDispatchDrains` the argument is one of priorities:
in a call without interference, a line that is still pending when `Taken` lines
have been taken has at least that many lines below the line count ahead of it in
`kPriority` (`Ahead`). There are fewer of those than passes, so when the loop
bound is reached nothing is pending.

**Timer** (`TimerInv`). While the reference countdown is known the timer is
enabled with a load and VALUE equals the reference. It survives a restart
because enabling reloads VALUE only from zero.

**UART** (`UartInv`). `AcceptedBytesLoopBack` is inductive with the types.
`StreamsAgree` needs in addition that no more was drained than was sent: then
the receive stream is the shorter one and has room whenever the other has.

**Engine** (`EngineInv` of `MCDmaEngineProofs`). `EndsOnTime` needs a bound on
how far below zero failing allocations take the countdown, which keeps the
history's count of ticks exact. The interrupt at the end is decided by the
latch of START, which equals the history, and not by CTRL. `AcceptedNeverFaults`
needs that the registers of an untouched transfer are those that START
validated; that a validated request is performed without a fault then follows
from the bridge assumption, endpoint by endpoint.

**Driver** (`IInv`). `NoLostCompletion` alone is not inductive.

* That a finished transfer raises the line needs `EngineInv`: a busy engine has
  no terminal flag, and both its latch and CTRL hold IRQ_ENABLE.
* That an acknowledged DMA line is handled by `dma_isr`, and that `dma_isr`
  runs for no other line, needs `DispatchInv`.
* That a new transfer starts without old flags and is not refused needs
  `QuietUnlessActive`, and `dma_recover` and `dma_isr` keep it only if the
  flags match the state.

`LaunchFacts` is the link between the two validations: because of
`ValidationAgrees`, a request the driver lets through is accepted by the
engine, so that `dma_submit` never ends in a synchronous ERROR behind the
driver's back.

**Open client** (`OpenInv`). Nothing of `IInv` is left but the types of the
engine and that an ERROR comes with a code, which is what makes `dma_isr` latch
a code whenever it moves the driver to ERROR.

**Preemption** (`PreemptInv`). To the parts of `IInv` come

* `CallInv`: STARTING and RECOVERY go with exactly the steps of their calls, no
  call or critical section is in progress while `dma_isr` runs, and what was
  validated is what is programmed and started, although the calls are split.
  Which mask a call saved does not matter: the mask is closed exactly where
  `main` is not with the client in the open (`PreemptTypeOK`), before and after
  a call inside a critical section alike;
* `SignalInv`: the line is pending, or `dma_isr` about to read STATUS, only if
  a terminal flag is set. So `dma_isr` never clears a flag that it has not read;
* `QuietInv` and `ResultInv`: the flag that `dma_isr` has read and not yet
  cleared is the one exception to a quiet engine outside ACTIVE.

**SoC** (`SocInv` of `MCSocProofs`). It has three parts.

* `HwOK`: the types, streams within their buffers, and an engine that while it
  is busy shows no flag, has at least one tick left and no more than the hook
  polls, and whose CTRL does not hold START, so that a read-modify-write of it
  starts nothing. A stream stays within its buffer because every append is cut; the bound
  on the countdown is what START computes and ticks lower.
* `BootInv`: while `soc_boot` ticks, the hardware is that of a fresh SoC after
  as many ticks. `BootIsFresh` speaks of the last step of boot only, and is
  inductive with this picture of the steps before.
* `LoopInv`: while one of the two loops runs, the ticks the engine still needs
  are those it needed at the call (`hist.need`) less those the loop has made,
  or the engine is stuck in both. At the return this is the statement of
  `RunUntilExact` and `HookDrivesToEnd`.

The proof goes from the bus upwards. `VlabDecodes` shows that the address which
the firmware computes from `soc_regs.h` is decoded to the register of that name
in `soc.h`; `WindowWord` shows the converse, that an aligned address in a
window is a register of the map or a hole, and gives `AccessRights` for every
address. With it each register access, and by composition each driver call, is
an equation on the record of all the hardware (`Write...`, `Read...`,
`Call...`), from which `DriversHitTheirRegisters` follows at once: what is left
after the counters are put back is the component's own operation. The `Good...`
lemmas conclude that no call breaks `HwOK`, sets DONE or takes a line from
PENDING other than by ACK, so that `DataArrives` and `PendingOnlyAcked` reduce
to the tick. There the streams need an argument of their own (`CutOnce`,
`SaturatingCuts`): a byte sent by the transmitter and a payload appended by the
DMA in the same tick, each cut at the end of the buffer, are the concatenation
cut once.

### The refinements

`Outcome` and `Reported` are the mapping of `DmaDriver`. `dma_submit` is
Submit, the last tick and an injected fault are End, `dma_isr` with a flag set
is Report, `dma_recover` is Recover; everything else, a spurious `dma_isr`
included, is a stutter. In `DmaPreempt` the state STARTING counts as IDLE until
START is written and as ACTIVE from then on, and RECOVERY counts as the state
being left until the call's last assignment; Submit is the write of START and
Report the read of STATUS. Both proofs show step by step that the invariant and
an action give a step of the lifecycle or a stutter.

## 6. What is model-checked only

* **Liveness** is outside the prover's reach: `DispatchReturns`,
  `NoStarvation`, `RunningFires`, `BusyUartEnds`, `BusyEnds`,
  `SubmittedIsReported`, `LoopsReturn`, `MaskIsRestored` and
  `PreemptedIsReported`. Every invariant and every action property of the
  passing runs, and both refinements, are proved.
* **The SoC with failing allocations**: the bus, the loops and the drivers on
  them are proved, and checked in `soc`, for allocations that succeed.
* **The findings** are counterexamples and need no proof.

## 7. Findings

Where a document or comment promises something that the code does not keep, a
run expects a violation.

| Run | Says | Does |
|---|---|---|
| `isr_ack` | `firmware/include/isr.h:35`: every line is ACKed and cleared, "a stray IRQ can never wedge the controller" | the break on a line at or above the configured count (`isr.c:39`) comes after the ACK and leaves the line ACTIVE |
| `driver_latch` | `firmware/include/driver_api.h:83`: error code "0 when no error" | `dma_start` after a failed transfer completes with the old code still latched |
| `driver_abort` | `docs/fault-injection.md:55`: after a reset software "re-runs and completes" | neither `dma_init` nor `dma_recover` takes the driver out of ACTIVE; later submits return BUSY |

Observations that contradict no document: the UART latency is a `uint32_t` that
is cast to `int32_t` (`soc_uart.c:65`), so that from 2^31 on the countdown is
negative, STATUS shows an empty transmitter and the byte is never sent; a timer stopped in the middle resumes
with its old VALUE when it is started again, whatever the new LOAD
(`soc_timer.c:36`); a transfer whose writer fails has already drained the
receive stream (`soc_dma.c:202`); the two UART streams part once one is full;
the error hook of the host bridge decides on CTRL whether to raise the line
(`host_bridge.c:69`), whereas the engine decides on its latch of START, so the
two differ if a client rewrites CTRL under a running transfer; `boot_ticks` of
the CPU record is never set.

Wording that the code does not bear out, without a run of its own, because a
property that the runs check or a reading of one line settles it:

* `docs/soc-spec.md:145-146` and `firmware/drivers/dma.c:14-15` say that
  INTC.CLEAR clears the pending bit. It clears ACTIVE only, as sections 4 and
  5.4 of the same document have it (lines 70 and 155). So a client that starts a
  transfer with its interrupt enabled, polls it to its end and clears it in the
  two steps of the comment still has the line pending, and the next dispatch
  runs `dma_isr` on an engine without flags. `PendingOnlyAcked` is the negation
  of the two sentences, checked and proved over every step of the SoC, and a
  CLEAR as they describe it is its mutant (`Mutant_clear_pending`), which loses
  completions too (`NoLostCompletion`).
* `docs/soc-spec.md:173-174` has MEM_ACC count every bus transaction; unaligned
  accesses are not counted (`soc.c:89`). STALLS counts bus errors, writes to a
  disabled UART and a START while BUSY, and no polling.
* `docs/soc-spec.md:171` calls RESET of PERF.CTRL write-1-to-clear-all. The bit
  is stored and reads back, so a read-modify-write of CTRL resets again.
* `firmware/include/hal.h:13` and `hal/host.c:7` speak of a nesting counter; the
  mask is a flag whose old value is saved, which nests as well.
* On silicon a *spurious* DMA interrupt while the engine is busy could read
  STATUS just before the transfer ends and clear the flag just after
  (`dma.c:181-190`). Nothing but the raise hook of the tests raises the line
  that way, and on the host no tick falls in between. `SignalInv` in the proof
  of `PreemptionLosesNothing` is the exact condition: a DMA interrupt only ever
  announces a flag that is already set.

## 8. Not modelled

* **Unprotected calls on silicon.** `dma_start`, `dma_clear` and
  configuration have no critical section and are meant for polling clients;
  `DmaPreempt` has the interrupt-driven client only.
* **The open client** calls what the headers export, with any arguments of the
  instance's sets; it writes no register past the drivers, which is the client
  of `MCDmaEngine` and, for the whole bus, of `MCSoc`. The error hook takes the
  codes of the engine and not 0, with which the driver would be in ERROR without
  a code.
* **Peripheral tables** other than the platform's and none: the one caller of
  `dma_configure_periph` passes NULL.
* **`soc_run_until`** takes any predicate; the model has the one that the
  benchmark and the tests pass, DONE or ERROR.
* **Reporting**: boot time in nanoseconds, the CPU frequency.
* **Memory set-up**: the simulation of `.data` and `.bss` in `platform_init.c`
  is read by its self check only.
* **Lazy initialisation** of the host bridge is the initial state of `Soc`.
* **Platform tables** are the constant `Platform`; the instances scale
  `platform_vlab.c` down.
* **Demo, benchmarks, tests**: fixed call sequences, all of them behaviours of
  the clients modelled here.

## 9. Status

All modules of section 2, their runs and the proofs of section 5 are complete:
every safety property of section 3 is proved for all parameters, and liveness
is checked by TLC on the instances.

Where one would go on:

1. Safety consequences of liveness that a proof could reach, such as a bound on
   the rounds of `isr_dispatch` that a line of given priority waits.
2. `SocRunUntilExact` and `SocHookDrives` with failing allocations, which need
   the history to follow the retries as that of `MCDmaEngine` does.
3. The calls of `dma.c` without a critical section on silicon (section 8).
