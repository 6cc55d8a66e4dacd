-------------------------------- MODULE Soc ---------------------------------
(***************************************************************************)
(* The SoC as a whole (soc_c/src/soc.c, host_bridge.c) and the firmware on *)
(* it (firmware/hal, the drivers, platform_init.c): the tick that steps    *)
(* every peripheral in a fixed order, boot, the loops that poll STATUS and *)
(* tick, and the driver calls as sequences of bus accesses.                *)
(*                                                                         *)
(* The host is single-threaded and no time passes within a driver call, so *)
(* a call f is one step, Become(f(Hw)).  The loops that tick are steps of  *)
(* their own: run.pc is "client" between calls and otherwise the loop that *)
(* is running, with run.n ticks done of at most run.max.  On return of     *)
(* soc_run_until run.n is its result.                                      *)
(*                                                                         *)
(* ticks is uint32_t and wraps with the counters.  The bridge initialises  *)
(* the SoC on first use; Init is the state after that.                     *)
(***************************************************************************)
EXTENDS SocBus

CONSTANTS SOC_BOOT_TICKS,  \* 5 in the code
          MaxPolls,        \* iterations of vlab_test_dma_complete, 100000
          TxPolls          \* iterations of uart_write_byte, 1000

ASSUME SocAssumption ==
  /\ SOC_BOOT_TICKS \in Nat
  /\ MaxPolls \in Nat
  /\ TxPolls \in Nat \ {0}

VARIABLES cpu, ticks, run

socVars == <<uart, timer, dma, intc, perf, sram, rom, cpu, ticks, run>>

Client == run.pc = "client"

Returned(v) == [pc |-> "client", n |-> v, max |-> 0]

Running(loop, max) == [pc |-> loop, n |-> 0, max |-> max]

Loops == {"soc_boot", "vlab_test_dma_complete", "soc_run_until"}

RunType == [pc : Loops \cup {"client"}, n : Int, max : Nat]

(* A call that leaves the hardware as s and returns without a tick. *)
Become(s) ==
  /\ Client
  /\ uart' = s.uart /\ timer' = s.timer /\ dma' = s.dma /\ intc' = s.intc
  /\ perf' = s.perf /\ sram' = s.sram /\ rom' = s.rom
  /\ run' = Returned(0)
  /\ UNCHANGED <<cpu, ticks>>

-----------------------------------------------------------------------------
(* Initialisation, time and boot. *)

soc_cpu_reset ==
  [pc |-> RomRegion.base, sp |-> SramRegion.base + SramRegion.size,
   running |-> FALSE]

Init ==
  /\ uart = soc_uart_reset /\ timer = T!soc_timer_reset /\ dma = soc_dma_reset
  /\ intc = soc_intc_reset /\ perf = soc_perf_init
  /\ sram = ZeroMem(SramRegion) /\ rom = ZeroMem(RomRegion)
  /\ cpu = soc_cpu_reset /\ ticks = 0 /\ run = Returned(0)

soc_host_init ==
  /\ Client
  /\ uart' = soc_uart_reset /\ timer' = T!soc_timer_reset
  /\ dma' = soc_dma_reset /\ intc' = soc_intc_reset /\ perf' = soc_perf_init
  /\ sram' = ZeroMem(SramRegion) /\ rom' = ZeroMem(RomRegion)
  /\ cpu' = soc_cpu_reset /\ ticks' = 0 /\ run' = Returned(0)

(* One tick, with the counters as p before it: UART, timer, then the DMA,  *)
(* which sees what the UART did in the same tick.                          *)
soc_step(p) ==
  LET counted == Count(p, "CYCLES", 1)
  IN  /\ ticks' = Bump(ticks, 1)
      /\ timer' = T!soc_timer_step(timer)
      /\ soc_dma_step(soc_uart_step(uart),
                      T!TimerRaises(timer, UartRaises(uart, intc)))
      /\ perf' = IF dma.busy /\ dma'.done
                 THEN Count(counted, "DMA_BYTES", dma.length) ELSE counted
      /\ UNCHANGED <<rom, cpu>>

soc_host_step == Client /\ soc_step(perf) /\ run' = Returned(0)

(* The words of the image that fit; the rest of the image is dropped. *)
soc_mem_load_words(image) ==
  [o \in DOMAIN rom |->
     LET i == o \div WordBytes + 1
     IN  IF i <= Len(image) /\ i * WordBytes <= RomRegion.size
         THEN image[i][(o % WordBytes) + 1] ELSE 0]

(* Mutant: the timer is not reset. *)
Mutant_boot_keeps_timer(image) ==
  /\ Client
  /\ ticks' = 0 /\ cpu' = soc_cpu_reset
  /\ uart' = soc_uart_reset /\ dma' = soc_dma_reset /\ intc' = soc_intc_reset
  /\ perf' = [soc_perf_reset_counters(perf) EXCEPT !.enabled = TRUE,
                                                   !.CTRL = {"ENABLE"}]
  /\ rom' = IF image = <<>> THEN rom ELSE soc_mem_load_words(image)
  /\ sram' = ZeroMem(SramRegion)
  /\ run' = Running("soc_boot", SOC_BOOT_TICKS)
  /\ UNCHANGED timer

(* soc_boot up to its ticks; <<>> is a boot without an image, which leaves *)
(* ROM as it is.                                                           *)
soc_boot(image) ==
  /\ Client
  /\ ticks' = 0 /\ cpu' = soc_cpu_reset
  /\ uart' = soc_uart_reset /\ timer' = T!soc_timer_reset
  /\ dma' = soc_dma_reset /\ intc' = soc_intc_reset
  /\ perf' = [soc_perf_reset_counters(perf) EXCEPT !.enabled = TRUE,
                                                   !.CTRL = {"ENABLE"}]
  /\ rom' = IF image = <<>> THEN rom ELSE soc_mem_load_words(image)
  /\ sram' = ZeroMem(SramRegion)
  /\ run' = Running("soc_boot", SOC_BOOT_TICKS)

soc_boot_tick ==
  /\ run.pc = "soc_boot"
  /\ run.n < run.max
  /\ soc_step(perf)
  /\ run' = [run EXCEPT !.n = @ + 1]

soc_boot_return ==
  /\ run.pc = "soc_boot"
  /\ run.n = run.max
  /\ cpu' = [cpu EXCEPT !.running = TRUE]
  /\ run' = Returned(0)
  /\ UNCHANGED <<uart, timer, dma, intc, perf, sram, rom, ticks>>

-----------------------------------------------------------------------------
(* The two loops that poll DMA.STATUS.  Each poll is a bus read that is    *)
(* counted; the step that follows it starts from those counters.           *)

DmaStatusAt == Platform.map[5].base + 4 * WordBytes

Poll == soc_read(Hw, DmaStatusAt)

HardwareIdle == UNCHANGED <<uart, timer, dma, intc, sram, rom, cpu, ticks>>

(* vlab_test_dma_complete.  Mutant: only DONE is looked at. *)
Mutant_driven_done == run.n = run.max \/ "DONE" \in Poll.out

Driven ==
  \/ run.n = run.max
  \/ Poll.out \cap {"DONE", "ERROR"} # {}
  \/ "BUSY" \notin Poll.out

vlab_test_dma_complete ==
  /\ Client
  /\ run' = Running("vlab_test_dma_complete", MaxPolls)
  /\ HardwareIdle
  /\ UNCHANGED perf

(* Mutant: the iterations are not counted. *)
Mutant_complete_uncounted ==
  /\ run.pc = "vlab_test_dma_complete"
  /\ ~Driven
  /\ soc_step(Poll.hw.perf)
  /\ UNCHANGED run

vlab_test_dma_complete_tick ==
  /\ run.pc = "vlab_test_dma_complete"
  /\ ~Driven
  /\ soc_step(Poll.hw.perf)
  /\ run' = [run EXCEPT !.n = @ + 1]

vlab_test_dma_complete_return ==
  /\ run.pc = "vlab_test_dma_complete"
  /\ Driven
  /\ perf' = IF run.n = run.max THEN perf ELSE Poll.hw.perf
  /\ run' = Returned(0)
  /\ HardwareIdle

(* soc_run_until with the predicate of its clients: DONE or ERROR is set.  *)
(* The predicate is looked at once more after the last tick.               *)
pred_done == Poll.out \cap {"DONE", "ERROR"} # {}

soc_run_until(max) ==
  /\ Client
  /\ run' = Running("soc_run_until", max)
  /\ HardwareIdle
  /\ UNCHANGED perf

soc_run_until_tick ==
  /\ run.pc = "soc_run_until"
  /\ run.n < run.max
  /\ ~pred_done
  /\ soc_step(Poll.hw.perf)
  /\ run' = [run EXCEPT !.n = @ + 1]

(* Mutant: no look after the last tick. *)
Mutant_until_return ==
  /\ run.pc = "soc_run_until"
  /\ pred_done \/ run.n = run.max
  /\ perf' = Poll.hw.perf
  /\ run' = Returned(IF run.n < run.max THEN run.n ELSE -1)
  /\ HardwareIdle

soc_run_until_return ==
  /\ run.pc = "soc_run_until"
  /\ pred_done \/ run.n = run.max
  /\ perf' = Poll.hw.perf
  /\ run' = Returned(IF pred_done THEN run.n ELSE -1)
  /\ HardwareIdle

Loop ==
  \/ soc_boot_tick
  \/ soc_boot_return
  \/ vlab_test_dma_complete_tick
  \/ vlab_test_dma_complete_return
  \/ soc_run_until_tick
  \/ soc_run_until_return

-----------------------------------------------------------------------------
(* The test hooks and the fault latches reach past the bus. *)

vlab_test_raise_irq(s, line) == [s EXCEPT !.intc = soc_intc_raise(@, line)]

Hook(code) ==
  /\ Client
  /\ vlab_test_dma_error(code)
  /\ run' = Returned(0)
  /\ UNCHANGED <<timer, perf, rom, cpu, ticks>>

StickDma(s, on) == [s EXCEPT !.dma.fault_stuck_busy = on]

StickUart(s, on) == [s EXCEPT !.uart.stuck = on]

-----------------------------------------------------------------------------
(* The firmware.  VlabRegs is its own table of the register offsets, in    *)
(* words (soc_regs.h); reads that fail give 0 and failing writes are       *)
(* dropped.                                                                *)

VlabRegs ==
  [UART  |-> [TXDATA |-> 0, RXDATA |-> 1, STATUS |-> 2, CTRL |-> 3,
              BAUDDIV |-> 4],
   TIMER |-> [CTRL |-> 0, LOAD |-> 1, VALUE |-> 2, IRQ_STATUS |-> 3,
              IRQ_CLEAR |-> 4],
   DMA   |-> [SRC |-> 0, DST |-> 1, LEN |-> 2, CTRL |-> 3, STATUS |-> 4,
              IRQ_CLEAR |-> 5, ERR_CODE |-> 6],
   INTC  |-> [ENABLE |-> 0, PENDING |-> 1, ACK |-> 2, CLEAR |-> 3,
              ACTIVE |-> 4],
   PERF  |-> [CYCLES |-> 0, MEM_ACC |-> 1, DMA_BYTES |-> 2, IRQ_COUNT |-> 3,
              STALLS |-> 4, CTRL |-> 5]]

Vlab(w, r) ==
  LET k == CHOOSE i \in DOMAIN Windows : Windows[i] = w
  IN  Platform.map[k + 2].base + WordBytes * VlabRegs[w][r]

hal_read_reg(s, w, r) == soc_read(s, Vlab(w, r))

hal_write_reg(s, w, r, v) == soc_write(s, Vlab(w, r), v).hw

(* hal_set_bits and hal_clear_bits are the cases val = mask and val = {}. *)
hal_modify_reg(s, w, r, mask, val) ==
  LET cur == hal_read_reg(s, w, r)
  IN  hal_write_reg(cur.hw, w, r, (cur.out \ mask) \cup (val \cap mask))

uart_init(s) ==
  hal_write_reg(hal_write_reg(s, "UART", "BAUDDIV", 0),
                "UART", "CTRL", {"ENABLE"})

(* dma_init, its last step, touches no hardware. *)
platform_init(s) ==
  LET masked == hal_write_reg(s, "INTC", "ENABLE", {})
      reset  == hal_write_reg(masked, "PERF", "CTRL", {"RESET"})
  IN  uart_init(hal_write_reg(reset, "PERF", "CTRL", {"ENABLE"}))

(* All polls read the same STATUS; a timeout has used them all. *)
uart_write_byte(s, b) ==
  LET ctrl   == hal_read_reg(s, "UART", "CTRL")
      status == hal_read_reg(ctrl.hw, "UART", "STATUS")
  IN  IF "ENABLE" \notin ctrl.out THEN ctrl.hw
      ELSE IF "TX_EMPTY" \in status.out
      THEN hal_write_reg(status.hw, "UART", "TXDATA", b)
      ELSE [status.hw EXCEPT !.perf = Count(@, "MEM_ACC", TxPolls - 1)]

uart_read_byte(s) ==
  LET status == hal_read_reg(s, "UART", "STATUS")
  IN  IF "RX_VALID" \in status.out
      THEN hal_read_reg(status.hw, "UART", "RXDATA").hw ELSE status.hw

timer_start(s, load, periodic, irq_enable) ==
  IF load = 0 THEN s
  ELSE hal_write_reg(hal_write_reg(s, "TIMER", "LOAD", load), "TIMER", "CTRL",
         Bits([ENABLE |-> TRUE, PERIODIC |-> periodic,
               IRQ_ENABLE |-> irq_enable]))

timer_stop(s) == hal_write_reg(s, "TIMER", "CTRL", {})

timer_clear(s) == hal_write_reg(s, "TIMER", "IRQ_CLEAR", {"FIRED"})

intc_enable(s, mask) == hal_write_reg(s, "INTC", "ENABLE", mask)

intc_ack(s) == hal_read_reg(s, "INTC", "ACK").hw

intc_clear(s, irq) == hal_write_reg(s, "INTC", "CLEAR", irq)

dma_clear(s) == hal_write_reg(s, "DMA", "IRQ_CLEAR", {"CLEAR"})

(* Mutant: LEN is written after START. *)
Mutant_dma_start_len_last(s, src, dst, len, irq_enable) ==
  LET status == hal_read_reg(s, "DMA", "STATUS")
      s1     == hal_write_reg(status.hw, "DMA", "SRC", src)
      s2     == hal_write_reg(s1, "DMA", "DST", dst)
      s3     == hal_write_reg(s2, "DMA", "CTRL",
                              Bits([START |-> TRUE, IRQ_ENABLE |-> irq_enable]))
  IN  IF validate(Platform, "BUSY" \in status.out, src, dst, len) # "OK"
      THEN status.hw ELSE hal_write_reg(s3, "DMA", "LEN", len)

dma_start(s, src, dst, len, irq_enable) ==
  LET status == hal_read_reg(s, "DMA", "STATUS")
      s1     == hal_write_reg(status.hw, "DMA", "SRC", src)
      s2     == hal_write_reg(s1, "DMA", "DST", dst)
      s3     == hal_write_reg(s2, "DMA", "LEN", len)
  IN  IF validate(Platform, "BUSY" \in status.out, src, dst, len) # "OK"
      THEN status.hw
      ELSE hal_write_reg(s3, "DMA", "CTRL",
                         Bits([START |-> TRUE, IRQ_ENABLE |-> irq_enable]))

=============================================================================
