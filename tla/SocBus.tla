------------------------------- MODULE SocBus -------------------------------
(***************************************************************************)
(* The bus of the SoC (soc_read and soc_write of soc_c/src/soc.c) and the  *)
(* register windows behind it.                                             *)
(*                                                                         *)
(* A register access is a function on the record Hw of all the hardware,   *)
(* so that a driver call is the composition of its accesses.  A CTRL or    *)
(* STATUS register is the set of its bits, a line register a set of lines, *)
(* a word of memory the tuple of its bytes.  BAUDDIV is informational and  *)
(* stays at the zero that the firmware writes.                             *)
(***************************************************************************)
EXTENDS DmaEngine, Perf

CONSTANT UartLatency  \* config.uart_latency_ticks

VARIABLES timer, rom

(* The timer's own definitions; LOAD takes any value here. *)
T == INSTANCE Timer WITH Loads <- Nat

Hw == [uart |-> uart, timer |-> timer, dma |-> dma, intc |-> intc,
       perf |-> perf, sram |-> sram, rom |-> rom]

RomRegion == Platform.map[1]

ZeroMem(region) == [o \in 0 .. region.size - 1 |-> 0]

(* The register offsets of the SoC, in words, by window: the regions 2 to  *)
(* 6 of the platform table.                                                *)
Windows == <<"UART", "TIMER", "DMA", "INTC", "PERF">>

SOC_UART_OFF  == <<"TXDATA", "RXDATA", "STATUS", "CTRL", "BAUDDIV">>

SOC_TIMER_OFF == <<"CTRL", "LOAD", "VALUE", "IRQ_STATUS", "IRQ_CLEAR">>

SOC_DMA_OFF ==
  <<"SRC", "DST", "LEN", "CTRL", "STATUS", "IRQ_CLEAR", "ERR_CODE">>

SOC_INTC_OFF  == <<"ENABLE", "PENDING", "ACK", "CLEAR", "ACTIVE">>

SOC_PERF_OFF ==
  <<"CYCLES", "MEM_ACC", "DMA_BYTES", "IRQ_COUNT", "STALLS", "CTRL">>

SocOffsets == [UART |-> SOC_UART_OFF, TIMER |-> SOC_TIMER_OFF,
               DMA |-> SOC_DMA_OFF, INTC |-> SOC_INTC_OFF,
               PERF |-> SOC_PERF_OFF]

(* The platform table: two memories and five windows of whole words that   *)
(* do not overlap, each window with room for its registers, and the DMA's  *)
(* FIFOs at the data registers of the UART.                                *)
ASSUME BusAssumption ==
  /\ UartLatency \in Uint32
  /\ Len(Platform.map) = 7
  /\ WellFormedMap(Platform.map)
  /\ WordAlignedMap(Platform.map)
  /\ \A i \in DOMAIN Windows :
       Platform.map[i + 2].size >= WordBytes * Len(SocOffsets[Windows[i]])
  /\ TXDATA = Platform.map[3].base
  /\ RXDATA = Platform.map[3].base + WordBytes

-----------------------------------------------------------------------------
(* Register accesses: what the window w makes of one, as the hardware      *)
(* after it, the return code and the value read.                           *)

OK(s, v)    == [hw |-> s, rc |-> "OK", out |-> v]
Fault(s)    == [hw |-> s, rc |-> "BUS", out |-> 0]
Stalled(s)  == [s EXCEPT !.perf = Count(@, "STALLS", 1)]
Bits(named) == {b \in DOMAIN named : named[b]}

soc_uart_status(u) ==
  Bits([TX_BUSY |-> u.busy > 0, TX_EMPTY |-> ~(u.busy > 0),
        RX_VALID |-> u.rx_valid])

soc_dma_status(d) ==
  Bits([BUSY |-> d.busy, DONE |-> d.done, ERROR |-> d.error])

(* The readable registers of each window with their values. *)
soc_uart_read(u) ==
  [RXDATA |-> u.rxdata, STATUS |-> soc_uart_status(u),
   CTRL |-> Bits([ENABLE |-> u.enabled]), BAUDDIV |-> 0]

soc_timer_read(t) ==
  [CTRL |-> Bits([ENABLE |-> t.enable, PERIODIC |-> t.periodic,
                  IRQ_ENABLE |-> t.irq_en]),
   LOAD |-> t.load, VALUE |-> t.value,
   IRQ_STATUS |-> Bits([FIRED |-> t.fired])]

soc_dma_read(d) ==
  [SRC |-> d.src, DST |-> d.dst, LEN |-> d.length,
   CTRL |-> d.ctrl,
   STATUS |-> soc_dma_status(d), ERR_CODE |-> d.err_code]

soc_intc_read(ic) ==
  [ENABLE |-> ic.enable, PENDING |-> ic.pending, ACTIVE |-> ic.active,
   ACK |-> soc_intc_highest(ic)]

soc_perf_read(p) == [r \in PerfCounters \cup {"CTRL"} |-> p[r]]

Readable(s, w) ==
  CASE w = "UART"  -> soc_uart_read(s.uart)
    [] w = "TIMER" -> soc_timer_read(s.timer)
    [] w = "DMA"   -> soc_dma_read(s.dma)
    [] w = "INTC"  -> soc_intc_read(s.intc)
    [] w = "PERF"  -> soc_perf_read(s.perf)

(* Two reads change state: RXDATA takes the byte, ACK takes the interrupt  *)
(* and counts it.                                                          *)
soc_periph_read(s, w, r) ==
  LET window == Readable(s, w)
  IN  IF r \notin DOMAIN window THEN Fault(s)
      ELSE OK(CASE r = "RXDATA" -> [s EXCEPT !.uart = soc_uart_read_rxdata(@)]
                [] r = "ACK" /\ window[r] # IRQ_NONE ->
                     [s EXCEPT !.intc = soc_intc_ack(@),
                               !.perf = Count(@, "IRQ_COUNT", 1)]
                [] OTHER -> s, window[r])

(* TXDATA of a disabled UART is refused and counted, but no bus error. *)
soc_uart_write(s, r, v) ==
  CASE r = "TXDATA" /\ ~s.uart.enabled ->
         [hw |-> Stalled(s), rc |-> "DISABLED", out |-> 0]
    [] r = "TXDATA" /\ s.uart.enabled ->
         OK([s EXCEPT !.uart = soc_uart_write_txdata(@, v, UartLatency)], 0)
    [] r = "CTRL" ->
         OK([s EXCEPT !.uart = soc_uart_write_ctrl(@, "ENABLE" \in v)], 0)
    [] r = "BAUDDIV" -> OK(s, 0)
    [] OTHER -> Fault(s)

soc_timer_write(s, r, v) ==
  CASE r = "CTRL" ->
         OK([s EXCEPT !.timer = T!soc_timer_write_ctrl(@,
               "ENABLE" \in v, "PERIODIC" \in v, "IRQ_ENABLE" \in v)], 0)
    [] r = "LOAD" -> OK([s EXCEPT !.timer = T!soc_timer_write_load(@, v)], 0)
    [] r \in {"IRQ_STATUS", "IRQ_CLEAR"} ->
         OK(IF "FIRED" \in v
            THEN [s EXCEPT !.timer = T!soc_timer_write_clear(@)] ELSE s, 0)
    [] OTHER -> Fault(s)

(* A START of a busy engine is ignored and counted. *)
soc_dma_write_CTRL(s, v) ==
  LET irq == "IRQ_ENABLE" \in v
  IN  IF "START" \notin v THEN [s EXCEPT !.dma.ctrl = CtrlStored(IrqBit(irq))]
      ELSE [(IF s.dma.busy THEN Stalled(s) ELSE s) EXCEPT
              !.dma = soc_dma_write_start(@, irq),
              !.intc = StartIntc(s.dma, irq, @)]

soc_dma_write(s, r, v) ==
  CASE r = "SRC" -> OK([s EXCEPT !.dma.src = v], 0)
    [] r = "DST" -> OK([s EXCEPT !.dma.dst = v], 0)
    [] r = "LEN" -> OK([s EXCEPT !.dma.length = v], 0)
    [] r = "CTRL" -> OK(soc_dma_write_CTRL(s, v), 0)
    [] r = "IRQ_CLEAR" -> OK([s EXCEPT !.dma = Cleared(@)], 0)
    [] OTHER -> Fault(s)

soc_intc_write(s, r, v) ==
  CASE r = "ENABLE" -> OK([s EXCEPT !.intc = soc_intc_write_enable(@, v)], 0)
    [] r = "CLEAR" -> OK([s EXCEPT !.intc = soc_intc_write_clear(@, v)], 0)
    [] OTHER -> Fault(s)

soc_perf_write(s, r, v) ==
  CASE r \in PerfCounters -> OK([s EXCEPT !.perf[r] = v], 0)
    [] r = "CTRL" -> OK([s EXCEPT !.perf = soc_perf_write_ctrl(@, v)], 0)
    [] OTHER -> Fault(s)

soc_periph_write(s, w, r, v) ==
  CASE w = "UART" -> soc_uart_write(s, r, v)
    [] w = "TIMER" -> soc_timer_write(s, r, v)
    [] w = "DMA" -> soc_dma_write(s, r, v)
    [] w = "INTC" -> soc_intc_write(s, r, v)
    [] w = "PERF" -> soc_perf_write(s, r, v)

-----------------------------------------------------------------------------
(* The bus.  An unaligned address never becomes a transaction; everything  *)
(* else is counted before it is decoded, and a bus error stalls.           *)

(* The decoder as a table. *)
Route == [addr \in Uint32 |-> soc_bus_route(Platform.map, addr)]

(* The window and the register at addr, "hole" where it has none. *)
RegisterAt ==
  [addr \in {a \in Uint32 : Route[a] > 1} |->
     LET regs == SocOffsets[Windows[Route[addr] - 1]]
         word == (addr - Platform.map[Route[addr] + 1].base) \div WordBytes + 1
     IN  IF word \in DOMAIN regs THEN regs[word] ELSE "hole"]

WindowAt(addr) == Windows[Route[addr] - 1]

Counted(s) == [s EXCEPT !.perf = Count(@, "MEM_ACC", 1)]

Answered(a) == IF a.rc = "BUS" THEN Fault(Stalled(a.hw)) ELSE a

MemWord(m, region, addr) ==
  [k \in 1 .. WordBytes |-> m[addr - region.base + k - 1]]

soc_read(s, addr) ==
  LET t == Counted(s)
  IN  IF addr % WordBytes # 0 THEN Fault(Stalled(s))
      ELSE Answered(
        CASE Route[addr] = None -> Fault(t)
          [] Route[addr] = 0 -> OK(t, MemWord(t.rom, RomRegion, addr))
          [] Route[addr] = 1 -> OK(t, MemWord(t.sram, SramRegion, addr))
          [] OTHER -> soc_periph_read(t, WindowAt(addr), RegisterAt[addr]))

(* Mutant: a store to ROM is dropped without an error. *)
Mutant_write_rom_ignored(s, addr, v) ==
  LET t == Counted(s)
  IN  IF addr % WordBytes # 0 THEN Fault(Stalled(s))
      ELSE Answered(
        CASE Route[addr] = None -> Fault(t)
          [] Route[addr] = 0 -> OK(t, 0)
          [] Route[addr] = 1 ->
               OK([t EXCEPT !.sram = soc_mem_write_bytes(@, addr, v)], 0)
          [] OTHER -> soc_periph_write(t, WindowAt(addr), RegisterAt[addr], v))

(* ROM is read-only. *)
soc_write(s, addr, v) ==
  LET t == Counted(s)
  IN  IF addr % WordBytes # 0 THEN Fault(Stalled(s))
      ELSE Answered(
        CASE Route[addr] \in {None, 0} -> Fault(t)
          [] Route[addr] = 1 ->
               OK([t EXCEPT !.sram = soc_mem_write_bytes(@, addr, v)], 0)
          [] OTHER -> soc_periph_write(t, WindowAt(addr), RegisterAt[addr], v))

=============================================================================
