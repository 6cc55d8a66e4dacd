------------------------------- MODULE MCSoc --------------------------------
(***************************************************************************)
(* The whole SoC under a client that mixes driver calls, bus accesses past *)
(* the drivers, ticks, both loops, hooks, faults, boot and initialisation. *)
(* The platform is scaled down: words of two bytes, one word of ROM, three *)
(* of SRAM, and register windows with a hole behind their last register.   *)
(*                                                                         *)
(* hist is a history variable: ops is the number of calls the client may   *)
(* still make before the next boot (boot and initialisation renew it), and *)
(* need the ticks that the loop it called will need (Never if the engine   *)
(* does not end).                                                          *)
(***************************************************************************)
EXTENDS Soc, TLC

CONSTANTS MaxOps,      \* bound: calls between two boots
          Transfers,   \* what clients start: source, destination, length,
                       \* and whether with an interrupt
          TimerLoads,  \* what they load the timer with
          UntilTicks,  \* what they pass to soc_run_until
          Stores,      \* addresses and words they store past the drivers
          RawReads,    \* addresses they read past the drivers
          Images       \* what they boot, <<>> for no image

Mmio(base, size) == [base |-> base, size |-> size, type |-> "MMIO"]

MCPlatform ==
  [map |-> << [base |-> 0, size |-> 2, type |-> "ROM"],
              [base |-> 2, size |-> 6, type |-> "SRAM"],
              Mmio(8, 12), Mmio(20, 12), Mmio(32, 16), Mmio(48, 12),
              Mmio(60, 14) >>,
   hasCaps |-> TRUE,
   caps |-> [alignment |-> 2, max_transfer |-> 4,
             supports_ram_to_ram |-> TRUE, supports_mem_to_periph |-> TRUE,
             supports_periph_to_mem |-> TRUE],
   strict |-> TRUE,
   fifo |-> (8 :> {"dst"} @@ 10 :> {"src"})]

(* An overlapping copy, the two streams, and a source that is refused. *)
MCTransfers == {<<2, 4, 4, TRUE>>, <<2, TXDATA, 2, TRUE>>,
                <<RXDATA, 4, 2, FALSE>>, <<0, 2, 2, FALSE>>}

MCStores == {<<2, <<0, 1>>>>}

MCImages == {<<>>, << <<1, 1>>, <<1, 0>> >>}

(* What clients pass is of the kind they pass it for; they store words to  *)
(* memory or to nowhere.                                                   *)
ASSUME SocClientAssumption ==
  /\ MaxOps \in Nat
  /\ \A t \in Transfers : /\ t[1] \in Uint32 /\ t[2] \in Uint32
                          /\ t[3] \in Uint32 /\ t[4] \in BOOLEAN
  /\ TimerLoads \subseteq Nat
  /\ UntilTicks \subseteq Nat
  /\ \A s \in Stores : /\ s[1] \in Uint32 /\ Route[s[1]] < 2
                       /\ s[2] \in Seq(Bytes)
  /\ RawReads \subseteq Uint32
  /\ Platform.hasCaps = TRUE
  /\ Platform.strict \in BOOLEAN

(* No tick of boot makes a counter wrap, malloc does not fail, and the     *)
(* hook polls as often as the longest transfer takes.                      *)
ASSUME SocBoundAssumption ==
  /\ SOC_BOOT_TICKS < CounterMod
  /\ MaxAllocFails = 0
  /\ \A t \in Transfers :
       transfer_ticks(t[3], LatencyPerWord, Burst) <= MaxPolls

(* Windows whose CTRL is modified, with mask and value. *)
Modifications == {<<"DMA", {"IRQ_ENABLE"}, {"IRQ_ENABLE"}>>,
                  <<"UART", {"ENABLE"}, {}>>, <<"PERF", {"RESET"}, {"RESET"}>>}

VARIABLE hist

vars == <<uart, timer, dma, intc, perf, sram, rom, cpu, ticks, run, hist>>

Never == -1

(* The ticks until the engine ends; idle tells what an idle engine         *)
(* without a flag counts as.                                               *)
Need(idle) ==
  IF dma.done \/ dma.error THEN 0
  ELSE IF ~dma.busy THEN idle
  ELSE IF dma.fault_stuck_busy THEN Never ELSE dma.remaining

MCInit == Init /\ hist = [ops |-> MaxOps, need |-> 0]

Calls ==
  \/ \E t \in Transfers : Become(dma_start(Hw, t[1], t[2], t[3], t[4]))
  \/ Become(dma_clear(Hw))
  \/ \E b \in Bytes \ {0} : Become(uart_write_byte(Hw, b))
  \/ Become(uart_read_byte(Hw))
  \/ \E load \in TimerLoads : Become(timer_start(Hw, load, FALSE, TRUE))
  \/ Become(timer_stop(Hw))
  \/ Become(timer_clear(Hw))
  \/ Become(intc_enable(Hw, Lines))
  \/ Become(intc_ack(Hw))
  \/ Become(intc_clear(Hw, DMA))
  \/ \E m \in Modifications :
       Become(hal_modify_reg(Hw, m[1], "CTRL", m[2], m[3]))

(* Stores, a START, TXDATA without a poll and reads past the drivers, the  *)
(* hooks and the faults.                                                   *)
PastDrivers ==
  \/ \E s \in Stores : Become(soc_write(Hw, s[1], s[2]).hw)
  \/ Become(soc_write(Hw, Vlab("DMA", "CTRL"), {"START"}).hw)
  \/ \E b \in Bytes \ {0} : Become(soc_write(Hw, TXDATA, b).hw)
  \/ \E a \in RawReads : Become(soc_read(Hw, a).hw)
  \/ Become(vlab_test_raise_irq(Hw, DMA))
  \/ Hook("ADDR")
  \/ Become(StickDma(Hw, TRUE))
  \/ Become(StickUart(Hw, TRUE))

Tick == soc_host_step /\ UNCHANGED hist

CallLoop ==
  \/ /\ vlab_test_dma_complete
     /\ hist' = [ops |-> hist.ops - 1, need |-> Need(0)]
  \/ /\ \E max \in UntilTicks : soc_run_until(max)
     /\ hist' = [ops |-> hist.ops - 1, need |-> Need(Never)]

LoopStep ==
  /\ Loop
  /\ hist' = IF run'.pc = "client" THEN [hist EXCEPT !.need = 0] ELSE hist

Restart ==
  /\ soc_host_init \/ \E image \in Images : soc_boot(image)
  /\ hist' = [ops |-> MaxOps, need |-> 0]

MCNext ==
  \/ /\ hist.ops > 0
     /\ Calls \/ PastDrivers
     /\ hist' = [hist EXCEPT !.ops = @ - 1]
  \/ hist.ops > 0 /\ CallLoop
  \/ Become(platform_init(Hw)) /\ UNCHANGED hist
  \/ Tick
  \/ LoopStep
  \/ Restart

(* A loop that was called goes on; nothing else has to happen. *)
MCSpec == MCInit /\ [][MCNext]_vars /\ WF_vars(LoopStep)

-----------------------------------------------------------------------------
(* Types of all the hardware; the streams stay within their buffers, fed   *)
(* by the transmitter and by the DMA (soc_uart.c:97-112), and VALUE of the *)
(* timer does not pass zero (soc_timer.c:57).                              *)
SocTypeOK ==
  /\ uart \in UartType
  /\ Len(uart.tx_fifo) <= SOC_UART_DMA_FIFO_SIZE
  /\ Len(uart.rx_fifo) <= SOC_UART_DMA_FIFO_SIZE
  /\ timer \in T!TimerType
  /\ dma \in DmaType
  /\ intc \in IntcType
  /\ perf \in PerfType
  /\ sram \in SramType
  /\ ticks \in Counter
  /\ run \in RunType

(* After soc_boot nothing of the time before is left: the hardware is that *)
(* of a fresh SoC after SOC_BOOT_TICKS ticks with the counters running,    *)
(* whatever was in flight, stuck, pending or counted (soc.c:167-192).      *)
BootIsFresh ==
  [][(run.pc = "soc_boot" /\ run'.pc = "client") =>
       /\ uart' = soc_uart_reset
       /\ timer' = T!soc_timer_reset
       /\ dma' = soc_dma_reset
       /\ intc' = soc_intc_reset
       /\ sram' = ZeroMem(SramRegion)
       /\ ticks' = SOC_BOOT_TICKS
       /\ perf' = [soc_perf_init EXCEPT !.CYCLES = SOC_BOOT_TICKS,
                                        !.enabled = TRUE, !.CTRL = {"ENABLE"}]
       /\ cpu'.running]_vars

(* The access column of the register map (soc_regs.h, soc-spec.md 5). *)
ReadOnlyRegs ==
  {<<"UART", "RXDATA">>, <<"UART", "STATUS">>, <<"TIMER", "VALUE">>,
   <<"DMA", "STATUS">>, <<"DMA", "ERR_CODE">>, <<"INTC", "PENDING">>,
   <<"INTC", "ACK">>, <<"INTC", "ACTIVE">>}

WriteOnlyRegs ==
  {<<"UART", "TXDATA">>, <<"TIMER", "IRQ_CLEAR">>, <<"DMA", "IRQ_CLEAR">>,
   <<"INTC", "CLEAR">>}

AllRegs ==
  UNION {{<<w, r>> : r \in DOMAIN VlabRegs[w]} : w \in DOMAIN VlabRegs}

MemWords(region) ==
  {addr \in Uint32 : /\ addr % WordBytes = 0
                     /\ memory_region_contains(region, addr, WordBytes)}

LegalReads ==
  MemWords(RomRegion) \cup MemWords(SramRegion)
    \cup {Vlab(x[1], x[2]) : x \in AllRegs \ WriteOnlyRegs}

LegalWrites ==
  MemWords(SramRegion) \cup {Vlab(x[1], x[2]) : x \in AllRegs \ ReadOnlyRegs}

(* A value of the kind the register holds. *)
ValueFor ==
  LET sets == {Vlab(w, "CTRL") : w \in {"UART", "TIMER", "DMA", "PERF"}}
              \cup {Vlab("TIMER", "IRQ_STATUS"), Vlab("TIMER", "IRQ_CLEAR"),
                    Vlab("INTC", "ENABLE")}
  IN  [addr \in Uint32 |-> IF addr \in MemWords(SramRegion) THEN <<0>>
                           ELSE IF addr \in sets THEN {} ELSE 1]

(* What an access leaves apart from the counters, and the stalls it adds. *)
Besides(s) == [s EXCEPT !.perf = perf]

StallsAdded(s, n) == s.perf.STALLS = Count(perf, "STALLS", n).STALLS

(* Wherever the client may make an access and at every address, exactly    *)
(* those of the register map succeed; the others (unaligned, unmapped, a   *)
(* hole, a register of the wrong direction, ROM) have no effect but one    *)
(* stall, and of the reads only RXDATA and ACK change anything, so that    *)
(* polling is harmless (soc.c:87-142).                                     *)
AccessRights ==
  (Client /\ hist.ops > 0) =>
    \A addr \in Uint32 :
      LET r == soc_read(Hw, addr)
          w == soc_write(Hw, addr, ValueFor[addr])
      IN  /\ r.rc = "OK" <=> addr \in LegalReads
          /\ StallsAdded(r.hw, IF r.rc = "OK" THEN 0 ELSE 1)
          /\ addr \notin {RXDATA, Vlab("INTC", "ACK")} => Besides(r.hw) = Hw
          /\ w.rc # "BUS" <=> addr \in LegalWrites
          /\ w.rc = "BUS" => Besides(w.hw) = Hw /\ StallsAdded(w.hw, 1)

(* Each driver call, made of bus accesses at the addresses of soc_regs.h,  *)
(* does to its own peripheral exactly what the component modules say of    *)
(* it, touches no other, and causes no stall; the read-modify-write of     *)
(* DMA.CTRL starts nothing.                                                *)
Does(s, direct) == Besides(s) = direct /\ StallsAdded(s, 0)

DriversHitTheirRegisters ==
  (Client /\ hist.ops > 0) =>
    /\ \A load \in TimerLoads \ {0} :
         Does(timer_start(Hw, load, FALSE, TRUE),
              [Hw EXCEPT !.timer = T!soc_timer_write_ctrl(
                 T!soc_timer_write_load(@, load), TRUE, FALSE, TRUE)])
    /\ Does(timer_stop(Hw),
            [Hw EXCEPT !.timer = T!soc_timer_write_ctrl(@, FALSE, FALSE, FALSE)])
    /\ Does(timer_clear(Hw), [Hw EXCEPT !.timer = T!soc_timer_write_clear(@)])
    /\ Does(intc_enable(Hw, {DMA}),
            [Hw EXCEPT !.intc = soc_intc_write_enable(@, {DMA})])
    /\ Does(intc_ack(Hw), [Hw EXCEPT !.intc = soc_intc_ack(@)])
    /\ Does(intc_clear(Hw, DMA),
            [Hw EXCEPT !.intc = soc_intc_write_clear(@, DMA)])
    /\ Does(dma_clear(Hw), [Hw EXCEPT !.dma = Cleared(@)])
    /\ \A b \in Bytes :
         Does(uart_write_byte(Hw, b),
              IF uart.busy > 0 THEN Hw
              ELSE [Hw EXCEPT !.uart = soc_uart_write_txdata(@, b, UartLatency)])
    /\ Does(uart_read_byte(Hw), [Hw EXCEPT !.uart = soc_uart_read_rxdata(@)])
    /\ Does(hal_modify_reg(Hw, "DMA", "CTRL", {"IRQ_ENABLE"}, {}),
            [Hw EXCEPT !.dma.ctrl = {}])
    /\ \A t \in Transfers :
         LET d    == [dma EXCEPT !.src = t[1], !.dst = t[2], !.length = t[3]]
             code == soc_dma_start_code(Platform, t[1], t[2], t[3])
         IN  Does(dma_start(Hw, t[1], t[2], t[3], TRUE),
                  IF dma.busy \/ code # "OK" THEN Hw
                  ELSE [Hw EXCEPT !.dma = soc_dma_write_start(d, TRUE)])

(* The bytes of a finished transfer are where they belong: a copy within   *)
(* SRAM is a memmove, a transfer to TXDATA is appended to the stream       *)
(* behind a byte that the UART sends in the same tick, and one from RXDATA *)
(* already contains that byte (the order of soc.c:150-152).                *)
InFlight == IF UartSends(uart) THEN <<uart.txdata>> ELSE <<>>

Cut(stream) ==
  SubSeq(stream, 1, SmallerOf(Len(stream), SOC_UART_DMA_FIFO_SIZE))

Moved(k) ==
  LET stream == Cut(uart.rx_fifo \o InFlight)
  IN  IF dma.src # RXDATA THEN sram[dma.src - SramRegion.base + k]
      ELSE IF k < Len(stream) THEN stream[k + 1] ELSE 0

DataArrives ==
  [][(dma.busy /\ dma'.done) =>
       /\ uart'.tx_fifo =
            Cut(uart.tx_fifo \o InFlight \o
                (IF dma.dst = TXDATA
                 THEN [k \in 1 .. dma.length |-> Moved(k - 1)] ELSE <<>>))
       /\ \A o \in DOMAIN sram :
            LET k == o + SramRegion.base - dma.dst
            IN  sram'[o] = IF dma.dst # TXDATA /\ k \in 0 .. dma.length - 1
                           THEN Moved(k) ELSE sram[o]]_vars

(* An interrupt that is pending stays so until it is acknowledged as the   *)
(* line of highest priority, which makes it active and counts it; only     *)
(* boot and initialisation take it back otherwise.                         *)
PendingOnlyAcked ==
  [][\A l \in intc.pending \ intc'.pending :
       \/ /\ l = soc_intc_highest(intc)
          /\ l \in intc'.active
          /\ perf'.IRQ_COUNT = Count(perf, "IRQ_COUNT", 1).IRQ_COUNT
       \/ Restart]_vars

(* soc_run_until returns the number of ticks that the transfer needed, and *)
(* -1 iff it needed more than it was given: a transfer that ends in the    *)
(* very last tick is reported (soc.c:156-165).                             *)
RunUntilExact ==
  [][(run.pc = "soc_run_until" /\ run'.pc = "client") =>
       run'.n = IF hist.need = Never \/ hist.need > run.max THEN -1
                ELSE hist.need]_vars

(* vlab_test_dma_complete steps a busy engine to its terminal flag and not *)
(* one tick further; it does not step an idle one (host_bridge.c:48-60).   *)
HookDrivesToEnd ==
  [][(run.pc = "vlab_test_dma_complete" /\ run'.pc = "client") =>
       IF hist.need = Never THEN run.n = MaxPolls
       ELSE run.n = hist.need /\ ~dma'.busy]_vars

(* Boot and both loops return, also with a stuck engine. *)
LoopsReturn == run.pc # "client" ~> run.pc = "client"

=============================================================================
