------------------------- MODULE MCDmaEngineProofs --------------------------
(***************************************************************************)
(* The engine (soc_c/src/soc_dma.c) under a client that writes its         *)
(* registers in any order at any time, for every platform whose tables fit *)
(* the bridges: what STATUS shows, when a transfer ends, which interrupt   *)
(* it raises, and that an accepted transfer does not fault.                *)
(***************************************************************************)
EXTENDS MCDmaEngine, CommonProofs

(***************************************************************************)
(* The inductive invariant.  EndsOnTime needs that the count of elapsed    *)
(* ticks has not saturated, which the bound on failing mallocs gives; the  *)
(* interrupt needs the latch of START and not CTRL, which a client may     *)
(* rewrite; and AcceptedNeverFaults needs that the registers of an         *)
(* untouched transfer are the ones START validated.                        *)
(***************************************************************************)
HistType == [irq : BOOLEAN, ticks : Int, elapsed : Int, touched : BOOLEAN]

UartFields ==
  uart = [enabled |-> uart.enabled, txdata |-> uart.txdata,
          rxdata |-> uart.rxdata, busy |-> uart.busy,
          rx_valid |-> uart.rx_valid, stuck |-> uart.stuck,
          tx_fifo |-> uart.tx_fifo, rx_fifo |-> uart.rx_fifo]

Accepted(d) == soc_dma_start_code(Platform, d.src, d.dst, d.length) = "OK"

(* What holds of a transfer in progress. *)
TransferInv ==
  dma.busy =>
    /\ dma.remaining >= 1 - MaxAllocFails
    /\ hist.irq = dma.irq_enable_latched
    /\ ~hist.touched => Accepted(dma)

EngineInv ==
  /\ dma \in DmaType
  /\ intc \in IntcType
  /\ hist \in HistType
  /\ UartFields
  /\ StatusCoherent
  /\ EndsOnTime
  /\ TransferInv

(* The flags of an engine: at most one of BUSY, DONE and ERROR, and a code *)
(* exactly with ERROR.                                                     *)
Coherent(d) ==
  /\ ~(d.busy /\ d.done)
  /\ ~(d.busy /\ d.error)
  /\ ~(d.done /\ d.error)
  /\ d.error <=> d.err_code # NoErr

-----------------------------------------------------------------------------
(* The operations of the engine. *)

(* What a write stores in CTRL: the bit IRQ_ENABLE, and never START. *)
LEMMA CtrlFacts ==
  ASSUME NEW irq \in BOOLEAN
  PROVE  /\ CtrlStored({"START"} \cup IrqBit(irq)) = IrqBit(irq)
         /\ CtrlStored(IrqBit(irq)) = IrqBit(irq)
         /\ IrqBit(irq) \in SUBSET {"START", "IRQ_ENABLE"}
         /\ ("IRQ_ENABLE" \in IrqBit(irq)) = irq
BY DEF CtrlStored, IrqBit

(* A write of CTRL with START (soc_dma.c:108-165): a busy engine goes on,  *)
(* an idle one fails with a code or begins an accepted transfer.           *)
LEMMA StartFacts ==
  ASSUME NEW d \in DmaType, Coherent(d), NEW irq \in BOOLEAN
  PROVE  LET e == soc_dma_write_start(d, irq)
         IN  /\ e \in DmaType
             /\ Coherent(e)
             /\ ("IRQ_ENABLE" \in e.ctrl) = irq
             /\ <<e.src, e.dst, e.length>> = <<d.src, d.dst, d.length>>
             /\ d.busy => /\ e.busy /\ e.remaining = d.remaining
                          /\ e.irq_enable_latched = d.irq_enable_latched
             /\ ~d.busy => e.irq_enable_latched = irq
             /\ e.busy /\ ~d.busy =>
                  /\ Accepted(d)
                  /\ e.remaining = transfer_ticks(d.length, LatencyPerWord, Burst)
             /\ e.error = soc_dma_start(d, irq).error
             /\ e.irq_enable_latched = soc_dma_start(d, irq).irq_enable_latched
<1> DEFINE code == soc_dma_start_code(Platform, d.src, d.dst, d.length)
           n    == transfer_ticks(d.length, LatencyPerWord, Burst)
           d1   == [Cleared(d) EXCEPT !.irq_enable_latched = irq]
           s    == soc_dma_start(d, irq)
           bits == IrqBit(irq)
<1>1. code \in ErrCodes \cup {"OK"} /\ NoErr \notin ErrCodes
  BY StartCodeType DEF ErrCodes, NoErr
<1>2. n \in Int
  BY TicksAreInt, EngineAssumption, WidthAssumption DEF Uint32, DmaType
<1>3. s = IF d.busy THEN d
          ELSE IF code # "OK" THEN soc_dma_fail(d1, code)
          ELSE [d1 EXCEPT !.busy = TRUE, !.remaining = n]
  BY DEF soc_dma_start
<1>4. Accepted(d) <=> code = "OK"
  BY DEF Accepted
<1>5. soc_dma_write_start(d, irq) = [s EXCEPT !.ctrl = bits]
  BY CtrlFacts DEF soc_dma_write_start
<1>7. /\ bits \in SUBSET {"START", "IRQ_ENABLE"}
      /\ ("IRQ_ENABLE" \in bits) = irq
  BY CtrlFacts
<1> HIDE DEF code, n, s, bits
<1>6. /\ s \in DmaType
      /\ Coherent(s)
      /\ <<s.src, s.dst, s.length>> = <<d.src, d.dst, d.length>>
      /\ d.busy => s = d
      /\ ~d.busy => s.irq_enable_latched = irq
      /\ s.busy /\ ~d.busy => Accepted(d) /\ s.remaining = n
  BY <1>1, <1>2, <1>3, <1>4 DEF soc_dma_fail, Cleared, DmaType, Coherent
<1> HIDE DEF d1
<1> QED BY <1>5, <1>6, <1>7 DEF DmaType, Coherent, n, s

(* Raised adds the DMA line to PENDING iff the latch is set. *)
LEMMA RaisedFacts ==
  ASSUME NEW d \in DmaType, NEW ic \in IntcType
  PROVE  /\ Raised(d, ic) \in IntcType
         /\ DMA \in Raised(d, ic).pending
              <=> (d.irq_enable_latched \/ DMA \in ic.pending)
<1>1. DMA \in Lines
  BY DEF Lines
<1> QED BY <1>1, RaiseFacts DEF Raised, DmaType

(* What the engine accepts at START, the bridges can move: an endpoint is  *)
(* the FIFO with the right role, or lies in the SRAM (soc.c and            *)
(* soc_dma.c:108-165).                                                     *)
LEMMA AcceptedMoves ==
  ASSUME NEW d \in DmaType, Accepted(d)
  PROVE  ReaderOK(d) /\ WriterOK(d)
<1>1. ASSUME NEW addr, NEW role \in Roles,
             soc_endpoint_class(Platform, addr, d.length)
               \notin {"invalid", "incapable"},
             ~(dma_periph_find(Platform, addr)
                 /\ role \notin Platform.fifo[addr])
      PROVE  \/ addr \in DOMAIN Platform.fifo /\ role \in Platform.fifo[addr]
             \/ soc_mem_contains(addr, d.length)
  <2>1. CASE dma_periph_find(Platform, addr)
    BY <1>1, <2>1 DEF dma_periph_find
  <2>2. CASE ~dma_periph_find(Platform, addr)
    <3> DEFINE S == Containing(Platform.map, addr, d.length)
               i == find_region(Platform.map, addr, d.length)
    <3>1. i # None /\ IsMem(Platform.map[i + 1])
      BY <1>1, <2>2, BridgeAssumption DEF soc_endpoint_class
    <3>2. S \subseteq Nat
      BY EngineAssumption DEF Containing
    <3>3. i \in S
      BY <3>1, <3>2, FirstFacts DEF find_region
    <3>4. /\ i + 1 \in 1 .. Len(Platform.map)
          /\ memory_region_contains(Platform.map[i + 1], addr, d.length)
      BY <3>3, EngineAssumption DEF Containing
    <3>5. i + 1 = 2
      BY <3>1, <3>4, BridgeAssumption
    <3> QED BY <3>4, <3>5 DEF soc_mem_contains, SramRegion
  <2> QED BY <2>1, <2>2
<1>2. /\ soc_endpoint_class(Platform, d.src, d.length)
           \notin {"invalid", "incapable"}
      /\ soc_endpoint_class(Platform, d.dst, d.length)
           \notin {"invalid", "incapable"}
      /\ ~(dma_periph_find(Platform, d.src)
             /\ "src" \notin Platform.fifo[d.src])
      /\ ~(dma_periph_find(Platform, d.dst)
             /\ "dst" \notin Platform.fifo[d.dst])
  BY DEF Accepted, soc_dma_start_code
<1>3. "src" \in Roles /\ "dst" \in Roles
  BY DEF Roles
<1> QED BY <1>1, <1>2, <1>3, BridgeAssumption DEF ReaderOK, WriterOK

-----------------------------------------------------------------------------
(* The steps. *)

(* A step keeps the invariant if it leaves a transfer in progress its      *)
(* latch and its countdown, and if a transfer it begins is accepted.       *)
LEMMA RecordKeeps ==
  ASSUME EngineInv, NEW counted \in BOOLEAN, Record(counted),
         dma' \in DmaType, intc' \in IntcType, UartFields', Coherent(dma'),
         dma.busy /\ dma'.busy =>
           /\ dma'.irq_enable_latched = dma.irq_enable_latched
           /\ IF counted /\ ~dma.fault_stuck_busy
              THEN /\ dma'.remaining = dma.remaining - 1
                   /\ dma'.remaining >= 1 - MaxAllocFails
              ELSE dma'.remaining = dma.remaining,
         ~dma.busy /\ dma'.busy =>
           /\ Accepted(dma)
           /\ <<dma'.src, dma'.dst, dma'.length>> = <<dma.src, dma.dst, dma.length>>
           /\ dma'.remaining = transfer_ticks(dma.length, LatencyPerWord, Burst)
           /\ ("IRQ_ENABLE" \in dma'.ctrl) = dma'.irq_enable_latched
  PROVE  EngineInv'
<1>1. /\ dma \in DmaType /\ hist \in HistType
      /\ EndsOnTime /\ TransferInv /\ MaxAllocFails \in Nat
  BY EngineAssumption DEF EngineInv
<1>2. StatusCoherent'
  BY DEF Coherent, StatusCoherent
<1>3. hist' \in HistType /\ EndsOnTime' /\ TransferInv'
  <2>1. CASE ~dma'.busy
    <3>1. hist' = NoTransfer
      BY <2>1 DEF Record
    <3>2. NoTransfer \in HistType
      BY DEF NoTransfer, HistType
    <3> QED BY <2>1, <3>1, <3>2 DEF EndsOnTime, TransferInv
  <2>2. CASE ~dma.busy /\ dma'.busy
    <3> DEFINE n == transfer_ticks(dma.length, LatencyPerWord, Burst)
    <3>1. n \in Int /\ n >= 1
      <4>1. dma.length \in Nat
        BY <1>1, WidthAssumption DEF Uint32, DmaType
      <4> QED BY <4>1, TicksAreInt, EngineAssumption
    <3>2. /\ hist' = [irq |-> "IRQ_ENABLE" \in dma'.ctrl, elapsed |-> 0,
                      touched |-> FALSE, ticks |-> n]
          /\ dma'.remaining = n
      BY <2>2 DEF Record
    <3>3. Accepted(dma)'
      BY <2>2 DEF Accepted
    <3>4. /\ ("IRQ_ENABLE" \in dma'.ctrl) = dma'.irq_enable_latched
          /\ dma'.irq_enable_latched \in BOOLEAN
      BY <2>2 DEF DmaType
    <3> HIDE DEF n
    <3> QED BY <1>1, <3>1, <3>2, <3>3, <3>4 DEF HistType, EndsOnTime, TransferInv
  <2>3. CASE dma.busy /\ dma'.busy
    <3> DEFINE more == counted /\ ~dma.fault_stuck_busy /\ hist.elapsed < MaxElapsed
               same == <<dma'.src, dma'.dst, dma'.length>>
                         = <<dma.src, dma.dst, dma.length>>
    <3>1. hist' = [hist EXCEPT !.elapsed = IF more THEN @ + 1 ELSE @,
                               !.touched = @ \/ ~same]
      BY <2>3 DEF Record
    <3>2. /\ hist.elapsed + dma.remaining = hist.ticks
          /\ dma.remaining >= 1 - MaxAllocFails
          /\ dma.remaining \in Int /\ hist.elapsed \in Int /\ hist.ticks \in Int
      BY <1>1, <2>3 DEF EndsOnTime, TransferInv, DmaType, HistType
    <3>3. hist.elapsed < MaxElapsed
      BY <1>1, <3>2 DEF MaxElapsed
    <3>4. same /\ Accepted(dma) => Accepted(dma)'
      BY DEF Accepted
    <3>5. /\ hist'.irq = hist.irq /\ hist'.ticks = hist.ticks
          /\ hist'.elapsed = IF more THEN hist.elapsed + 1 ELSE hist.elapsed
          /\ hist'.touched = (hist.touched \/ ~same)
          /\ hist' \in HistType
      <4> DEFINE el == IF more THEN hist.elapsed + 1 ELSE hist.elapsed
                 to == hist.touched \/ ~same
      <4>1. el \in Int /\ to \in BOOLEAN
        BY <3>2
      <4>2. hist' = [hist EXCEPT !.elapsed = el, !.touched = to]
        BY <3>1
      <4> HIDE DEF el, to
      <4>3. /\ hist'.irq = hist.irq /\ hist'.ticks = hist.ticks
            /\ hist'.elapsed = el /\ hist'.touched = to
            /\ hist' \in HistType
        BY <1>1, <4>1, <4>2 DEF HistType
      <4> QED BY <4>3 DEF el, to
    <3>6. EndsOnTime'
      BY <2>3, <3>2, <3>3, <3>5 DEF EndsOnTime
    <3> HIDE DEF same
    <3>7. TransferInv'
      BY <1>1, <2>3, <3>2, <3>4, <3>5 DEF TransferInv
    <3> QED BY <3>5, <3>6, <3>7
  <2> QED BY <2>1, <2>2, <2>3 DEF DmaType
<1> QED BY <1>2, <1>3 DEF EngineInv

(* The countdown of a tick touches nothing else. *)
LEMMA CountFacts ==
  ASSUME NEW d \in DmaType, Coherent(d)
  PROVE  LET e == [d EXCEPT !.remaining = @ - 1]
         IN  /\ e \in DmaType /\ Coherent(e)
             /\ e.busy = d.busy /\ e.error = d.error
             /\ e.irq_enable_latched = d.irq_enable_latched
             /\ e.remaining = d.remaining - 1
BY DEF DmaType, Coherent

(* A tick: it counts down, or ends the transfer with its interrupt. *)
LEMMA TickFacts ==
  ASSUME EngineInv, soc_dma_step(uart, intc)
  PROVE  /\ dma' \in DmaType /\ intc' \in IntcType /\ UartFields'
         /\ Coherent(dma')
         /\ ~dma.busy => ~dma'.busy
         /\ dma.busy /\ dma'.busy =>
              /\ dma'.irq_enable_latched = dma.irq_enable_latched
              /\ IF ~dma.fault_stuck_busy
                 THEN /\ dma'.remaining = dma.remaining - 1
                      /\ dma'.remaining >= 1 - MaxAllocFails
                 ELSE dma'.remaining = dma.remaining
         /\ dma.busy /\ ~dma'.busy =>
              (DMA \in intc'.pending
                 <=> (dma.irq_enable_latched \/ DMA \in intc.pending))
         /\ dma.busy /\ dma'.error =>
              /\ ~(ReaderOK(dma) /\ WriterOK(dma))
              /\ sram' = sram /\ uart'.tx_fifo = uart.tx_fifo
<1>1. /\ dma \in DmaType /\ intc \in IntcType /\ UartFields
      /\ Coherent(dma) /\ MaxAllocFails \in Nat /\ dma.remaining \in Int
      /\ dma.busy => dma.remaining >= 1 - MaxAllocFails
  BY EngineAssumption
     DEF EngineInv, StatusCoherent, Coherent, TransferInv, DmaType
<1>2. CASE soc_dma_step_idle(uart, intc)
  <2>1. /\ dma' = IF Counting(dma) THEN [dma EXCEPT !.remaining = @ - 1] ELSE dma
        /\ uart' = uart /\ intc' = intc
    BY <1>2 DEF soc_dma_step_idle
  <2>2. Counting(dma) => dma.remaining - 1 >= 1
    BY <1>1, <1>2 DEF soc_dma_step_idle, LastTick
  <2>3. /\ dma' \in DmaType /\ Coherent(dma') /\ dma'.busy = dma.busy
        /\ dma'.error = dma.error
        /\ dma'.irq_enable_latched = dma.irq_enable_latched
        /\ dma'.remaining = IF Counting(dma) THEN dma.remaining - 1
                            ELSE dma.remaining
    BY <1>1, <2>1, CountFacts
  <2> QED BY <1>1, <2>1, <2>2, <2>3 DEF Counting, UartFields, Coherent
<1>3. CASE soc_dma_step_nomem(uart, intc)
  <2>1. /\ dma' = [dma EXCEPT !.remaining = @ - 1]
        /\ uart' = uart /\ intc' = intc
        /\ dma.remaining > 1 - MaxAllocFails /\ Counting(dma)
    BY <1>3 DEF soc_dma_step_nomem, LastTick
  <2>3. /\ dma' \in DmaType /\ Coherent(dma') /\ dma'.busy = dma.busy
        /\ dma'.error = dma.error
        /\ dma'.irq_enable_latched = dma.irq_enable_latched
        /\ dma'.remaining = dma.remaining - 1
    BY <1>1, <2>1, CountFacts
  <2> QED BY <1>1, <2>1, <2>3 DEF Counting, UartFields, Coherent
<1>4. CASE soc_dma_step_fault(uart, intc)
  <2>1. /\ dma' = [soc_dma_fail(dma, "ADDR") EXCEPT !.remaining = @ - 1]
        /\ intc' = Raised(dma, intc) /\ sram' = sram
        /\ uart' = uart \/ uart' = soc_uart_dma_rx_drain(uart, dma.length)
        /\ ~(ReaderOK(dma) /\ WriterOK(dma)) /\ Counting(dma)
    BY <1>4 DEF soc_dma_step_fault, UartAfterRead, LastTick
  <2>2. dma' \in DmaType /\ Coherent(dma') /\ ~dma'.busy
    <3>1. LET e == soc_dma_fail(dma, "ADDR")
          IN  e \in DmaType /\ Coherent(e) /\ ~e.busy
      BY <1>1 DEF DmaType, Coherent, soc_dma_fail, ErrCodes, NoErr
    <3> QED BY <2>1, <3>1, CountFacts
  <2>3. UartFields' /\ uart'.tx_fifo = uart.tx_fifo
    BY <1>1, <2>1 DEF UartFields, soc_uart_dma_rx_drain
  <2> QED BY <1>1, <2>1, <2>2, <2>3, RaisedFacts DEF Counting
<1>5. CASE soc_dma_step_done(uart, intc)
  <2> DEFINE payload == soc_dma_reader_bridge(dma, uart, sram)
             drained == UartAfterRead(dma, uart)
  <2>1. /\ dma' = [Completed(dma) EXCEPT !.remaining = @ - 1]
        /\ intc' = Raised(dma, intc) /\ Counting(dma)
        /\ uart' = IF dma.dst = TXDATA
                   THEN soc_uart_dma_tx_append(drained, payload) ELSE drained
    BY <1>5 DEF soc_dma_step_done, LastTick
  <2>2. dma' \in DmaType /\ Coherent(dma') /\ ~dma'.busy /\ ~dma'.error
    <3>1. LET e == Completed(dma)
          IN  e \in DmaType /\ Coherent(e) /\ ~e.busy /\ ~e.error
      BY <1>1, <2>1 DEF DmaType, Coherent, Completed, Counting
    <3> QED BY <2>1, <3>1, CountFacts
  <2> HIDE DEF payload
  <2>3. UartFields'
    BY <1>1, <2>1 DEF UartFields, soc_uart_dma_rx_drain, UartAfterRead,
                      soc_uart_dma_tx_append
  <2> QED BY <1>1, <2>1, <2>2, <2>3, RaisedFacts DEF Counting
<1> QED BY <1>2, <1>3, <1>4, <1>5 DEF soc_dma_step

(* A START that is refused raises the line iff it asks for the interrupt. *)
LEMMA StartIntcFacts ==
  ASSUME NEW d \in DmaType, Coherent(d), NEW irq \in BOOLEAN,
         NEW ic \in IntcType
  PROVE  /\ StartIntc(d, irq, ic) \in IntcType
         /\ soc_dma_write_start(d, irq).error =>
              (DMA \in StartIntc(d, irq, ic).pending
                 <=> ((~d.busy /\ irq) \/ DMA \in ic.pending))
<1> DEFINE s == soc_dma_start(d, irq)
           e == soc_dma_write_start(d, irq)
<1>1. /\ e.error = s.error
      /\ e.irq_enable_latched = s.irq_enable_latched
      /\ ~d.busy => e.irq_enable_latched = irq
  BY StartFacts
<1>2. StartIntc(d, irq, ic) =
        IF d.busy \/ ~s.error THEN ic
        ELSE IF s.irq_enable_latched THEN soc_intc_raise(ic, DMA) ELSE ic
  BY DEF StartIntc, Raised
<1>3. soc_intc_raise(ic, DMA) \in IntcType
      /\ DMA \in soc_intc_raise(ic, DMA).pending
  BY RaiseFacts DEF Lines
<1> HIDE DEF s, e
<1> QED BY <1>1, <1>2, <1>3 DEF e

(* The invariant holds initially. *)
LEMMA EngineInitHolds == Init => EngineInv
<1> SUFFICES ASSUME Init PROVE EngineInv
  OBVIOUS
<1>1. dma \in DmaType
  BY WidthAssumption DEF Init, soc_dma_reset, DmaType, Uint32
<1>2. intc \in IntcType
  BY DEF Init, soc_intc_reset, IntcType
<1>3. hist \in HistType
  BY DEF Init, NoTransfer, HistType
<1>4. UartFields
  BY DEF Init, soc_uart_reset, UartFields
<1>5. StatusCoherent /\ EndsOnTime /\ TransferInv
  BY DEF Init, soc_dma_reset, StatusCoherent, EndsOnTime, TransferInv
<1> QED BY <1>1, <1>2, <1>3, <1>4, <1>5 DEF EngineInv

(* Every step of the client, of the CPU and of the engine keeps it. *)
LEMMA EngineStepHolds == EngineInv /\ [Next]_vars => EngineInv'
<1> SUFFICES ASSUME EngineInv, [Next]_vars PROVE EngineInv'
  OBVIOUS
<1>1. /\ dma \in DmaType /\ intc \in IntcType /\ UartFields /\ Coherent(dma)
      /\ hist \in HistType /\ EndsOnTime /\ TransferInv
  BY DEF EngineInv, StatusCoherent, Coherent
<1>2. ASSUME UNCHANGED <<dma, uart, hist>>, intc' \in IntcType PROVE EngineInv'
  BY <1>1, <1>2 DEF EngineInv, UartFields, StatusCoherent, Coherent, EndsOnTime,
                    TransferInv, Accepted
<1>3. CASE Tick
  <2>1. soc_dma_step(uart, intc) /\ Record(TRUE)
    BY <1>3 DEF Tick
  <2> QED BY <2>1, TickFacts, RecordKeeps
<1>4. ASSUME NEW irq \in Irqs, StartTransfer(irq) PROVE EngineInv'
  <2>1. /\ dma' = soc_dma_write_start(dma, irq)
        /\ intc' = StartIntc(dma, irq, intc)
        /\ uart' = uart /\ Record(FALSE)
    BY <1>4 DEF StartTransfer, soc_dma_write_ctrl
  <2>2. irq \in BOOLEAN
    BY EngineClientAssumption
  <2>3. /\ dma' \in DmaType /\ Coherent(dma')
        /\ ("IRQ_ENABLE" \in dma'.ctrl) = irq
        /\ <<dma'.src, dma'.dst, dma'.length>> = <<dma.src, dma.dst, dma.length>>
        /\ dma.busy => /\ dma'.busy /\ dma'.remaining = dma.remaining
                       /\ dma'.irq_enable_latched = dma.irq_enable_latched
        /\ ~dma.busy => dma'.irq_enable_latched = irq
        /\ dma'.busy /\ ~dma.busy =>
             /\ Accepted(dma)
             /\ dma'.remaining = transfer_ticks(dma.length, LatencyPerWord, Burst)
    BY <1>1, <2>1, <2>2, StartFacts
  <2>4. intc' \in IntcType
    BY <1>1, <2>1, <2>2, StartIntcFacts
  <2>5. UartFields'
    BY <1>1, <2>1 DEF UartFields
  <2> QED BY <2>1, <2>3, <2>4, <2>5, RecordKeeps
<1>5. CASE Program
  <2> DEFINE Kept == /\ dma' \in DmaType /\ Coherent(dma')
                     /\ dma'.busy = dma.busy /\ dma'.remaining = dma.remaining
                     /\ dma'.irq_enable_latched = dma.irq_enable_latched
                     /\ UNCHANGED <<uart, intc>>
  <2>1. Kept
    <3>1. ASSUME NEW a \in ProgAddrs, soc_dma_write_src(a) \/ soc_dma_write_dst(a)
          PROVE  Kept
      BY <1>1, <3>1, EngineClientAssumption
         DEF soc_dma_write_src, soc_dma_write_dst, DmaType, Coherent
    <3>2. ASSUME NEW n \in ProgLens, soc_dma_write_len(n)
          PROVE  Kept
      BY <1>1, <3>2, EngineClientAssumption DEF soc_dma_write_len, DmaType, Coherent
    <3>3. ASSUME NEW irq \in Irqs, soc_dma_write_ctrl(FALSE, irq)
          PROVE  Kept
      <4> DEFINE bits == CtrlStored(IrqBit(irq))
      <4>1. bits \in SUBSET {"START", "IRQ_ENABLE"}
        BY EngineClientAssumption, CtrlFacts
      <4>2. dma' = [dma EXCEPT !.ctrl = bits] /\ UNCHANGED <<uart, intc>>
        BY <3>3 DEF soc_dma_write_ctrl
      <4> HIDE DEF bits
      <4> QED BY <1>1, <4>1, <4>2 DEF DmaType, Coherent
    <3>4. ASSUME soc_dma_write_irq_clear
          PROVE  Kept
      BY <1>1, <3>4 DEF soc_dma_write_irq_clear, Cleared, DmaType, Coherent
    <3> QED BY <1>5, <3>1, <3>2, <3>3, <3>4 DEF Program
  <2>2. UartFields' /\ Record(FALSE)
    BY <1>1, <1>5, <2>1 DEF UartFields, Program
  <2> QED BY <1>1, <2>1, <2>2, RecordKeeps
<1>6. CASE TakeIrq
  BY <1>1, <1>2, <1>6, ClearFacts, AckFacts, EnableFacts DEF TakeIrq
<1>7. CASE Disturb
  <2>1. CASE soc_reset_peripherals
    <3>1. /\ dma' = soc_dma_reset /\ uart' = soc_uart_reset
          /\ intc' = soc_intc_reset /\ Record(FALSE)
      BY <1>7, <2>1 DEF Disturb, soc_reset_peripherals
    <3>2. dma' \in DmaType /\ Coherent(dma') /\ ~dma'.busy
      BY <3>1, WidthAssumption DEF soc_dma_reset, DmaType, Uint32, Coherent
    <3>3. intc' \in IntcType /\ UartFields'
      BY <3>1 DEF soc_intc_reset, IntcType, soc_uart_reset, UartFields
    <3> QED BY <3>1, <3>2, <3>3, RecordKeeps
  <2>2. ASSUME NEW on \in BOOLEAN, SetStuck(on) PROVE EngineInv'
    <3>1. /\ dma' \in DmaType /\ Coherent(dma')
          /\ dma'.busy = dma.busy /\ dma'.remaining = dma.remaining
          /\ dma'.irq_enable_latched = dma.irq_enable_latched
          /\ UNCHANGED <<uart, intc>>
      BY <1>1, <2>2 DEF SetStuck, DmaType, Coherent
    <3>2. UartFields' /\ Record(FALSE)
      BY <1>1, <1>7, <3>1 DEF UartFields, Disturb
    <3> QED BY <1>1, <3>1, <3>2, RecordKeeps
  <2> QED BY <1>7, <2>1, <2>2 DEF Disturb
<1>8. CASE UNCHANGED vars
  BY <1>1, <1>2, <1>8 DEF vars
<1> QED BY <1>3, <1>4, <1>5, <1>6, <1>7, <1>8 DEF Next

(* The invariant of the engine. *)
THEOREM EngineInvariance == Spec => []EngineInv
BY EngineInitHolds, EngineStepHolds, PTL DEF Spec

(* STATUS shows at most one of BUSY, DONE and ERROR, and ERR_CODE is set   *)
(* exactly in ERROR, whatever is written when (soc_dma.c:65-230).          *)
THEOREM StatusIsCoherent == Spec => []StatusCoherent
<1>1. EngineInv => StatusCoherent
  BY DEF EngineInv
<1> QED BY <1>1, EngineInvariance, PTL

(* Nothing done to a busy engine changes when its transfer ends            *)
(* (soc_dma.c:108-198).                                                    *)
THEOREM TransfersEndOnTime == Spec => []EndsOnTime
<1>1. EngineInv => EndsOnTime
  BY DEF EngineInv
<1> QED BY <1>1, EngineInvariance, PTL

-----------------------------------------------------------------------------
(* Action properties. *)

(* The action of each property below. *)
RaisesAsEnabled ==
  /\ (dma.busy /\ ~dma'.busy /\ (dma'.done \/ dma'.error))
       => (DMA \in intc'.pending <=> (hist.irq \/ DMA \in intc.pending))
  /\ \A irq \in Irqs :
       (StartTransfer(irq) /\ dma'.error)
         => (DMA \in intc'.pending <=> (irq \/ DMA \in intc.pending))

FaultsOnlyTouched == (dma.busy /\ dma'.error) => hist.touched

FaultsQuietly ==
  (dma.busy /\ dma'.error) => sram' = sram /\ uart'.tx_fifo = uart.tx_fifo

(* A busy engine reaches DONE or ERROR only in a tick. *)
LEMMA OnlyTicksEnd ==
  ASSUME EngineInv, [Next]_vars, dma.busy, dma'.done \/ dma'.error
  PROVE  Tick /\ ~dma'.busy
<1>1. dma \in DmaType /\ Coherent(dma) /\ Coherent(dma)'
  <2>1. StatusCoherent'
    BY EngineStepHolds DEF EngineInv
  <2> QED BY <2>1 DEF EngineInv, StatusCoherent, Coherent
<1>2. ~dma'.busy /\ ~dma.done /\ ~dma.error
  BY <1>1 DEF Coherent
<1>3. ASSUME NEW irq \in Irqs, StartTransfer(irq) PROVE FALSE
  <2>1. dma' = soc_dma_write_start(dma, irq) /\ irq \in BOOLEAN
    BY <1>3, EngineClientAssumption DEF StartTransfer, soc_dma_write_ctrl
  <2> QED BY <1>1, <1>2, <2>1, StartFacts
<1>4. CASE Program
  <2>1. ASSUME NEW a \in ProgAddrs, soc_dma_write_src(a) \/ soc_dma_write_dst(a)
        PROVE  FALSE
    BY <1>1, <1>2, <2>1 DEF soc_dma_write_src, soc_dma_write_dst, DmaType
  <2>2. ASSUME NEW n \in ProgLens, soc_dma_write_len(n) PROVE FALSE
    BY <1>1, <1>2, <2>2 DEF soc_dma_write_len, DmaType
  <2>3. ASSUME NEW irq \in Irqs, soc_dma_write_ctrl(FALSE, irq) PROVE FALSE
    BY <1>1, <1>2, <2>3 DEF soc_dma_write_ctrl, DmaType
  <2>4. ASSUME soc_dma_write_irq_clear PROVE FALSE
    BY <1>1, <2>4 DEF soc_dma_write_irq_clear, Cleared, DmaType
  <2> QED BY <1>4, <2>1, <2>2, <2>3, <2>4 DEF Program
<1>5. CASE Disturb
  <2>1. ASSUME soc_reset_peripherals PROVE FALSE
    BY <2>1 DEF soc_reset_peripherals, soc_dma_reset
  <2>2. ASSUME NEW on \in BOOLEAN, SetStuck(on) PROVE FALSE
    BY <1>1, <1>2, <2>2 DEF SetStuck, DmaType
  <2> QED BY <1>5, <2>1, <2>2 DEF Disturb
<1>6. CASE TakeIrq \/ UNCHANGED vars
  BY <1>2, <1>6 DEF TakeIrq, vars
<1> QED BY <1>2, <1>3, <1>4, <1>5, <1>6 DEF Next

(* INTC line 2 is raised on DONE and on ERROR iff IRQ_ENABLE was set at    *)
(* START (soc_dma.c:99-106, 191-230), whatever was written to CTRL since.  *)
THEOREM InterruptsAsEnabled == Spec => RaisedIffEnabledAtStart
<1>1. ASSUME EngineInv, [Next]_vars PROVE RaisesAsEnabled
  <2>1. ASSUME dma.busy, ~dma'.busy, dma'.done \/ dma'.error
        PROVE  DMA \in intc'.pending <=> (hist.irq \/ DMA \in intc.pending)
    <3>1. soc_dma_step(uart, intc)
      BY <1>1, <2>1, OnlyTicksEnd DEF Tick
    <3>2. hist.irq = dma.irq_enable_latched
      BY <1>1, <2>1 DEF EngineInv, TransferInv
    <3> QED BY <1>1, <2>1, <3>1, <3>2, TickFacts
  <2>2. ASSUME NEW irq \in Irqs, StartTransfer(irq), dma'.error
        PROVE  DMA \in intc'.pending <=> (irq \/ DMA \in intc.pending)
    <3>1. /\ dma' = soc_dma_write_start(dma, irq) /\ irq \in BOOLEAN
          /\ intc' = StartIntc(dma, irq, intc)
      BY <2>2, EngineClientAssumption DEF StartTransfer, soc_dma_write_ctrl
    <3>2. dma \in DmaType /\ Coherent(dma) /\ intc \in IntcType
      BY <1>1 DEF EngineInv, StatusCoherent, Coherent
    <3>3. ~dma.busy
      BY <2>2, <3>1, <3>2, StartFacts DEF Coherent
    <3> QED BY <2>2, <3>1, <3>2, <3>3, StartIntcFacts
  <2> QED BY <2>1, <2>2 DEF RaisesAsEnabled
<1>2. EngineInv /\ [Next]_vars => [RaisesAsEnabled]_vars
  BY <1>1
<1>3. Spec => [][RaisesAsEnabled]_vars
  BY <1>2, EngineInvariance, PTL DEF Spec
<1> QED BY <1>3 DEF RaisesAsEnabled, RaisedIffEnabledAtStart

(* What START validated, the bridges can move: a transfer whose registers  *)
(* nobody touched since START does not end in ERROR (soc_dma.c:108-165 and *)
(* 191-223).                                                               *)
THEOREM AcceptedTransfersSucceed == Spec => AcceptedNeverFaults
<1>1. ASSUME EngineInv, [Next]_vars PROVE FaultsOnlyTouched
  <2> SUFFICES ASSUME dma.busy, dma'.error, ~hist.touched PROVE FALSE
    BY DEF FaultsOnlyTouched
  <2>1. soc_dma_step(uart, intc)
    BY <1>1, OnlyTicksEnd DEF Tick
  <2>2. dma \in DmaType /\ Accepted(dma)
    BY <1>1 DEF EngineInv, TransferInv
  <2> QED BY <1>1, <2>1, <2>2, TickFacts, AcceptedMoves
<1>2. EngineInv /\ [Next]_vars => [FaultsOnlyTouched]_vars
  BY <1>1
<1>3. Spec => [][FaultsOnlyTouched]_vars
  BY <1>2, EngineInvariance, PTL DEF Spec
<1> QED BY <1>3 DEF FaultsOnlyTouched, AcceptedNeverFaults

(* A transfer that ends in ERROR has written neither memory nor the        *)
(* transmit stream (soc_dma.c:200-223).                                    *)
THEOREM FaultsLeaveNoTrace == Spec => FaultWritesNothing
<1>1. ASSUME EngineInv, [Next]_vars PROVE FaultsQuietly
  BY <1>1, OnlyTicksEnd, TickFacts DEF FaultsQuietly, Tick
<1>2. EngineInv /\ [Next]_vars => [FaultsQuietly]_vars
  BY <1>1
<1>3. Spec => [][FaultsQuietly]_vars
  BY <1>2, EngineInvariance, PTL DEF Spec
<1> QED BY <1>3 DEF FaultsQuietly, FaultWritesNothing

=============================================================================
