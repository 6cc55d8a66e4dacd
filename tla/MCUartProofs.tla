---------------------------- MODULE MCUartProofs ----------------------------
(***************************************************************************)
(* No byte of the UART is lost, duplicated or reordered                    *)
(* (soc_c/src/soc_uart.c, firmware/drivers/uart.c), for every size of the  *)
(* streams, every payload of the DMA and every latency; that a byte is     *)
(* sent at all is said of the latencies below 2^31.                        *)
(***************************************************************************)
EXTENDS MCUart, CommonProofs, SequenceTheorems

-----------------------------------------------------------------------------
(* The inductive invariant.  AcceptedBytesLoopBack is inductive with the   *)
(* types; StreamsAgree needs, besides, that no more was drained than was   *)
(* sent, which makes the receive stream the shorter of the two, so that it *)
(* has room whenever the transmit record has.                              *)

HistType == [accepted : Seq(Bytes), looped : Seq(Bytes),
             sunk : Nat, drained : Nat]

UartTypeOK ==
  /\ uart \in UartType
  /\ intc \in IntcType
  /\ hist \in HistType
  /\ latency_ticks \in Uint32

Sent == Len(hist.looped) + hist.sunk

InStep(tx, rx, sent, drained) ==
  sent <= SOC_UART_DMA_FIFO_SIZE =>
    /\ Len(tx) = sent
    /\ rx = SubSeq(tx, drained + 1, Len(tx))
    /\ drained <= sent

StreamsInStep == InStep(uart.tx_fifo, uart.rx_fifo, Sent, hist.drained)

UartInv ==
  /\ UartTypeOK
  /\ AcceptedBytesLoopBack
  /\ StreamsInStep

-----------------------------------------------------------------------------
(* A stream that has room for a payload takes all of it. *)
LEMMA SaturatingFits ==
  ASSUME NEW f \in Seq(Bytes), NEW p \in Seq(Bytes),
         Len(f) + Len(p) <= SOC_UART_DMA_FIFO_SIZE
  PROVE  Saturating(f, p) = f \o p
<1>1. SmallerOf(Len(p), SOC_UART_DMA_FIFO_SIZE - Len(f)) = Len(p)
  BY UartAssumption DEF SmallerOf
<1>2. SubSeq(p, 1, Len(p)) = p
  BY SubSeqFull
<1> QED BY <1>1, <1>2 DEF Saturating

(* A full stream keeps what it has and drops the rest: the result is still *)
(* a sequence of bytes.                                                    *)
LEMMA SaturatingType ==
  ASSUME NEW f \in Seq(Bytes), NEW p \in Seq(Bytes)
  PROVE  Saturating(f, p) \in Seq(Bytes)
<1> DEFINE n == SmallerOf(Len(p), SOC_UART_DMA_FIFO_SIZE - Len(f))
<1>1. n \in Int /\ n <= Len(p)
  BY UartAssumption DEF SmallerOf
<1>2. \A i \in 1 .. n : p[i] \in Bytes
  BY <1>1
<1>3. SubSeq(p, 1, n) \in Seq(Bytes)
  <2> HIDE DEF n
  <2> QED BY <1>1, <1>2, SubSeqProperties
<1> QED BY <1>3 DEF Saturating

(* What is appended to a stream is appended to every end of it. *)
LEMMA SuffixGrows ==
  ASSUME NEW t \in Seq(Bytes), NEW p \in Seq(Bytes),
         NEW d \in Nat, d <= Len(t)
  PROVE  SubSeq(t, d + 1, Len(t)) \o p = SubSeq(t \o p, d + 1, Len(t \o p))
<1> DEFINE a == SubSeq(t, d + 1, Len(t))
           c == t \o p
           b == SubSeq(c, d + 1, Len(c))
<1>1. /\ c \in Seq(Bytes)
      /\ Len(c) = Len(t) + Len(p)
      /\ \A i \in 1 .. Len(t) + Len(p) :
           c[i] = IF i <= Len(t) THEN t[i] ELSE p[i - Len(t)]
  BY ConcatProperties
<1>2. /\ a \in Seq(Bytes)
      /\ Len(a) = Len(t) - d
      /\ \A i \in 1 .. Len(t) - d : a[i] = t[d + i]
  <2>1. \A i \in d + 1 .. Len(t) : t[i] \in Bytes
    OBVIOUS
  <2> QED BY <2>1, SubSeqProperties
<1>3. /\ b \in Seq(Bytes)
      /\ Len(b) = Len(c) - d
      /\ \A i \in 1 .. Len(c) - d : b[i] = c[d + i]
  <2> HIDE DEF c
  <2>1. \A i \in d + 1 .. Len(c) : c[i] \in Bytes
    BY <1>1
  <2> QED BY <2>1, <1>1, SubSeqProperties
<1> HIDE DEF a, b, c
<1>4. /\ a \o p \in Seq(Bytes)
      /\ Len(a \o p) = Len(a) + Len(p)
      /\ \A i \in 1 .. Len(a) + Len(p) :
           (a \o p)[i] = IF i <= Len(a) THEN a[i] ELSE p[i - Len(a)]
  BY <1>2, ConcatProperties
<1>5. /\ Len(t) \in Nat /\ Len(p) \in Nat
      /\ Len(b) = Len(t) - d + Len(p)
      /\ Len(a \o p) = Len(b)
  BY <1>1, <1>2, <1>3, <1>4
<1>6. ASSUME NEW i \in 1 .. Len(b)
      PROVE  (a \o p)[i] = b[i]
  <2>1. i \in Nat /\ b[i] = c[d + i] /\ d + i \in 1 .. Len(t) + Len(p)
    BY <1>1, <1>3, <1>5
  <2>2. CASE i <= Len(t) - d
    BY <1>1, <1>2, <1>4, <1>5, <2>1, <2>2
  <2>3. CASE i > Len(t) - d
    <3>1. c[d + i] = p[d + i - Len(t)]
      BY <1>1, <1>5, <2>1, <2>3
    <3>2. (a \o p)[i] = p[i - (Len(t) - d)]
      <4>1. Len(a) = Len(t) - d /\ Len(t) \in Nat /\ Len(p) \in Nat
        BY <1>2, <1>5
      <4>2. i \in 1 .. Len(a) + Len(p) /\ ~(i <= Len(a))
        BY <1>4, <1>5, <2>1, <2>3, <4>1
      <4> QED BY <1>4, <4>1, <4>2
    <3>3. d + i - Len(t) = i - (Len(t) - d)
      BY <1>5, <2>1
    <3> QED BY <2>1, <3>1, <3>2, <3>3
  <2> QED BY <1>5, <2>1, <2>2, <2>3
<1>7. a \o p = b
  BY <1>3, <1>4, <1>5, <1>6, SeqEqual
<1> QED BY <1>7 DEF a, b, c

(* Draining the oldest bytes of an end leaves a shorter end. *)
LEMMA SuffixShrinks ==
  ASSUME NEW t \in Seq(Bytes), NEW d \in Nat, NEW k \in Nat,
         d + k <= Len(t)
  PROVE  LET a == SubSeq(t, d + 1, Len(t))
         IN  SubSeq(a, k + 1, Len(a)) = SubSeq(t, d + k + 1, Len(t))
<1> DEFINE a == SubSeq(t, d + 1, Len(t))
           b == SubSeq(a, k + 1, Len(a))
           c == SubSeq(t, d + k + 1, Len(t))
<1>1. /\ a \in Seq(Bytes)
      /\ Len(a) = Len(t) - d
      /\ \A i \in 1 .. Len(t) - d : a[i] = t[d + i]
  <2>1. \A i \in d + 1 .. Len(t) : t[i] \in Bytes
    OBVIOUS
  <2> QED BY <2>1, SubSeqProperties
<1>2. /\ c \in Seq(Bytes)
      /\ Len(c) = Len(t) - d - k
      /\ \A i \in 1 .. Len(t) - d - k : c[i] = t[d + k + i]
  <2>1. \A i \in d + k + 1 .. Len(t) : t[i] \in Bytes
    OBVIOUS
  <2> QED BY <2>1, SubSeqProperties
<1>3. /\ b \in Seq(Bytes)
      /\ Len(b) = Len(a) - k
      /\ \A i \in 1 .. Len(a) - k : b[i] = a[k + i]
  <2> HIDE DEF a
  <2>1. \A i \in k + 1 .. Len(a) : a[i] \in Bytes
    BY <1>1
  <2> QED BY <2>1, <1>1, SubSeqProperties
<1> HIDE DEF a, b, c
<1>4. \A i \in 1 .. Len(b) : b[i] = c[i]
  BY <1>1, <1>2, <1>3
<1>5. b = c
  BY <1>1, <1>2, <1>3, <1>4, SeqEqual
<1> QED BY <1>5 DEF a, b, c

(* The two streams stay in step when a payload is appended to both. *)
LEMMA StreamsGrow ==
  ASSUME NEW tx \in Seq(Bytes), NEW rx \in Seq(Bytes), NEW p \in Seq(Bytes),
         NEW sent \in Nat, NEW drained \in Nat,
         InStep(tx, rx, sent, drained)
  PROVE  InStep(Saturating(tx, p), Saturating(rx, p), sent + Len(p), drained)
<1>1. SUFFICES ASSUME sent + Len(p) <= SOC_UART_DMA_FIFO_SIZE
               PROVE  /\ Len(Saturating(tx, p)) = sent + Len(p)
                      /\ Saturating(rx, p) =
                           SubSeq(Saturating(tx, p), drained + 1,
                                  Len(Saturating(tx, p)))
                      /\ drained <= sent + Len(p)
  BY DEF InStep
<1>2. /\ Len(p) \in Nat
      /\ Len(tx) = sent
      /\ rx = SubSeq(tx, drained + 1, Len(tx))
      /\ drained <= sent
  BY <1>1, UartAssumption DEF InStep
<1>3. Len(rx) = sent - drained
  <2>1. \A i \in drained + 1 .. Len(tx) : tx[i] \in Bytes
    OBVIOUS
  <2> QED BY <1>2, <2>1, SubSeqProperties
<1>4. Saturating(tx, p) = tx \o p
  BY <1>1, <1>2, SaturatingFits
<1>5. Saturating(rx, p) = rx \o p
  <2>1. Len(rx) + Len(p) <= SOC_UART_DMA_FIFO_SIZE
    BY <1>1, <1>2, <1>3, UartAssumption
  <2> QED BY <2>1, SaturatingFits
<1>6. Len(tx \o p) = sent + Len(p)
  BY <1>2, ConcatProperties
<1>7. rx \o p = SubSeq(tx \o p, drained + 1, Len(tx \o p))
  BY <1>2, SuffixGrows
<1>8. drained <= sent + Len(p)
  BY <1>2
<1> QED BY <1>4, <1>5, <1>6, <1>7, <1>8, Zenon

(* soc_uart_dma_tx_append changes the two streams and nothing else. *)
LEMMA AppendFacts ==
  ASSUME NEW u \in UartType, NEW p \in Seq(Bytes)
  PROVE  LET v == soc_uart_dma_tx_append(u, p)
         IN  /\ v \in UartType
             /\ v.tx_fifo = Saturating(u.tx_fifo, p)
             /\ v.rx_fifo = Saturating(u.rx_fifo, p)
             /\ v.busy = u.busy
             /\ v.txdata = u.txdata
             /\ v.rxdata = u.rxdata
<1>1. /\ Saturating(u.tx_fifo, p) \in Seq(Bytes)
      /\ Saturating(u.rx_fifo, p) \in Seq(Bytes)
  BY SaturatingType DEF UartType
<1> QED BY <1>1 DEF soc_uart_dma_tx_append, UartType

(* soc_uart_dma_rx_drain takes the oldest bytes of the receive stream, at  *)
(* most as many as it holds.                                               *)
LEMMA DrainFacts ==
  ASSUME NEW u \in UartType, NEW len \in Nat
  PROVE  LET v == soc_uart_dma_rx_drain(u, len)
             k == SmallerOf(len, Len(u.rx_fifo))
         IN  /\ k \in Nat /\ k <= Len(u.rx_fifo)
             /\ v \in UartType
             /\ v.rx_fifo = SubSeq(u.rx_fifo, k + 1, Len(u.rx_fifo))
             /\ v.tx_fifo = u.tx_fifo
             /\ v.busy = u.busy
             /\ v.txdata = u.txdata
<1> DEFINE rx == u.rx_fifo
           k  == SmallerOf(len, Len(rx))
<1>1. rx \in Seq(Bytes) /\ Len(rx) \in Nat
  BY DEF UartType
<1>2. k \in Nat /\ k <= Len(rx)
  BY <1>1 DEF SmallerOf
<1>3. SubSeq(rx, k + 1, Len(rx)) \in Seq(Bytes)
  <2> HIDE DEF k, rx
  <2>1. \A i \in k + 1 .. Len(rx) : rx[i] \in Bytes
    BY <1>1, <1>2
  <2> QED BY <1>1, <1>2, <2>1, SubSeqProperties
<1> QED BY <1>2, <1>3 DEF soc_uart_dma_rx_drain, UartType

-----------------------------------------------------------------------------
(* A reset UART with an empty history satisfies the invariant. *)
Fresh ==
  /\ uart = soc_uart_reset
  /\ intc = soc_intc_reset
  /\ hist = NoHist
  /\ latency_ticks \in Uint32

LEMMA FreshUart == Fresh => UartInv
<1> SUFFICES ASSUME Fresh PROVE UartInv
  OBVIOUS
<1> USE DEF Fresh
<1>1. <<>> \in Seq(Bytes) /\ Len(<<>>) = 0
  BY EmptySeq
<1>2. UartTypeOK
  BY <1>1, UartAssumption
  DEF UartTypeOK, UartType, IntcType, HistType, NoHist,
      soc_uart_reset, soc_intc_reset
<1>3. /\ hist.accepted = <<>> /\ hist.looped = <<>>
      /\ hist.sunk = 0 /\ hist.drained = 0
      /\ uart.busy = 0 /\ uart.tx_fifo = <<>> /\ uart.rx_fifo = <<>>
  BY DEF NoHist, soc_uart_reset
<1>4. AcceptedBytesLoopBack
  <2>1. <<>> \o <<>> = <<>>
    BY <1>1, ConcatEmptySeq
  <2> QED BY <1>3, <2>1 DEF AcceptedBytesLoopBack
<1>5. StreamsInStep
  <2>1. SubSeq(<<>>, 1, 0) = <<>>
    BY SubSeqEmpty
  <2> QED BY <1>1, <1>3, <2>1 DEF StreamsInStep, InStep, Sent
<1> QED BY <1>2, <1>4, <1>5 DEF UartInv

(* The same of the state after a step. *)
LEMMA FreshUartNext == Fresh' => UartInv'
BY FreshUart, PTL

(* uart_write_byte is accepted only by an idle transmitter, so the byte    *)
(* joins the end of what came back.                                        *)
LEMMA SendHolds ==
  ASSUME UartInv, NEW b \in Bytes, Send(b), UNCHANGED latency_ticks
  PROVE  UartInv'
<1> USE DEF UartInv, UartTypeOK
<1> DEFINE ticks == IF latency_ticks > 0 THEN AsInt32(latency_ticks) ELSE 1
<1>1. ticks \in Int /\ (2 * latency_ticks < U32Mod => ticks > 0)
  BY WidthAssumption DEF Uint32, AsInt32
<1>2. /\ ~(uart.busy > 0)
      /\ uart' = [uart EXCEPT !.txdata = b, !.busy = ticks]
      /\ hist' = [hist EXCEPT !.accepted = Append(@, b)]
      /\ UNCHANGED intc
  BY DEF Send, uart_write_byte, soc_uart_write_txdata
<1> HIDE DEF ticks
<1>3. /\ uart' \in UartType
      /\ uart'.busy = ticks /\ uart'.txdata = b
      /\ uart'.tx_fifo = uart.tx_fifo /\ uart'.rx_fifo = uart.rx_fifo
  BY <1>1, <1>2 DEF UartType
<1>4. /\ hist' \in HistType
      /\ hist'.accepted = Append(hist.accepted, b)
      /\ hist'.looped = hist.looped /\ hist'.sunk = hist.sunk
      /\ hist'.drained = hist.drained
  <2> DEFINE acc == Append(hist.accepted, b)
  <2>1. acc \in Seq(Bytes)
    BY AppendProperties DEF HistType
  <2> HIDE DEF acc
  <2>2. hist' = [hist EXCEPT !.accepted = acc]
    BY <1>2 DEF acc
  <2> QED BY <2>1, <2>2 DEF HistType, acc
<1>5. AcceptedBytesLoopBack'
  <2> SUFFICES ASSUME 2 * latency_ticks < U32Mod
               PROVE  hist'.accepted = hist'.looped \o
                        (IF uart'.busy > 0 THEN <<uart'.txdata>> ELSE <<>>)
    BY DEF AcceptedBytesLoopBack
  <2>1. hist.looped \in Seq(Bytes)
    BY DEF HistType
  <2>2. hist.accepted = hist.looped
    BY <1>2, <2>1, ConcatEmptySeq DEF AcceptedBytesLoopBack
  <2>3. Append(hist.looped, b) = hist.looped \o <<b>>
    BY <2>1, AppendIsConcat
  <2> QED BY <1>1, <1>3, <1>4, <2>2, <2>3
<1>6. StreamsInStep'
  BY <1>3, <1>4 DEF StreamsInStep, Sent
<1> QED BY <1>2, <1>3, <1>4, <1>5, <1>6

(* A tick that ends a byte loops it back and records it in both streams;   *)
(* any other tick at most counts down.                                     *)
LEMMA TickHolds ==
  ASSUME UartInv, Tick, UNCHANGED latency_ticks
  PROVE  UartInv'
<1> USE DEF UartInv, UartTypeOK
<1>1. uart.busy \in Int /\ uart.txdata \in Bytes /\ hist.looped \in Seq(Bytes)
  BY DEF UartType, HistType
<1>2. intc' \in IntcType
  BY RaiseFacts DEF Tick, UartTick, UartRaises, Lines
<1>3. CASE uart.busy <= 0 \/ uart.stuck
  <2>1. uart' = uart /\ hist' = hist
    BY <1>1, <1>3 DEF Tick, UartTick, soc_uart_step
  <2> QED BY <1>2, <2>1
          DEF AcceptedBytesLoopBack, StreamsInStep, Sent
<1>4. CASE uart.busy > 1 /\ ~uart.stuck
  <2>1. uart' = [uart EXCEPT !.busy = @ - 1]
    BY <1>1, <1>4 DEF Tick, UartTick, soc_uart_step, UartSends
  <2>2. /\ uart' \in UartType
        /\ uart'.busy > 0 /\ uart'.txdata = uart.txdata
        /\ uart'.tx_fifo = uart.tx_fifo /\ uart'.rx_fifo = uart.rx_fifo
    <3> DEFINE n == uart.busy - 1
    <3>1. uart \in UartType /\ n \in Nat /\ n > 0
      BY <1>1, <1>4
    <3>2. uart' = [uart EXCEPT !.busy = n]
      BY <2>1
    <3> HIDE DEF UartInv, UartTypeOK, n
    <3>3. uart' \in UartType
      BY <3>1, <3>2 DEF UartType
    <3>4. /\ uart'.busy = n /\ uart'.txdata = uart.txdata
          /\ uart'.tx_fifo = uart.tx_fifo /\ uart'.rx_fifo = uart.rx_fifo
      BY <3>1, <3>2 DEF UartType
    <3> QED BY <3>1, <3>3, <3>4
  <2>3. hist' = hist
    BY <2>2 DEF Tick
  <2>4. AcceptedBytesLoopBack'
    <3>1. uart.busy > 0
      BY <1>1, <1>4
    <3>2. 2 * latency_ticks < U32Mod =>
            hist.accepted = hist.looped \o <<uart.txdata>>
      BY <3>1 DEF AcceptedBytesLoopBack
    <3> QED BY <2>2, <2>3, <3>2 DEF AcceptedBytesLoopBack
  <2>5. StreamsInStep'
    BY <2>2, <2>3 DEF StreamsInStep, Sent
  <2> QED BY <1>2, <2>2, <2>3, <2>4, <2>5
<1>5. CASE uart.busy = 1 /\ ~uart.stuck
  <2> DEFINE u == [uart EXCEPT !.busy = 0, !.rxdata = uart.txdata,
                               !.rx_valid = TRUE]
             p == <<uart.txdata>>
  <2>1. /\ u \in UartType
        /\ u.busy = 0 /\ u.rxdata = uart.txdata
        /\ u.tx_fifo = uart.tx_fifo /\ u.rx_fifo = uart.rx_fifo
    <3> DEFINE on   == TRUE
               zero == 0
               byte == uart.txdata
               w    == [uart EXCEPT !.busy = zero, !.rxdata = byte,
                                    !.rx_valid = on]
    <3>1. uart \in UartType /\ on \in BOOLEAN
      OBVIOUS
    <3>2. zero \in Int /\ byte \in Bytes /\ u = w
      BY <1>1
    <3> HIDE DEF UartInv, UartTypeOK, on, u, zero, byte
    <3>3. w \in UartType
      BY <3>1, <3>2 DEF UartType
    <3>4. /\ w.busy = zero /\ w.rxdata = byte
          /\ w.tx_fifo = uart.tx_fifo /\ w.rx_fifo = uart.rx_fifo
      BY <3>1, <3>2 DEF UartType
    <3> QED BY <3>2, <3>3, <3>4 DEF zero, byte
  <2>2. p \in Seq(Bytes) /\ Len(p) = 1
    BY <1>1
  <2>3. uart' = soc_uart_dma_tx_append(u, p)
    BY <1>5 DEF Tick, UartTick, soc_uart_step, UartSends
  <2> HIDE DEF u, p
  <2>4. /\ uart' \in UartType
        /\ uart'.tx_fifo = Saturating(uart.tx_fifo, p)
        /\ uart'.rx_fifo = Saturating(uart.rx_fifo, p)
        /\ uart'.busy = 0 /\ uart'.rxdata = uart.txdata
    BY <2>1, <2>2, <2>3, AppendFacts
  <2>5. hist' = [hist EXCEPT !.looped = Append(@, uart.txdata)]
    BY <1>5, <2>4 DEF Tick
  <2>6. /\ hist' \in HistType
        /\ hist'.looped = Append(hist.looped, uart.txdata)
        /\ Len(hist'.looped) = Len(hist.looped) + 1
        /\ hist'.accepted = hist.accepted /\ hist'.sunk = hist.sunk
        /\ hist'.drained = hist.drained
    <3> DEFINE lo == Append(hist.looped, uart.txdata)
    <3>1. lo \in Seq(Bytes) /\ Len(lo) = Len(hist.looped) + 1
      BY <1>1, AppendProperties
    <3> HIDE DEF lo
    <3>2. hist' = [hist EXCEPT !.looped = lo]
      BY <2>5 DEF lo
    <3> QED BY <3>1, <3>2 DEF HistType, lo
  <2>7. AcceptedBytesLoopBack'
    <3>1. 2 * latency_ticks < U32Mod => hist.accepted = hist.looped \o p
      BY <1>5 DEF AcceptedBytesLoopBack, p
    <3>2. Append(hist.looped, uart.txdata) = hist.looped \o p
      BY <1>1, AppendIsConcat DEF p
    <3>3. hist'.looped \o <<>> = hist'.looped
      BY <2>6, ConcatEmptySeq DEF HistType
    <3>4. 2 * latency_ticks < U32Mod =>
            hist'.accepted = hist'.looped \o <<>>
      BY <2>6, <3>1, <3>2, <3>3
    <3> QED BY <2>4, <3>4 DEF AcceptedBytesLoopBack
  <2>8. StreamsInStep'
    <3>1. /\ Sent \in Nat /\ hist.drained \in Nat
          /\ uart.tx_fifo \in Seq(Bytes) /\ uart.rx_fifo \in Seq(Bytes)
      BY DEF Sent, HistType, UartType
    <3>2. Sent' = Sent + Len(p)
      BY <1>1, <2>2, <2>6 DEF Sent, HistType
    <3>3. InStep(uart'.tx_fifo, uart'.rx_fifo, Sent + Len(p), hist.drained)
      BY <2>2, <2>4, <3>1, StreamsGrow DEF StreamsInStep
    <3> QED BY <2>6, <3>2, <3>3 DEF StreamsInStep
  <2> QED BY <1>2, <2>4, <2>6, <2>7, <2>8
<1> QED BY <1>1, <1>3, <1>4, <1>5

(* The DMA appends its payload to both streams. *)
LEMMA SinkHolds ==
  ASSUME UartInv, NEW p \in DmaPayloads, Sink(p), UNCHANGED latency_ticks
  PROVE  UartInv'
<1> USE DEF UartInv, UartTypeOK
<1>1. p \in Seq(Bytes) /\ Len(p) \in Nat
  BY UartDriverAssumption
<1>2. /\ uart' = soc_uart_dma_tx_append(uart, p)
      /\ hist' = [hist EXCEPT !.sunk = @ + Len(p)]
      /\ UNCHANGED intc
  BY DEF Sink, DmaSinks
<1>3. /\ uart' \in UartType
      /\ uart'.tx_fifo = Saturating(uart.tx_fifo, p)
      /\ uart'.rx_fifo = Saturating(uart.rx_fifo, p)
      /\ uart'.busy = uart.busy /\ uart'.txdata = uart.txdata
  BY <1>1, <1>2, AppendFacts
<1>4. /\ hist' \in HistType
      /\ hist'.accepted = hist.accepted /\ hist'.looped = hist.looped
      /\ hist'.sunk = hist.sunk + Len(p) /\ hist'.drained = hist.drained
  BY <1>1, <1>2 DEF HistType
<1>5. AcceptedBytesLoopBack'
  BY <1>3, <1>4 DEF AcceptedBytesLoopBack
<1>6. /\ Sent \in Nat /\ hist.drained \in Nat
      /\ uart.tx_fifo \in Seq(Bytes) /\ uart.rx_fifo \in Seq(Bytes)
  BY DEF Sent, HistType, UartType
<1>7. Sent' = Sent + Len(p)
  BY <1>1, <1>4 DEF Sent, HistType
<1>8. InStep(uart'.tx_fifo, uart'.rx_fifo, Sent + Len(p), hist.drained)
  BY <1>1, <1>3, <1>6, StreamsGrow DEF StreamsInStep
<1>9. StreamsInStep'
  BY <1>4, <1>7, <1>8 DEF StreamsInStep
<1> QED BY <1>2, <1>3, <1>4, <1>5, <1>9

(* The DMA takes the oldest bytes of the receive stream, never more than   *)
(* it holds.                                                               *)
LEMMA DrainHolds ==
  ASSUME UartInv, NEW len \in DrainLens, Drain(len), UNCHANGED latency_ticks
  PROVE  UartInv'
<1> USE DEF UartInv, UartTypeOK
<1> DEFINE k  == SmallerOf(len, Len(uart.rx_fifo))
           tx == uart.tx_fifo
           rx == uart.rx_fifo
           d  == hist.drained
<1>1. len \in Nat
  BY UartDriverAssumption
<1>2. /\ uart' = soc_uart_dma_rx_drain(uart, len)
      /\ hist' = [hist EXCEPT !.drained = @ + k]
      /\ UNCHANGED intc
  BY DEF Drain, DmaDrains
<1>3. /\ k \in Nat /\ k <= Len(rx)
      /\ uart' \in UartType
      /\ uart'.rx_fifo = SubSeq(rx, k + 1, Len(rx))
      /\ uart'.tx_fifo = tx
      /\ uart'.busy = uart.busy /\ uart'.txdata = uart.txdata
  BY <1>1, <1>2, DrainFacts
<1> HIDE DEF k
<1>4. /\ hist' \in HistType
      /\ hist'.accepted = hist.accepted /\ hist'.looped = hist.looped
      /\ hist'.sunk = hist.sunk /\ hist'.drained = d + k
  <2> DEFINE n == hist.drained + k
  <2>1. hist \in HistType /\ n \in Nat
    BY <1>3 DEF HistType
  <2>2. hist' = [hist EXCEPT !.drained = n]
    BY <1>2
  <2>3. n = d + k
    OBVIOUS
  <2> HIDE DEF UartInv, UartTypeOK, n, d
  <2> QED BY <2>1, <2>2, <2>3 DEF HistType
<1>5. AcceptedBytesLoopBack'
  <2>1. AcceptedBytesLoopBack
    OBVIOUS
  <2> HIDE DEF UartInv, UartTypeOK
  <2> QED BY <1>3, <1>4, <2>1, Zenon DEF AcceptedBytesLoopBack
<1>6. ASSUME Sent <= SOC_UART_DMA_FIFO_SIZE
      PROVE  /\ Len(tx) = Sent
             /\ SubSeq(rx, k + 1, Len(rx)) = SubSeq(tx, d + k + 1, Len(tx))
             /\ d + k <= Sent
  <2>1. /\ tx \in Seq(Bytes) /\ d \in Nat /\ Sent \in Nat
    BY DEF Sent, HistType, UartType
  <2>2. Len(tx) = Sent /\ rx = SubSeq(tx, d + 1, Len(tx)) /\ d <= Sent
    BY <1>6 DEF StreamsInStep, InStep
  <2> HIDE DEF tx, rx, d
  <2>3. Len(rx) = Sent - d
    <3>1. \A i \in d + 1 .. Len(tx) : tx[i] \in Bytes
      BY <2>1
    <3> QED BY <2>1, <2>2, <3>1, SubSeqProperties
  <2>4. d + k <= Sent
    BY <1>3, <2>1, <2>3
  <2> QED BY <1>3, <2>1, <2>2, <2>4, SuffixShrinks
<1>7. StreamsInStep'
  BY <1>3, <1>4, <1>6 DEF StreamsInStep, InStep, Sent
<1> QED BY <1>2, <1>3, <1>4, <1>5, <1>7

(* The other accesses touch neither the byte on the way nor the streams. *)
LEMMA QuietHolds ==
  ASSUME UartInv, Quiet, UNCHANGED latency_ticks
  PROVE  UartInv'
<1> USE DEF UartInv, UartTypeOK
<1>1. /\ uart' \in UartType
      /\ uart'.busy = uart.busy /\ uart'.txdata = uart.txdata
      /\ uart'.tx_fifo = uart.tx_fifo /\ uart'.rx_fifo = uart.rx_fifo
  BY DEF Quiet, uart_init, uart_read_byte, WriteCtrl, StickUart,
         soc_uart_write_ctrl, soc_uart_read_rxdata, UartType
<1>2. UNCHANGED <<intc, hist>>
  BY DEF Quiet, uart_init, uart_read_byte, WriteCtrl, StickUart
<1>3. AcceptedBytesLoopBack'
  BY <1>1, <1>2 DEF AcceptedBytesLoopBack
<1>4. StreamsInStep'
  BY <1>1, <1>2 DEF StreamsInStep, Sent
<1> QED BY <1>1, <1>2, <1>3, <1>4

LEMMA UartInitHolds == MCInit => UartInv
BY FreshUart, UartDriverAssumption DEF MCInit, UartInit, Fresh

LEMMA UartStepHolds == UartInv /\ [MCNext]_mcVars => UartInv'
<1> SUFFICES ASSUME UartInv, [MCNext]_mcVars
             PROVE  UartInv'
  OBVIOUS
<1>1. ASSUME NEW b \in Bytes, Send(b), UNCHANGED latency_ticks
      PROVE  UartInv'
  BY <1>1, SendHolds
<1>2. CASE Tick /\ UNCHANGED latency_ticks
  BY <1>2, TickHolds
<1>3. ASSUME NEW p \in DmaPayloads, Sink(p), UNCHANGED latency_ticks
      PROVE  UartInv'
  BY <1>3, SinkHolds
<1>4. ASSUME NEW len \in DrainLens, Drain(len), UNCHANGED latency_ticks
      PROVE  UartInv'
  BY <1>4, DrainHolds
<1>5. CASE Quiet /\ UNCHANGED latency_ticks
  BY <1>5, QuietHolds
<1>6. CASE Reset /\ UNCHANGED latency_ticks
  BY <1>6, FreshUartNext DEF Reset, ResetUart, Fresh, UartInv, UartTypeOK
<1>7. CASE UNCHANGED mcVars
  BY <1>7 DEF mcVars, UartInv, UartTypeOK, AcceptedBytesLoopBack,
              StreamsInStep, Sent
<1> QED BY <1>1, <1>2, <1>3, <1>4, <1>5, <1>6, <1>7 DEF MCNext

(* The invariant holds of every behaviour of the UART and its users. *)
THEOREM UartInvariance == MCSpec => []UartInv
<1> QED BY UartInitHolds, UartStepHolds, PTL DEF MCSpec

(* Every byte that uart_write_byte accepted comes back once and in order   *)
(* (soc_uart_step), for every latency below 2^31, also when the UART is    *)
(* disabled, stuck or shared with the DMA in between.                      *)
THEOREM EveryByteLoopsBack == MCSpec => []AcceptedBytesLoopBack
<1>1. UartInv => AcceptedBytesLoopBack
  BY DEF UartInv
<1> QED BY UartInvariance, <1>1, PTL

(* Until one of them is full, the transmit record holds every byte sent    *)
(* and the receive stream is what was not drained of it                    *)
(* (soc_uart_dma_tx_append, soc_uart_dma_rx_drain), for every size of the  *)
(* streams.                                                                *)
THEOREM StreamsNeverDiverge == MCSpec => []StreamsAgree
<1>1. UartInv => StreamsAgree
  BY DEF UartInv, StreamsInStep, InStep, StreamsAgree, Sent
<1> QED BY UartInvariance, <1>1, PTL

=============================================================================
