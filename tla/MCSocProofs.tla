---------------------------- MODULE MCSocProofs -----------------------------
(***************************************************************************)
(* The whole SoC (soc_c/src/soc.c, host_bridge.c and the firmware on it)   *)
(* for every platform table of the code's shape, every latency and every   *)
(* client of MCSoc: which register an address reaches, what each driver    *)
(* call does to the hardware, and what boot, the ticks and the two loops   *)
(* make of it.                                                             *)
(***************************************************************************)
EXTENDS MCSoc, CommonProofs, SequenceTheorems

-----------------------------------------------------------------------------
(* The decoder (soc.c:87-142, bus.c) on the platform table. *)

(* What BusAssumption says of one region of the table. *)
LEMMA RegionFacts ==
  ASSUME NEW i \in 1 .. 7
  PROVE  /\ Platform.map[i] \in Regions
         /\ Platform.map[i].base \in Nat /\ Platform.map[i].size \in Nat
         /\ Platform.map[i].base + Platform.map[i].size <= U32Mod
         /\ Platform.map[i].base % WordBytes = 0
         /\ Platform.map[i].size % WordBytes = 0
<1>1. Platform.map \in Seq(Regions) /\ Len(Platform.map) = 7
  BY BusAssumption DEF WellFormedMap
<1>2. Platform.map[i] \in Regions
  BY <1>1
<1>3. Platform.map[i].base \in Nat /\ Platform.map[i].size \in Nat
  BY <1>2, WidthAssumption DEF Regions, Uint32
<1>4. /\ Platform.map[i].base + Platform.map[i].size <= U32Mod
      /\ Platform.map[i].base % WordBytes = 0
      /\ Platform.map[i].size % WordBytes = 0
  BY <1>1, BusAssumption DEF WellFormedMap, WordAlignedMap
<1> QED BY <1>2, <1>3, <1>4

(* SRAM as region 1 of the table. *)
LEMMA SramFacts ==
  /\ SramRegion.base \in Nat /\ SramRegion.size \in Nat
  /\ SramRegion.base + SramRegion.size <= U32Mod
<1>1. 2 \in 1 .. 7
  OBVIOUS
<1> QED BY <1>1, RegionFacts DEF SramRegion

(* An aligned word of a region is decoded to that region. *)
LEMMA RouteOfWord ==
  ASSUME NEW i \in 0 .. 6, NEW addr \in Uint32, addr % WordBytes = 0,
         memory_region_contains(Platform.map[i + 1], addr, WordBytes)
  PROVE  Route[addr] = i
<1> DEFINE S == Containing(Platform.map, addr, WordBytes)
<1>1. /\ WellFormedMap(Platform.map) /\ WordAlignedMap(Platform.map)
      /\ Len(Platform.map) = 7 /\ addr \in Nat
  BY BusAssumption, WidthAssumption DEF Uint32
<1>2. i \in S /\ S \subseteq Nat
  BY <1>1 DEF Containing
<1>3. First(S) \in S
  BY <1>2, FirstFacts
<1>4. WordBytes \in Uint32
  <2>1. Platform.map[i + 1] \in Regions
    BY RegionFacts
  <2> QED BY <1>1, <2>1, WidthAssumption
          DEF memory_region_contains, Regions, Uint32
<1>5. First(S) = i
  BY <1>1, <1>2, <1>3, <1>4, OwnerIsUnique
<1>6. Route[addr] = find_region(Platform.map, addr, WordBytes)
  BY <1>1, RouteFindsOwner DEF Route
<1> QED BY <1>5, <1>6 DEF find_region

(* The number of registers of a window. *)
LEMMA WindowSizes ==
  /\ DOMAIN Windows = 1 .. 5
  /\ Len(SocOffsets[Windows[1]]) = 5
  /\ Len(SocOffsets[Windows[2]]) = 5
  /\ Len(SocOffsets[Windows[3]]) = 7
  /\ Len(SocOffsets[Windows[4]]) = 5
  /\ Len(SocOffsets[Windows[5]]) = 6
  /\ \A i \in 1 .. 5 :
       DOMAIN SocOffsets[Windows[i]] = 1 .. Len(SocOffsets[Windows[i]])
BY DEF Windows, SocOffsets, SOC_UART_OFF, SOC_TIMER_OFF, SOC_DMA_OFF,
       SOC_INTC_OFF, SOC_PERF_OFF

(* The word k of a window is a bus word that is decoded to the register k  *)
(* of that window.                                                         *)
LEMMA WordDecodes ==
  ASSUME NEW i \in 1 .. 5, NEW k \in 1 .. Len(SocOffsets[Windows[i]]),
         NEW addr, addr = Platform.map[i + 2].base + WordBytes * (k - 1)
  PROVE  /\ addr \in Uint32 /\ addr % WordBytes = 0
         /\ Route[addr] = i + 1
         /\ RegisterAt[addr] = SocOffsets[Windows[i]][k]
         /\ WindowAt(addr) = Windows[i]
<1> DEFINE n == Len(SocOffsets[Windows[i]])
           b == Platform.map[i + 2].base
           z == Platform.map[i + 2].size
<1>1. n \in Nat /\ k \in Nat /\ k >= 1 /\ k <= n
  BY WindowSizes
<1>2. /\ b \in Nat /\ z \in Nat /\ b + z <= U32Mod /\ b % WordBytes = 0
      /\ z >= WordBytes * n /\ WordBytes \in Nat \ {0} /\ U32Mod \in Nat
  <2>1. i + 2 \in 1 .. 7 /\ i \in DOMAIN Windows
    BY WindowSizes
  <2>2. z >= WordBytes * n
    BY <2>1, BusAssumption
  <2> QED BY <2>1, <2>2, RegionFacts, WidthAssumption
<1> HIDE DEF n, b, z
<1>3. /\ WordBytes * (k - 1) \in Nat
      /\ WordBytes * (k - 1) + WordBytes = WordBytes * k
      /\ WordBytes * k <= WordBytes * n
      /\ (WordBytes * (k - 1)) % WordBytes = 0
      /\ (WordBytes * (k - 1)) \div WordBytes = k - 1
  BY <1>1, <1>2
<1> DEFINE off == WordBytes * (k - 1)
<1>4. /\ off \in Nat /\ off + WordBytes <= z /\ off % WordBytes = 0
      /\ off \div WordBytes = k - 1
  <2> DEFINE top == WordBytes * k
             all == WordBytes * n
  <2>1. top \in Int /\ all \in Int
    BY <1>1, <1>2
  <2>2. off + WordBytes = top /\ top <= all /\ z >= all /\ off \in Nat
    BY <1>2, <1>3
  <2> HIDE DEF off, top, all
  <2>3. off + WordBytes <= z
    BY <1>2, <2>1, <2>2
  <2> QED BY <1>3, <2>2, <2>3 DEF off
<1>5. addr = b + off
  BY DEF b
<1> HIDE DEF off
<1>6. addr \in Uint32
  BY <1>2, <1>4, <1>5 DEF Uint32
<1>7. addr % WordBytes = 0
  <2>1. (b + off) % WordBytes = 0
    BY <1>2, <1>4, SumOfMultiples
  <2> QED BY <1>5, <2>1
<1>8. memory_region_contains(Platform.map[i + 2], addr, WordBytes)
  <2>1. /\ WordBytes # 0 /\ addr + WordBytes <= U32Mod /\ addr >= b
        /\ addr + WordBytes <= b + z
    BY <1>2, <1>4, <1>5
  <2> QED BY <2>1 DEF memory_region_contains, b, z
<1>9. Route[addr] = i + 1
  <2>1. i + 1 \in 0 .. 6 /\ (i + 1) + 1 = i + 2
    OBVIOUS
  <2> QED BY <1>6, <1>7, <1>8, <2>1, RouteOfWord
<1>10. RegisterAt[addr] = SocOffsets[Windows[i]][k]
  <2>1. /\ Windows[Route[addr] - 1] = Windows[i]
        /\ Platform.map[Route[addr] + 1].base = b
        /\ Route[addr] > 1
    <3>1. Route[addr] - 1 = i /\ Route[addr] + 1 = i + 2 /\ Route[addr] > 1
      BY <1>9
    <3> QED BY <3>1 DEF b
  <2>2. (addr - b) \div WordBytes + 1 = k
    <3>1. addr - b = off
      BY <1>2, <1>4, <1>5
    <3> QED BY <1>1, <1>4, <3>1
  <2>3. k \in DOMAIN SocOffsets[Windows[i]]
    BY WindowSizes
  <2> QED BY <1>6, <2>1, <2>2, <2>3 DEF RegisterAt
<1> QED BY <1>6, <1>7, <1>9, <1>10 DEF WindowAt

(* The firmware's register table (soc_regs.h) and the SoC's (soc.h) agree: *)
(* the address the firmware computes for a register is decoded to it.      *)
LEMMA VlabDecodes ==
  ASSUME NEW w \in DOMAIN VlabRegs, NEW r \in DOMAIN VlabRegs[w]
  PROVE  /\ Vlab(w, r) \in Uint32 /\ Vlab(w, r) % WordBytes = 0
         /\ Route[Vlab(w, r)] > 1
         /\ Route[Vlab(w, r)] \in 2 .. 6
         /\ RegisterAt[Vlab(w, r)] = r
         /\ WindowAt(Vlab(w, r)) = w
<1> DEFINE i == CHOOSE j \in DOMAIN Windows : Windows[j] = w
           k == VlabRegs[w][r] + 1
<1>1. w \in {"UART", "TIMER", "DMA", "INTC", "PERF"}
  BY DEF VlabRegs
<1>2. i \in 1 .. 5 /\ Windows[i] = w
  <2>1. \E j \in DOMAIN Windows : Windows[j] = w
    BY <1>1 DEF Windows
  <2> QED BY <2>1, WindowSizes
<1>3. /\ k \in 1 .. Len(SocOffsets[w]) /\ SocOffsets[w][k] = r
      /\ VlabRegs[w][r] = k - 1
  <2> USE DEF VlabRegs, SocOffsets
  <2>1. CASE w = "UART"
    BY <2>1 DEF SOC_UART_OFF
  <2>2. CASE w = "TIMER"
    BY <2>2 DEF SOC_TIMER_OFF
  <2>3. CASE w = "DMA"
    BY <2>3 DEF SOC_DMA_OFF
  <2>4. CASE w = "INTC"
    BY <2>4 DEF SOC_INTC_OFF
  <2>5. CASE w = "PERF"
    BY <2>5 DEF SOC_PERF_OFF
  <2> QED BY <1>1, <2>1, <2>2, <2>3, <2>4, <2>5
<1>4. Vlab(w, r) = Platform.map[i + 2].base + WordBytes * (k - 1)
  BY <1>3 DEF Vlab
<1> HIDE DEF i, k
<1>5. /\ Vlab(w, r) \in Uint32 /\ Vlab(w, r) % WordBytes = 0
      /\ Route[Vlab(w, r)] = i + 1
      /\ RegisterAt[Vlab(w, r)] = SocOffsets[Windows[i]][k]
      /\ WindowAt(Vlab(w, r)) = Windows[i]
  BY <1>2, <1>3, <1>4, WordDecodes
<1> QED BY <1>2, <1>3, <1>5

(* Hence an access of the firmware is one of the register it names. *)
LEMMA RegisterAccess ==
  ASSUME NEW w \in DOMAIN VlabRegs, NEW r \in DOMAIN VlabRegs[w], NEW s
  PROVE  /\ soc_read(s, Vlab(w, r))
              = Answered(soc_periph_read(Counted(s), w, r))
         /\ \A v : soc_write(s, Vlab(w, r), v)
                     = Answered(soc_periph_write(Counted(s), w, r, v))
<1>1. /\ Vlab(w, r) % WordBytes = 0
      /\ Route[Vlab(w, r)] \in 2 .. 6
      /\ RegisterAt[Vlab(w, r)] = r
      /\ WindowAt(Vlab(w, r)) = w
  BY VlabDecodes
<1>2. /\ Route[Vlab(w, r)] # None /\ Route[Vlab(w, r)] # 0
      /\ Route[Vlab(w, r)] # 1
  BY <1>1 DEF None
<1> QED BY <1>1, <1>2 DEF soc_read, soc_write

-----------------------------------------------------------------------------
(* What each register access of the firmware does to the hardware.  The    *)
(* equations are stated on the record of all the hardware, written with    *)
(* its parts, so that they compose.                                        *)

Board(u, t, d, ic, p, m, r) ==
  [uart |-> u, timer |-> t, dma |-> d, intc |-> ic, perf |-> p,
   sram |-> m, rom |-> r]

(* The counters after an access, and after one that stalls. *)
Acc(p) == Count(p, "MEM_ACC", 1)

Stall(p) == Count(p, "STALLS", 1)

(* The parts of a board, and the board with one part replaced. *)
LEMMA BoardParts ==
  ASSUME NEW u, NEW t, NEW d, NEW ic, NEW p, NEW m, NEW r
  PROVE  LET b == Board(u, t, d, ic, p, m, r)
         IN  /\ b.uart = u /\ b.timer = t /\ b.dma = d /\ b.intc = ic
             /\ b.perf = p /\ b.sram = m /\ b.rom = r
             /\ Counted(b) = Board(u, t, d, ic, Acc(p), m, r)
             /\ Stalled(b) = Board(u, t, d, ic, Stall(p), m, r)
             /\ \A x : /\ [b EXCEPT !.uart = x] = Board(x, t, d, ic, p, m, r)
                       /\ [b EXCEPT !.timer = x] = Board(u, x, d, ic, p, m, r)
                       /\ [b EXCEPT !.dma = x] = Board(u, t, x, ic, p, m, r)
                       /\ [b EXCEPT !.intc = x] = Board(u, t, d, x, p, m, r)
                       /\ [b EXCEPT !.perf = x] = Board(u, t, d, ic, x, m, r)
                       /\ [b EXCEPT !.sram = x] = Board(u, t, d, ic, p, x, r)
BY DEF Board, Counted, Stalled, Acc, Stall

LEMMA HwIsBoard == Hw = Board(uart, timer, dma, intc, perf, sram, rom)
BY DEF Hw, Board

(* The CTRL values that the drivers write. *)
TimerOn(t) == T!soc_timer_write_ctrl(t, TRUE, FALSE, TRUE)

TimerOff(t) == T!soc_timer_write_ctrl(t, FALSE, FALSE, FALSE)

UartOn(u) == soc_uart_write_ctrl(u, TRUE)

UartOff(u) == soc_uart_write_ctrl(u, FALSE)

(* The reads that the drivers make. *)
LEMMA ReadDmaStatus ==
  ASSUME NEW u, NEW t, NEW d, NEW ic, NEW p, NEW m, NEW r
  PROVE  hal_read_reg(Board(u, t, d, ic, p, m, r), "DMA", "STATUS")
           = OK(Board(u, t, d, ic, Acc(p), m, r), soc_dma_status(d))
<1> DEFINE b == Board(u, t, d, ic, p, m, r)
           a == Board(u, t, d, ic, Acc(p), m, r)
<1>1. Counted(b) = a /\ a.uart = u /\ a.dma = d /\ a.perf = Acc(p)
  BY BoardParts
<1> HIDE DEF a, b
<1>2. hal_read_reg(b, "DMA", "STATUS")
        = Answered(soc_periph_read(a, "DMA", "STATUS"))
  BY <1>1, RegisterAccess DEF hal_read_reg, VlabRegs
<1>3. soc_periph_read(a, "DMA", "STATUS") = OK(a, soc_dma_status(d))
  BY <1>1 DEF soc_periph_read, Readable, soc_dma_read
<1>4. Answered(OK(a, soc_dma_status(d))) = OK(a, soc_dma_status(d))
  BY DEF Answered, OK
<1> QED BY <1>2, <1>3, <1>4 DEF a, b

LEMMA ReadDmaCtrl ==
  ASSUME NEW u, NEW t, NEW d, NEW ic, NEW p, NEW m, NEW r
  PROVE  hal_read_reg(Board(u, t, d, ic, p, m, r), "DMA", "CTRL")
           = OK(Board(u, t, d, ic, Acc(p), m, r), d.ctrl)
<1> DEFINE b == Board(u, t, d, ic, p, m, r)
           a == Board(u, t, d, ic, Acc(p), m, r)
<1>1. Counted(b) = a /\ a.uart = u /\ a.dma = d /\ a.perf = Acc(p)
  BY BoardParts
<1> HIDE DEF a, b
<1>2. hal_read_reg(b, "DMA", "CTRL")
        = Answered(soc_periph_read(a, "DMA", "CTRL"))
  BY <1>1, RegisterAccess DEF hal_read_reg, VlabRegs
<1>3. soc_periph_read(a, "DMA", "CTRL") = OK(a, d.ctrl)
  BY <1>1 DEF soc_periph_read, Readable, soc_dma_read
<1>4. Answered(OK(a, d.ctrl)) = OK(a, d.ctrl)
  BY DEF Answered, OK
<1> QED BY <1>2, <1>3, <1>4 DEF a, b

LEMMA ReadUartStatus ==
  ASSUME NEW u, NEW t, NEW d, NEW ic, NEW p, NEW m, NEW r
  PROVE  hal_read_reg(Board(u, t, d, ic, p, m, r), "UART", "STATUS")
           = OK(Board(u, t, d, ic, Acc(p), m, r), soc_uart_status(u))
<1> DEFINE b == Board(u, t, d, ic, p, m, r)
           a == Board(u, t, d, ic, Acc(p), m, r)
<1>1. Counted(b) = a /\ a.uart = u /\ a.dma = d /\ a.perf = Acc(p)
  BY BoardParts
<1> HIDE DEF a, b
<1>2. hal_read_reg(b, "UART", "STATUS")
        = Answered(soc_periph_read(a, "UART", "STATUS"))
  BY <1>1, RegisterAccess DEF hal_read_reg, VlabRegs
<1>3. soc_periph_read(a, "UART", "STATUS") = OK(a, soc_uart_status(u))
  BY <1>1 DEF soc_periph_read, Readable, soc_uart_read
<1>4. Answered(OK(a, soc_uart_status(u))) = OK(a, soc_uart_status(u))
  BY DEF Answered, OK
<1> QED BY <1>2, <1>3, <1>4 DEF a, b

LEMMA ReadUartCtrl ==
  ASSUME NEW u, NEW t, NEW d, NEW ic, NEW p, NEW m, NEW r
  PROVE  hal_read_reg(Board(u, t, d, ic, p, m, r), "UART", "CTRL")
           = OK(Board(u, t, d, ic, Acc(p), m, r), Bits([ENABLE |-> u.enabled]))
<1> DEFINE b == Board(u, t, d, ic, p, m, r)
           a == Board(u, t, d, ic, Acc(p), m, r)
<1>1. Counted(b) = a /\ a.uart = u /\ a.dma = d /\ a.perf = Acc(p)
  BY BoardParts
<1> HIDE DEF a, b
<1>2. hal_read_reg(b, "UART", "CTRL")
        = Answered(soc_periph_read(a, "UART", "CTRL"))
  BY <1>1, RegisterAccess DEF hal_read_reg, VlabRegs
<1>3. soc_periph_read(a, "UART", "CTRL") = OK(a, Bits([ENABLE |-> u.enabled]))
  BY <1>1 DEF soc_periph_read, Readable, soc_uart_read
<1>4. Answered(OK(a, Bits([ENABLE |-> u.enabled])))
        = OK(a, Bits([ENABLE |-> u.enabled]))
  BY DEF Answered, OK
<1> QED BY <1>2, <1>3, <1>4 DEF a, b

LEMMA ReadPerfCtrl ==
  ASSUME NEW u, NEW t, NEW d, NEW ic, NEW p, NEW m, NEW r
  PROVE  hal_read_reg(Board(u, t, d, ic, p, m, r), "PERF", "CTRL")
           = OK(Board(u, t, d, ic, Acc(p), m, r), Acc(p)["CTRL"])
<1> DEFINE b == Board(u, t, d, ic, p, m, r)
           a == Board(u, t, d, ic, Acc(p), m, r)
<1>1. Counted(b) = a /\ a.uart = u /\ a.dma = d /\ a.perf = Acc(p)
  BY BoardParts
<1> HIDE DEF a, b
<1>2. hal_read_reg(b, "PERF", "CTRL")
        = Answered(soc_periph_read(a, "PERF", "CTRL"))
  BY <1>1, RegisterAccess DEF hal_read_reg, VlabRegs
<1>3. soc_periph_read(a, "PERF", "CTRL") = OK(a, Acc(p)["CTRL"])
  BY <1>1 DEF soc_periph_read, Readable, soc_perf_read, PerfCounters
<1>4. Answered(OK(a, Acc(p)["CTRL"])) = OK(a, Acc(p)["CTRL"])
  BY DEF Answered, OK
<1> QED BY <1>2, <1>3, <1>4 DEF a, b

LEMMA ReadRxdata ==
  ASSUME NEW u, NEW t, NEW d, NEW ic, NEW p, NEW m, NEW r
  PROVE  hal_read_reg(Board(u, t, d, ic, p, m, r), "UART", "RXDATA")
           = OK(Board(soc_uart_read_rxdata(u), t, d, ic, Acc(p), m, r), u.rxdata)
<1> DEFINE b == Board(u, t, d, ic, p, m, r)
           a == Board(u, t, d, ic, Acc(p), m, r)
           x == soc_uart_read_rxdata(u)
           c == Board(x, t, d, ic, Acc(p), m, r)
<1>1. Counted(b) = a /\ a.uart = u
  BY BoardParts
<1>2. [a EXCEPT !.uart = x] = c
  BY DEF Board
<1> HIDE DEF a, b, c
<1>3. hal_read_reg(b, "UART", "RXDATA")
        = Answered(soc_periph_read(a, "UART", "RXDATA"))
  BY <1>1, RegisterAccess DEF hal_read_reg, VlabRegs
<1>4. soc_periph_read(a, "UART", "RXDATA") = OK(c, u.rxdata)
  BY <1>1, <1>2 DEF soc_periph_read, Readable, soc_uart_read
<1>5. Answered(OK(c, u.rxdata)) = OK(c, u.rxdata)
  BY DEF Answered, OK
<1> QED BY <1>3, <1>4, <1>5 DEF b, c

(* A read of ACK (soc_intc.c, soc.c): the interrupt is taken and counted. *)
LEMMA AckEquation ==
  ASSUME NEW u, NEW t, NEW d, NEW ic, NEW p, NEW m, NEW r
  PROVE  hal_read_reg(Board(u, t, d, ic, p, m, r), "INTC", "ACK")
           = OK(Board(u, t, d, soc_intc_ack(ic),
                      IF soc_intc_highest(ic) = IRQ_NONE THEN Acc(p)
                      ELSE Count(Acc(p), "IRQ_COUNT", 1), m, r),
                soc_intc_highest(ic))
<1> DEFINE b == Board(u, t, d, ic, p, m, r)
           a == Board(u, t, d, ic, Acc(p), m, r)
           q == Count(Acc(p), "IRQ_COUNT", 1)
           h == soc_intc_highest(ic)
<1>1. Counted(b) = a /\ a.intc = ic /\ a.perf = Acc(p)
  BY BoardParts
<1>2. [a EXCEPT !.intc = soc_intc_ack(@), !.perf = Count(@, "IRQ_COUNT", 1)]
        = Board(u, t, d, soc_intc_ack(ic), q, m, r)
  <2> DEFINE k == soc_intc_ack(ic)
             c == Board(u, t, d, k, Acc(p), m, r)
  <2>1. [a EXCEPT !.intc = k] = c
    BY DEF Board
  <2>2. [c EXCEPT !.perf = q] = Board(u, t, d, k, q, m, r)
    BY DEF Board
  <2> HIDE DEF a, c, k, q
  <2>3. [a EXCEPT !.intc = k, !.perf = q] = [[a EXCEPT !.intc = k] EXCEPT !.perf = q]
    OBVIOUS
  <2> QED BY <1>1, <2>1, <2>2, <2>3 DEF k, q
<1>3. h = IRQ_NONE => soc_intc_ack(ic) = ic
  BY DEF soc_intc_ack
<1> HIDE DEF b, h, q
<1>4. hal_read_reg(b, "INTC", "ACK")
        = Answered(soc_periph_read(a, "INTC", "ACK"))
  <2> HIDE DEF a
  <2> QED BY <1>1, RegisterAccess DEF hal_read_reg, VlabRegs
<1>5. soc_periph_read(a, "INTC", "ACK")
        = OK(IF h = IRQ_NONE THEN a
             ELSE Board(u, t, d, soc_intc_ack(ic), q, m, r), h)
  <2> HIDE DEF a
  <2> QED BY <1>1, <1>2 DEF soc_periph_read, Readable, soc_intc_read, h
<1>6. ASSUME NEW v, NEW s PROVE Answered(OK(s, v)) = OK(s, v)
  BY DEF Answered, OK
<1> QED BY <1>3, <1>4, <1>5, <1>6 DEF b, h, q

(* A write that a window accepts. *)
LEMMA Accepted ==
  ASSUME NEW u, NEW t, NEW d, NEW ic, NEW p, NEW m, NEW r, NEW v,
         NEW w \in DOMAIN VlabRegs, NEW reg \in DOMAIN VlabRegs[w], NEW s,
         soc_periph_write(Board(u, t, d, ic, Acc(p), m, r), w, reg, v) = OK(s, 0)
  PROVE  hal_write_reg(Board(u, t, d, ic, p, m, r), w, reg, v) = s
<1> DEFINE b == Board(u, t, d, ic, p, m, r)
           a == Board(u, t, d, ic, Acc(p), m, r)
<1>1. Counted(b) = a
  BY BoardParts
<1> HIDE DEF a, b
<1>2. hal_write_reg(b, w, reg, v) = Answered(soc_periph_write(a, w, reg, v)).hw
  BY <1>1, RegisterAccess DEF hal_write_reg
<1>3. soc_periph_write(a, w, reg, v) = OK(s, 0)
  BY DEF a
<1>4. Answered(OK(s, 0)).hw = s
  BY DEF Answered, OK
<1> QED BY <1>2, <1>3, <1>4 DEF b

(* The writes of the drivers, register by register. *)
LEMMA WriteSrc ==
  ASSUME NEW u, NEW t, NEW d, NEW ic, NEW p, NEW m, NEW r, NEW v
  PROVE  hal_write_reg(Board(u, t, d, ic, p, m, r), "DMA", "SRC", v)
           = Board(u, t, [d EXCEPT !.src = v], ic, Acc(p), m, r)
<1>1. soc_periph_write(Board(u, t, d, ic, Acc(p), m, r), "DMA", "SRC", v)
        = OK(Board(u, t, [d EXCEPT !.src = v], ic, Acc(p), m, r), 0)
  BY DEF soc_periph_write, soc_dma_write, Board
<1>2. "DMA" \in DOMAIN VlabRegs /\ "SRC" \in DOMAIN VlabRegs["DMA"]
  BY DEF VlabRegs
<1> QED BY <1>1, <1>2, Accepted

LEMMA WriteDst ==
  ASSUME NEW u, NEW t, NEW d, NEW ic, NEW p, NEW m, NEW r, NEW v
  PROVE  hal_write_reg(Board(u, t, d, ic, p, m, r), "DMA", "DST", v)
           = Board(u, t, [d EXCEPT !.dst = v], ic, Acc(p), m, r)
<1>1. soc_periph_write(Board(u, t, d, ic, Acc(p), m, r), "DMA", "DST", v)
        = OK(Board(u, t, [d EXCEPT !.dst = v], ic, Acc(p), m, r), 0)
  BY DEF soc_periph_write, soc_dma_write, Board
<1>2. "DMA" \in DOMAIN VlabRegs /\ "DST" \in DOMAIN VlabRegs["DMA"]
  BY DEF VlabRegs
<1> QED BY <1>1, <1>2, Accepted

LEMMA WriteLen ==
  ASSUME NEW u, NEW t, NEW d, NEW ic, NEW p, NEW m, NEW r, NEW v
  PROVE  hal_write_reg(Board(u, t, d, ic, p, m, r), "DMA", "LEN", v)
           = Board(u, t, [d EXCEPT !.length = v], ic, Acc(p), m, r)
<1>1. soc_periph_write(Board(u, t, d, ic, Acc(p), m, r), "DMA", "LEN", v)
        = OK(Board(u, t, [d EXCEPT !.length = v], ic, Acc(p), m, r), 0)
  BY DEF soc_periph_write, soc_dma_write, Board
<1>2. "DMA" \in DOMAIN VlabRegs /\ "LEN" \in DOMAIN VlabRegs["DMA"]
  BY DEF VlabRegs
<1> QED BY <1>1, <1>2, Accepted

LEMMA WriteDmaClear ==
  ASSUME NEW u, NEW t, NEW d, NEW ic, NEW p, NEW m, NEW r, NEW v
  PROVE  hal_write_reg(Board(u, t, d, ic, p, m, r), "DMA", "IRQ_CLEAR", v)
           = Board(u, t, Cleared(d), ic, Acc(p), m, r)
<1>1. soc_periph_write(Board(u, t, d, ic, Acc(p), m, r), "DMA", "IRQ_CLEAR", v)
        = OK(Board(u, t, Cleared(d), ic, Acc(p), m, r), 0)
  BY DEF soc_periph_write, soc_dma_write, Board
<1>2. "DMA" \in DOMAIN VlabRegs /\ "IRQ_CLEAR" \in DOMAIN VlabRegs["DMA"]
  BY DEF VlabRegs
<1> QED BY <1>1, <1>2, Accepted

LEMMA WriteLoad ==
  ASSUME NEW u, NEW t, NEW d, NEW ic, NEW p, NEW m, NEW r, NEW v
  PROVE  hal_write_reg(Board(u, t, d, ic, p, m, r), "TIMER", "LOAD", v)
           = Board(u, T!soc_timer_write_load(t, v), d, ic, Acc(p), m, r)
<1>1. soc_periph_write(Board(u, t, d, ic, Acc(p), m, r), "TIMER", "LOAD", v)
        = OK(Board(u, T!soc_timer_write_load(t, v), d, ic, Acc(p), m, r), 0)
  BY DEF soc_periph_write, soc_timer_write, Board
<1>2. "TIMER" \in DOMAIN VlabRegs /\ "LOAD" \in DOMAIN VlabRegs["TIMER"]
  BY DEF VlabRegs
<1> QED BY <1>1, <1>2, Accepted

LEMMA WriteEnable ==
  ASSUME NEW u, NEW t, NEW d, NEW ic, NEW p, NEW m, NEW r, NEW v
  PROVE  hal_write_reg(Board(u, t, d, ic, p, m, r), "INTC", "ENABLE", v)
           = Board(u, t, d, soc_intc_write_enable(ic, v), Acc(p), m, r)
<1>1. soc_periph_write(Board(u, t, d, ic, Acc(p), m, r), "INTC", "ENABLE", v)
        = OK(Board(u, t, d, soc_intc_write_enable(ic, v), Acc(p), m, r), 0)
  BY DEF soc_periph_write, soc_intc_write, Board
<1>2. "INTC" \in DOMAIN VlabRegs /\ "ENABLE" \in DOMAIN VlabRegs["INTC"]
  BY DEF VlabRegs
<1> QED BY <1>1, <1>2, Accepted

LEMMA WriteClear ==
  ASSUME NEW u, NEW t, NEW d, NEW ic, NEW p, NEW m, NEW r, NEW v
  PROVE  hal_write_reg(Board(u, t, d, ic, p, m, r), "INTC", "CLEAR", v)
           = Board(u, t, d, soc_intc_write_clear(ic, v), Acc(p), m, r)
<1>1. soc_periph_write(Board(u, t, d, ic, Acc(p), m, r), "INTC", "CLEAR", v)
        = OK(Board(u, t, d, soc_intc_write_clear(ic, v), Acc(p), m, r), 0)
  BY DEF soc_periph_write, soc_intc_write, Board
<1>2. "INTC" \in DOMAIN VlabRegs /\ "CLEAR" \in DOMAIN VlabRegs["INTC"]
  BY DEF VlabRegs
<1> QED BY <1>1, <1>2, Accepted

LEMMA WritePerfCtrl ==
  ASSUME NEW u, NEW t, NEW d, NEW ic, NEW p, NEW m, NEW r, NEW v
  PROVE  hal_write_reg(Board(u, t, d, ic, p, m, r), "PERF", "CTRL", v)
           = Board(u, t, d, ic, soc_perf_write_ctrl(Acc(p), v), m, r)
<1>1. soc_periph_write(Board(u, t, d, ic, Acc(p), m, r), "PERF", "CTRL", v)
        = OK(Board(u, t, d, ic, soc_perf_write_ctrl(Acc(p), v), m, r), 0)
  BY DEF soc_periph_write, soc_perf_write, PerfCounters, Board
<1>2. "PERF" \in DOMAIN VlabRegs /\ "CTRL" \in DOMAIN VlabRegs["PERF"]
  BY DEF VlabRegs
<1> QED BY <1>1, <1>2, Accepted

LEMMA WriteBauddiv ==
  ASSUME NEW u, NEW t, NEW d, NEW ic, NEW p, NEW m, NEW r, NEW v
  PROVE  hal_write_reg(Board(u, t, d, ic, p, m, r), "UART", "BAUDDIV", v)
           = Board(u, t, d, ic, Acc(p), m, r)
<1>1. soc_periph_write(Board(u, t, d, ic, Acc(p), m, r), "UART", "BAUDDIV", v)
        = OK(Board(u, t, d, ic, Acc(p), m, r), 0)
  BY DEF soc_periph_write, soc_uart_write, Board
<1>2. "UART" \in DOMAIN VlabRegs /\ "BAUDDIV" \in DOMAIN VlabRegs["UART"]
  BY DEF VlabRegs
<1> QED BY <1>1, <1>2, Accepted

(* CTRL of the timer: start one-shot with its interrupt. *)
LEMMA WriteTimerOn ==
  ASSUME NEW u, NEW t, NEW d, NEW ic, NEW p, NEW m, NEW r, NEW v,
         "ENABLE" \in v, "PERIODIC" \notin v, "IRQ_ENABLE" \in v
  PROVE  hal_write_reg(Board(u, t, d, ic, p, m, r), "TIMER", "CTRL", v)
           = Board(u, TimerOn(t), d, ic, Acc(p), m, r)
<1> DEFINE a == Board(u, t, d, ic, Acc(p), m, r)
           x == TimerOn(t)
<1>1. /\ ("ENABLE" \in v) = TRUE
      /\ ("PERIODIC" \in v) = FALSE
      /\ ("IRQ_ENABLE" \in v) = TRUE
  OBVIOUS
<1>2. T!soc_timer_write_ctrl(t, "ENABLE" \in v, "PERIODIC" \in v,
                           "IRQ_ENABLE" \in v) = x
  BY <1>1 DEF TimerOn
<1>3. a.timer = t
  BY BoardParts
<1> HIDE DEF x
<1>4. [a EXCEPT !.timer = x] = Board(u, x, d, ic, Acc(p), m, r)
  BY DEF Board
<1> HIDE DEF a
<1>5. soc_periph_write(a, "TIMER", "CTRL", v) = OK([a EXCEPT !.timer = x], 0)
  BY <1>1, <1>2, <1>3 DEF soc_periph_write, soc_timer_write
<1>6. "TIMER" \in DOMAIN VlabRegs /\ "CTRL" \in DOMAIN VlabRegs["TIMER"]
  BY DEF VlabRegs
<1>7. hal_write_reg(Board(u, t, d, ic, p, m, r), "TIMER", "CTRL", v)
        = Board(u, x, d, ic, Acc(p), m, r)
  BY <1>4, <1>5, <1>6, Accepted DEF a
<1> QED BY <1>7 DEF x

(* CTRL of the timer: stop. *)
LEMMA WriteTimerOff ==
  ASSUME NEW u, NEW t, NEW d, NEW ic, NEW p, NEW m, NEW r
  PROVE  hal_write_reg(Board(u, t, d, ic, p, m, r), "TIMER", "CTRL", {})
           = Board(u, TimerOff(t), d, ic, Acc(p), m, r)
<1> DEFINE a == Board(u, t, d, ic, Acc(p), m, r)
           x == TimerOff(t)
<1>1. /\ ("ENABLE" \in {}) = FALSE
      /\ ("PERIODIC" \in {}) = FALSE
      /\ ("IRQ_ENABLE" \in {}) = FALSE
  OBVIOUS
<1>2. T!soc_timer_write_ctrl(t, "ENABLE" \in {}, "PERIODIC" \in {},
                           "IRQ_ENABLE" \in {}) = x
  BY <1>1 DEF TimerOff
<1>3. a.timer = t
  BY BoardParts
<1> HIDE DEF x
<1>4. [a EXCEPT !.timer = x] = Board(u, x, d, ic, Acc(p), m, r)
  BY DEF Board
<1> HIDE DEF a
<1>5. soc_periph_write(a, "TIMER", "CTRL", {}) = OK([a EXCEPT !.timer = x], 0)
  BY <1>1, <1>2, <1>3 DEF soc_periph_write, soc_timer_write
<1>6. "TIMER" \in DOMAIN VlabRegs /\ "CTRL" \in DOMAIN VlabRegs["TIMER"]
  BY DEF VlabRegs
<1>7. hal_write_reg(Board(u, t, d, ic, p, m, r), "TIMER", "CTRL", {})
        = Board(u, x, d, ic, Acc(p), m, r)
  BY <1>4, <1>5, <1>6, Accepted DEF a
<1> QED BY <1>7 DEF x

(* CTRL of the UART: enable. *)
LEMMA WriteUartOn ==
  ASSUME NEW u, NEW t, NEW d, NEW ic, NEW p, NEW m, NEW r, NEW v, "ENABLE" \in v
  PROVE  hal_write_reg(Board(u, t, d, ic, p, m, r), "UART", "CTRL", v)
           = Board(UartOn(u), t, d, ic, Acc(p), m, r)
<1> DEFINE a == Board(u, t, d, ic, Acc(p), m, r)
           x == UartOn(u)
<1>1. ("ENABLE" \in v) = TRUE
  OBVIOUS
<1>2. soc_uart_write_ctrl(u, "ENABLE" \in v) = x
  BY <1>1 DEF UartOn
<1>3. a.uart = u
  BY BoardParts
<1> HIDE DEF x
<1>4. [a EXCEPT !.uart = x] = Board(x, t, d, ic, Acc(p), m, r)
  BY DEF Board
<1> HIDE DEF a
<1>5. soc_periph_write(a, "UART", "CTRL", v) = OK([a EXCEPT !.uart = x], 0)
  BY <1>1, <1>2, <1>3 DEF soc_periph_write, soc_uart_write
<1>6. "UART" \in DOMAIN VlabRegs /\ "CTRL" \in DOMAIN VlabRegs["UART"]
  BY DEF VlabRegs
<1>7. hal_write_reg(Board(u, t, d, ic, p, m, r), "UART", "CTRL", v)
        = Board(x, t, d, ic, Acc(p), m, r)
  BY <1>4, <1>5, <1>6, Accepted DEF a
<1> QED BY <1>7 DEF x

(* CTRL of the UART: disable. *)
LEMMA WriteUartOff ==
  ASSUME NEW u, NEW t, NEW d, NEW ic, NEW p, NEW m, NEW r, NEW v, "ENABLE" \notin v
  PROVE  hal_write_reg(Board(u, t, d, ic, p, m, r), "UART", "CTRL", v)
           = Board(UartOff(u), t, d, ic, Acc(p), m, r)
<1> DEFINE a == Board(u, t, d, ic, Acc(p), m, r)
           x == UartOff(u)
<1>1. ("ENABLE" \in v) = FALSE
  OBVIOUS
<1>2. soc_uart_write_ctrl(u, "ENABLE" \in v) = x
  BY <1>1 DEF UartOff
<1>3. a.uart = u
  BY BoardParts
<1> HIDE DEF x
<1>4. [a EXCEPT !.uart = x] = Board(x, t, d, ic, Acc(p), m, r)
  BY DEF Board
<1> HIDE DEF a
<1>5. soc_periph_write(a, "UART", "CTRL", v) = OK([a EXCEPT !.uart = x], 0)
  BY <1>1, <1>2, <1>3 DEF soc_periph_write, soc_uart_write
<1>6. "UART" \in DOMAIN VlabRegs /\ "CTRL" \in DOMAIN VlabRegs["UART"]
  BY DEF VlabRegs
<1>7. hal_write_reg(Board(u, t, d, ic, p, m, r), "UART", "CTRL", v)
        = Board(x, t, d, ic, Acc(p), m, r)
  BY <1>4, <1>5, <1>6, Accepted DEF a
<1> QED BY <1>7 DEF x

(* IRQ_CLEAR of the timer. *)
LEMMA WriteTimerClear ==
  ASSUME NEW u, NEW t, NEW d, NEW ic, NEW p, NEW m, NEW r
  PROVE  hal_write_reg(Board(u, t, d, ic, p, m, r), "TIMER", "IRQ_CLEAR", {"FIRED"})
           = Board(u, T!soc_timer_write_clear(t), d, ic, Acc(p), m, r)
<1> DEFINE a == Board(u, t, d, ic, Acc(p), m, r)
           x == T!soc_timer_write_clear(t)
<1>1. "FIRED" \in {"FIRED"}
  OBVIOUS
<1>2. T!soc_timer_write_clear(t) = x
  BY <1>1
<1>3. a.timer = t
  BY BoardParts
<1> HIDE DEF x
<1>4. [a EXCEPT !.timer = x] = Board(u, x, d, ic, Acc(p), m, r)
  BY DEF Board
<1> HIDE DEF a
<1>5. soc_periph_write(a, "TIMER", "IRQ_CLEAR", {"FIRED"})
        = OK([a EXCEPT !.timer = x], 0)
  BY <1>1, <1>2, <1>3 DEF soc_periph_write, soc_timer_write
<1>6. "TIMER" \in DOMAIN VlabRegs /\ "IRQ_CLEAR" \in DOMAIN VlabRegs["TIMER"]
  BY DEF VlabRegs
<1>7. hal_write_reg(Board(u, t, d, ic, p, m, r), "TIMER", "IRQ_CLEAR", {"FIRED"})
        = Board(u, x, d, ic, Acc(p), m, r)
  BY <1>4, <1>5, <1>6, Accepted DEF a
<1> QED BY <1>7 DEF x

(* What a write stores in CTRL: the bit IRQ_ENABLE, and never START. *)
LEMMA CtrlFacts ==
  ASSUME NEW irq \in BOOLEAN
  PROVE  /\ CtrlStored({"START"} \cup IrqBit(irq)) = IrqBit(irq)
         /\ CtrlStored(IrqBit(irq)) = IrqBit(irq)
         /\ IrqBit(irq) \in SUBSET {"START", "IRQ_ENABLE"}
         /\ "START" \notin IrqBit(irq)
BY DEF CtrlStored, IrqBit

(* A write of DMA.CTRL with START, which stalls when the engine is busy,   *)
(* and without it (soc_dma.c:167-189).                                     *)
LEMMA WriteStart ==
  ASSUME NEW u, NEW t, NEW d, NEW ic, NEW p, NEW m, NEW r, NEW v,
         "START" \in v, NEW irq, ("IRQ_ENABLE" \in v) = irq
  PROVE  hal_write_reg(Board(u, t, d, ic, p, m, r), "DMA", "CTRL", v)
           = Board(u, t, soc_dma_write_start(d, irq), StartIntc(d, irq, ic),
                   IF d.busy THEN Stall(Acc(p)) ELSE Acc(p), m, r)
<1> DEFINE a == Board(u, t, d, ic, Acc(p), m, r)
           c == Board(u, t, d, ic, Stall(Acc(p)), m, r)
           e == soc_dma_write_start(d, irq)
           k == StartIntc(d, irq, ic)
           f == Board(u, t, e, k, IF d.busy THEN Stall(Acc(p)) ELSE Acc(p), m, r)
<1>1. /\ Stalled(a) = c /\ a.dma = d /\ a.intc = ic
      /\ c.dma = d /\ c.intc = ic
  BY BoardParts
<1>2. /\ [a EXCEPT !.dma = e, !.intc = k] = Board(u, t, e, k, Acc(p), m, r)
      /\ [c EXCEPT !.dma = e, !.intc = k]
           = Board(u, t, e, k, Stall(Acc(p)), m, r)
  <2> DEFINE a1 == Board(u, t, e, ic, Acc(p), m, r)
             c1 == Board(u, t, e, ic, Stall(Acc(p)), m, r)
  <2>1. [a EXCEPT !.dma = e] = a1 /\ [c EXCEPT !.dma = e] = c1
    BY DEF Board
  <2>2. /\ [a1 EXCEPT !.intc = k] = Board(u, t, e, k, Acc(p), m, r)
        /\ [c1 EXCEPT !.intc = k] = Board(u, t, e, k, Stall(Acc(p)), m, r)
    BY DEF Board
  <2> HIDE DEF a, c, a1, c1, e, k
  <2>3. /\ [a EXCEPT !.dma = e, !.intc = k]
             = [[a EXCEPT !.dma = e] EXCEPT !.intc = k]
        /\ [c EXCEPT !.dma = e, !.intc = k]
             = [[c EXCEPT !.dma = e] EXCEPT !.intc = k]
    OBVIOUS
  <2> QED BY <2>1, <2>2, <2>3
<1> HIDE DEF a, c
<1>3. soc_dma_write_CTRL(a, v) = f
  <2>1. CASE d.busy
    <3>1. soc_dma_write_CTRL(a, v)
            = [c EXCEPT !.dma = soc_dma_write_start(@, irq),
                        !.intc = StartIntc(a.dma, irq, @)]
      BY <1>1, <2>1 DEF soc_dma_write_CTRL
    <3> QED BY <1>1, <1>2, <2>1, <3>1
  <2>2. CASE ~d.busy
    <3>1. soc_dma_write_CTRL(a, v)
            = [a EXCEPT !.dma = soc_dma_write_start(@, irq),
                        !.intc = StartIntc(a.dma, irq, @)]
      BY <1>1, <2>2 DEF soc_dma_write_CTRL
    <3> QED BY <1>1, <1>2, <2>2, <3>1
  <2> QED BY <2>1, <2>2
<1> HIDE DEF f
<1>4. soc_periph_write(a, "DMA", "CTRL", v) = OK(f, 0)
  BY <1>3 DEF soc_periph_write, soc_dma_write
<1>5. "DMA" \in DOMAIN VlabRegs /\ "CTRL" \in DOMAIN VlabRegs["DMA"]
  BY DEF VlabRegs
<1>6. hal_write_reg(Board(u, t, d, ic, p, m, r), "DMA", "CTRL", v) = f
  BY <1>4, <1>5, Accepted DEF a
<1> QED BY <1>6 DEF f

(* CTRL of the DMA without START. *)
LEMMA WriteIrqEnable ==
  ASSUME NEW u, NEW t, NEW d, NEW ic, NEW p, NEW m, NEW r, NEW v,
         "START" \notin v, NEW irq \in BOOLEAN, ("IRQ_ENABLE" \in v) = irq
  PROVE  hal_write_reg(Board(u, t, d, ic, p, m, r), "DMA", "CTRL", v)
           = Board(u, t, [d EXCEPT !.ctrl = IrqBit(irq)], ic, Acc(p), m, r)
<1> DEFINE a    == Board(u, t, d, ic, Acc(p), m, r)
           bits == IrqBit(irq)
           f    == Board(u, t, [d EXCEPT !.ctrl = bits], ic, Acc(p), m, r)
<1> HIDE DEF bits
<1>1. [a EXCEPT !.dma.ctrl = bits] = f
  BY DEF Board
<1> HIDE DEF a, f
<1>2. soc_dma_write_CTRL(a, v) = f
  <2>1. CtrlStored(IrqBit("IRQ_ENABLE" \in v)) = bits
    BY CtrlFacts DEF bits
  <2>2. soc_dma_write_CTRL(a, v)
          = [a EXCEPT !.dma.ctrl = CtrlStored(IrqBit("IRQ_ENABLE" \in v))]
    BY DEF soc_dma_write_CTRL
  <2> QED BY <1>1, <2>1, <2>2
<1>3. soc_periph_write(a, "DMA", "CTRL", v) = OK(f, 0)
  BY <1>2 DEF soc_periph_write, soc_dma_write
<1>4. "DMA" \in DOMAIN VlabRegs /\ "CTRL" \in DOMAIN VlabRegs["DMA"]
  BY DEF VlabRegs
<1>5. hal_write_reg(Board(u, t, d, ic, p, m, r), "DMA", "CTRL", v) = f
  BY <1>3, <1>4, Accepted DEF a
<1> QED BY <1>5 DEF f, bits

(* A write of TXDATA: a disabled UART refuses it with a stall (soc_uart.c, *)
(* soc.c:115-142).                                                         *)
LEMMA TxEquation ==
  ASSUME NEW u, NEW t, NEW d, NEW ic, NEW p, NEW m, NEW r, NEW v
  PROVE  hal_write_reg(Board(u, t, d, ic, p, m, r), "UART", "TXDATA", v)
           = IF u.enabled
             THEN Board(soc_uart_write_txdata(u, v, UartLatency),
                        t, d, ic, Acc(p), m, r)
             ELSE Board(u, t, d, ic, Stall(Acc(p)), m, r)
<1> DEFINE b == Board(u, t, d, ic, p, m, r)
           a == Board(u, t, d, ic, Acc(p), m, r)
           x == soc_uart_write_txdata(u, v, UartLatency)
<1>1. /\ Counted(b) = a /\ a.uart = u
      /\ Stalled(a) = Board(u, t, d, ic, Stall(Acc(p)), m, r)
  BY BoardParts
<1>5. [a EXCEPT !.uart = x] = Board(x, t, d, ic, Acc(p), m, r)
  BY DEF Board
<1> HIDE DEF a, b
<1>2. hal_write_reg(b, "UART", "TXDATA", v)
        = Answered(soc_uart_write(a, "TXDATA", v)).hw
  BY <1>1, RegisterAccess DEF hal_write_reg, VlabRegs, soc_periph_write
<1>3. CASE u.enabled
  BY <1>1, <1>2, <1>3, <1>5 DEF soc_uart_write, Answered, OK, b
<1>4. CASE ~u.enabled
  BY <1>1, <1>2, <1>4 DEF soc_uart_write, Answered, b
<1> QED BY <1>3, <1>4 DEF b

-----------------------------------------------------------------------------
(* The driver calls, composed of these accesses (firmware/drivers). *)

(* The timer as the clients start it. *)
OneShot(s, load) == timer_start(s, load, FALSE, TRUE)

(* timer_start is the write of LOAD and then of CTRL. *)
LEMMA CallTimerStart ==
  ASSUME NEW u, NEW t, NEW d, NEW ic, NEW p, NEW m, NEW r, NEW load, load # 0
  PROVE  OneShot(Board(u, t, d, ic, p, m, r), load)
           = Board(u, TimerOn(T!soc_timer_write_load(t, load)),
                   d, ic, Acc(Acc(p)), m, r)
<1> DEFINE b  == Board(u, t, d, ic, p, m, r)
           t1 == T!soc_timer_write_load(t, load)
           b1 == Board(u, t1, d, ic, Acc(p), m, r)
           on == Bits([ENABLE |-> TRUE, PERIODIC |-> FALSE, IRQ_ENABLE |-> TRUE])
           b2 == Board(u, TimerOn(t1),
                       d, ic, Acc(Acc(p)), m, r)
<1>1. hal_write_reg(b, "TIMER", "LOAD", load) = b1
  BY WriteLoad
<1>2. "ENABLE" \in on /\ "PERIODIC" \notin on /\ "IRQ_ENABLE" \in on
  BY DEF Bits
<1> HIDE DEF t1, on
<1>3. hal_write_reg(b1, "TIMER", "CTRL", on) = b2
  BY <1>2, WriteTimerOn
<1> HIDE DEF b, b1, b2
<1>4. OneShot(b, load) = b2
  BY <1>1, <1>3 DEF OneShot, timer_start, on
<1> QED BY <1>4 DEF b, b2, t1

(* intc_ack is one read of ACK. *)
LEMMA CallIntcAck ==
  ASSUME NEW u, NEW t, NEW d, NEW ic, NEW p, NEW m, NEW r
  PROVE  intc_ack(Board(u, t, d, ic, p, m, r))
           = Board(u, t, d, soc_intc_ack(ic),
                   IF soc_intc_highest(ic) = IRQ_NONE THEN Acc(p)
                   ELSE Count(Acc(p), "IRQ_COUNT", 1), m, r)
BY AckEquation DEF intc_ack, OK

(* hal_modify_reg on the three CTRL registers: the DMA's read-modify-write *)
(* starts nothing, the UART's disables, the counters' resets.              *)
LEMMA ModifyDma ==
  ASSUME NEW u, NEW t, NEW d, NEW ic, NEW p, NEW m, NEW r, NEW val,
         NEW irq \in BOOLEAN, ("IRQ_ENABLE" \in val) = irq, "START" \notin d.ctrl
  PROVE  hal_modify_reg(Board(u, t, d, ic, p, m, r), "DMA", "CTRL",
                        {"IRQ_ENABLE"}, val)
           = Board(u, t, [d EXCEPT !.ctrl = IrqBit(irq)], ic, Acc(Acc(p)), m, r)
<1> DEFINE b   == Board(u, t, d, ic, p, m, r)
           a   == Board(u, t, d, ic, Acc(p), m, r)
           cur == d.ctrl
           v   == (cur \ {"IRQ_ENABLE"}) \cup (val \cap {"IRQ_ENABLE"})
<1>1. "START" \notin v /\ ("IRQ_ENABLE" \in v) = irq
  OBVIOUS
<1>2. hal_read_reg(b, "DMA", "CTRL") = OK(a, cur)
  BY ReadDmaCtrl
<1> HIDE DEF cur, v
<1>3. hal_write_reg(a, "DMA", "CTRL", v)
        = Board(u, t, [d EXCEPT !.ctrl = IrqBit(irq)], ic, Acc(Acc(p)), m, r)
  BY <1>1, WriteIrqEnable
<1> HIDE DEF a, b
<1>4. hal_modify_reg(b, "DMA", "CTRL", {"IRQ_ENABLE"}, val)
        = hal_write_reg(a, "DMA", "CTRL", v)
  <2> DEFINE got == hal_read_reg(b, "DMA", "CTRL")
  <2>1. got.hw = a /\ got.out = cur
    BY <1>2 DEF OK
  <2> HIDE DEF got
  <2>2. hal_modify_reg(b, "DMA", "CTRL", {"IRQ_ENABLE"}, val)
          = hal_write_reg(got.hw, "DMA", "CTRL",
              (got.out \ {"IRQ_ENABLE"}) \cup (val \cap {"IRQ_ENABLE"}))
    BY DEF hal_modify_reg, got
  <2> QED BY <2>1, <2>2 DEF v
<1> QED BY <1>3, <1>4 DEF b

(* The same for CTRL of the UART. *)
LEMMA ModifyUart ==
  ASSUME NEW u, NEW t, NEW d, NEW ic, NEW p, NEW m, NEW r
  PROVE  hal_modify_reg(Board(u, t, d, ic, p, m, r), "UART", "CTRL",
                        {"ENABLE"}, {})
           = Board(UartOff(u), t, d, ic, Acc(Acc(p)), m, r)
<1> DEFINE b   == Board(u, t, d, ic, p, m, r)
           a   == Board(u, t, d, ic, Acc(p), m, r)
           cur == Bits([ENABLE |-> u.enabled])
           v   == (cur \ {"ENABLE"}) \cup ({} \cap {"ENABLE"})
           f   == Board(UartOff(u), t, d, ic, Acc(Acc(p)), m, r)
<1>1. "ENABLE" \notin v
  OBVIOUS
<1>2. hal_read_reg(b, "UART", "CTRL") = OK(a, cur)
  BY ReadUartCtrl
<1> HIDE DEF cur, v
<1>3. hal_write_reg(a, "UART", "CTRL", v) = f
  BY <1>1, WriteUartOff
<1> HIDE DEF a, b, f
<1>4. hal_modify_reg(b, "UART", "CTRL", {"ENABLE"}, {})
        = hal_write_reg(a, "UART", "CTRL", v)
  BY <1>2 DEF hal_modify_reg, OK, v
<1> QED BY <1>3, <1>4 DEF b, f

(* The same for CTRL of the counters. *)
LEMMA ModifyPerf ==
  ASSUME NEW u, NEW t, NEW d, NEW ic, NEW p, NEW m, NEW r
  PROVE  hal_modify_reg(Board(u, t, d, ic, p, m, r), "PERF", "CTRL",
                        {"RESET"}, {"RESET"})
           = Board(u, t, d, ic,
                   soc_perf_write_ctrl(Acc(Acc(p)),
                     (Acc(p)["CTRL"] \ {"RESET"}) \cup ({"RESET"} \cap {"RESET"})),
                   m, r)
<1> DEFINE b   == Board(u, t, d, ic, p, m, r)
           a   == Board(u, t, d, ic, Acc(p), m, r)
           cur == Acc(p)["CTRL"]
           v   == (cur \ {"RESET"}) \cup ({"RESET"} \cap {"RESET"})
<1>1. hal_read_reg(b, "PERF", "CTRL") = OK(a, cur)
  BY ReadPerfCtrl
<1> HIDE DEF cur, v
<1>2. hal_write_reg(a, "PERF", "CTRL", v)
        = Board(u, t, d, ic, soc_perf_write_ctrl(Acc(Acc(p)), v), m, r)
  BY WritePerfCtrl
<1> HIDE DEF a, b
<1>3. hal_modify_reg(b, "PERF", "CTRL", {"RESET"}, {"RESET"})
        = hal_write_reg(a, "PERF", "CTRL", v)
  BY <1>1 DEF hal_modify_reg, OK, v
<1> QED BY <1>2, <1>3 DEF b, v, cur

(* platform_init masks all lines, resets and starts the counters, and      *)
(* enables the UART.                                                       *)
LEMMA CallPlatformInit ==
  ASSUME NEW u, NEW t, NEW d, NEW ic, NEW p, NEW m, NEW r
  PROVE  platform_init(Board(u, t, d, ic, p, m, r))
           = Board(UartOn(u), t, d, soc_intc_write_enable(ic, {}),
                   Acc(Acc(soc_perf_write_ctrl(
                     Acc(soc_perf_write_ctrl(Acc(Acc(p)), {"RESET"})),
                     {"ENABLE"}))), m, r)
<1> DEFINE k  == soc_intc_write_enable(ic, {})
           q2 == soc_perf_write_ctrl(Acc(Acc(p)), {"RESET"})
           q3 == soc_perf_write_ctrl(Acc(q2), {"ENABLE"})
           b  == Board(u, t, d, ic, p, m, r)
           b1 == Board(u, t, d, k, Acc(p), m, r)
           b2 == Board(u, t, d, k, q2, m, r)
           b3 == Board(u, t, d, k, q3, m, r)
           b4 == Board(u, t, d, k, Acc(q3), m, r)
           b5 == Board(UartOn(u), t, d, k, Acc(Acc(q3)), m, r)
<1>1. hal_write_reg(b, "INTC", "ENABLE", {}) = b1
  BY WriteEnable
<1>2. hal_write_reg(b1, "PERF", "CTRL", {"RESET"}) = b2
  <2> HIDE DEF k
  <2> QED BY WritePerfCtrl
<1>3. hal_write_reg(b2, "PERF", "CTRL", {"ENABLE"}) = b3
  <2> HIDE DEF k, q2
  <2> QED BY WritePerfCtrl
<1>4. hal_write_reg(b3, "UART", "BAUDDIV", 0) = b4
  <2> HIDE DEF k, q3
  <2> QED BY WriteBauddiv
<1>5. hal_write_reg(b4, "UART", "CTRL", {"ENABLE"}) = b5
  <2> HIDE DEF k, q3
  <2> QED BY WriteUartOn
<1> HIDE DEF b, b1, b2, b3, b4, b5
<1>6. platform_init(b) = b5
  BY <1>1, <1>2, <1>3, <1>4, <1>5 DEF platform_init, uart_init
<1> QED BY <1>6 DEF b, b5

(* uart_write_byte sends only through an enabled, idle transmitter. *)
LEMMA CallUartWrite ==
  ASSUME NEW u \in UartType, NEW t, NEW d, NEW ic, NEW p, NEW m, NEW r, NEW x
  PROVE  uart_write_byte(Board(u, t, d, ic, p, m, r), x)
           = IF ~u.enabled THEN Board(u, t, d, ic, Acc(p), m, r)
             ELSE IF ~(u.busy > 0)
             THEN Board(soc_uart_write_txdata(u, x, UartLatency),
                        t, d, ic, Acc(Acc(Acc(p))), m, r)
             ELSE Board(u, t, d, ic,
                        Count(Acc(Acc(p)), "MEM_ACC", TxPolls - 1), m, r)
<1> DEFINE b    == Board(u, t, d, ic, p, m, r)
           b1   == Board(u, t, d, ic, Acc(p), m, r)
           b2   == Board(u, t, d, ic, Acc(Acc(p)), m, r)
           b3   == Board(soc_uart_write_txdata(u, x, UartLatency),
                         t, d, ic, Acc(Acc(Acc(p))), m, r)
           q    == Count(Acc(Acc(p)), "MEM_ACC", TxPolls - 1)
           b4   == Board(u, t, d, ic, q, m, r)
           ctrl == Bits([ENABLE |-> u.enabled])
           stat == soc_uart_status(u)
<1>1. hal_read_reg(b, "UART", "CTRL") = OK(b1, ctrl)
  BY ReadUartCtrl
<1>2. hal_read_reg(b1, "UART", "STATUS") = OK(b2, stat)
  BY ReadUartStatus
<1>3. u.enabled => hal_write_reg(b2, "UART", "TXDATA", x) = b3
  BY TxEquation
<1>4. "ENABLE" \in ctrl <=> u.enabled
  BY DEF Bits
<1>5. "TX_EMPTY" \in stat <=> ~(u.busy > 0)
  BY DEF soc_uart_status, Bits
<1>6. [b2 EXCEPT !.perf = Count(@, "MEM_ACC", TxPolls - 1)] = b4
  <2>1. b2.perf = Acc(Acc(p))
    BY BoardParts
  <2>2. [b2 EXCEPT !.perf = q] = b4
    BY DEF Board
  <2> HIDE DEF b2, b4
  <2> QED BY <2>1, <2>2
<1> HIDE DEF b, b1, b2, b3, b4, ctrl, stat
<1>7. uart_write_byte(b, x)
        = IF ~u.enabled THEN b1 ELSE IF ~(u.busy > 0) THEN b3 ELSE b4
  <2> DEFINE c == hal_read_reg(b, "UART", "CTRL")
             g == hal_read_reg(c.hw, "UART", "STATUS")
  <2>1. c.hw = b1 /\ c.out = ctrl
    BY <1>1 DEF OK
  <2>2. g.hw = b2 /\ g.out = stat
    BY <1>2, <2>1 DEF OK
  <2>3. uart_write_byte(b, x)
          = IF "ENABLE" \notin c.out THEN c.hw
            ELSE IF "TX_EMPTY" \in g.out
            THEN hal_write_reg(g.hw, "UART", "TXDATA", x)
            ELSE [g.hw EXCEPT !.perf = Count(@, "MEM_ACC", TxPolls - 1)]
    BY DEF uart_write_byte
  <2> HIDE DEF c, g
  <2> QED BY <1>3, <1>4, <1>5, <1>6, <2>1, <2>2, <2>3
<1> QED BY <1>7 DEF b, b1, b3, b4

(* uart_read_byte takes a byte iff one is there. *)
LEMMA CallUartRead ==
  ASSUME NEW u \in UartType, NEW t, NEW d, NEW ic, NEW p, NEW m, NEW r
  PROVE  uart_read_byte(Board(u, t, d, ic, p, m, r))
           = IF u.rx_valid
             THEN Board(soc_uart_read_rxdata(u), t, d, ic, Acc(Acc(p)), m, r)
             ELSE Board(u, t, d, ic, Acc(p), m, r)
<1> DEFINE b    == Board(u, t, d, ic, p, m, r)
           b1   == Board(u, t, d, ic, Acc(p), m, r)
           b2   == Board(soc_uart_read_rxdata(u), t, d, ic, Acc(Acc(p)), m, r)
           stat == soc_uart_status(u)
<1>1. hal_read_reg(b, "UART", "STATUS") = OK(b1, stat)
  BY ReadUartStatus
<1>2. hal_read_reg(b1, "UART", "RXDATA") = OK(b2, u.rxdata)
  BY ReadRxdata
<1>3. "RX_VALID" \in stat <=> u.rx_valid
  BY DEF soc_uart_status, Bits
<1> HIDE DEF b, b1, b2, stat
<1>4. uart_read_byte(b) = IF u.rx_valid THEN b2 ELSE b1
  BY <1>1, <1>2, <1>3 DEF uart_read_byte, OK
<1> QED BY <1>4 DEF b, b1, b2

(* The registers that dma_start programs. *)
Programmed(d, src, dst, len) ==
  [d EXCEPT !.src = src, !.dst = dst, !.length = len]

StartOK(src, dst, len) == soc_dma_start_code(Platform, src, dst, len) = "OK"

(* dma_start starts an idle engine with what its validation accepted and   *)
(* does nothing otherwise; since the engine's own validation agrees, no    *)
(* START of the driver is refused (drivers/dma.c:62-137).                  *)
LEMMA CallDmaStart ==
  ASSUME NEW u, NEW t, NEW d \in DmaType, NEW ic, NEW p, NEW m, NEW r,
         NEW src, NEW dst, NEW len, NEW irq \in BOOLEAN
  PROVE  dma_start(Board(u, t, d, ic, p, m, r), src, dst, len, irq)
           = IF d.busy \/ ~StartOK(src, dst, len)
             THEN Board(u, t, d, ic, Acc(p), m, r)
             ELSE Board(u, t, soc_dma_write_start(Programmed(d, src, dst, len), irq),
                        ic, Acc(Acc(Acc(Acc(Acc(p))))), m, r)
<1> DEFINE d1 == [d EXCEPT !.src = src]
           d2 == [d1 EXCEPT !.dst = dst]
           e  == [d2 EXCEPT !.length = len]
           b  == Board(u, t, d, ic, p, m, r)
           b1 == Board(u, t, d, ic, Acc(p), m, r)
           b2 == Board(u, t, d1, ic, Acc(Acc(p)), m, r)
           b3 == Board(u, t, d2, ic, Acc(Acc(Acc(p))), m, r)
           b4 == Board(u, t, e, ic, Acc(Acc(Acc(Acc(p)))), m, r)
           b5 == Board(u, t, soc_dma_write_start(e, irq), ic,
                       Acc(Acc(Acc(Acc(Acc(p))))), m, r)
           stat == soc_dma_status(d)
           go   == Bits([START |-> TRUE, IRQ_ENABLE |-> irq])
<1>1. hal_read_reg(b, "DMA", "STATUS") = OK(b1, stat)
  BY ReadDmaStatus
<1>2. hal_write_reg(b1, "DMA", "SRC", src) = b2
  BY WriteSrc
<1>3. hal_write_reg(b2, "DMA", "DST", dst) = b3
  <2> HIDE DEF d1
  <2> QED BY WriteDst
<1>4. hal_write_reg(b3, "DMA", "LEN", len) = b4
  <2> HIDE DEF d2
  <2> QED BY WriteLen
<1>5. /\ e = Programmed(d, src, dst, len)
      /\ e.src = src /\ e.dst = dst /\ e.length = len /\ e.busy = d.busy
  BY DEF Programmed, DmaType
<1>6. "START" \in go /\ ("IRQ_ENABLE" \in go) = irq
  BY DEF Bits
<1>7. "BUSY" \in stat <=> d.busy
  BY DEF soc_dma_status, Bits, DmaType
<1> HIDE DEF d1, d2, stat, go
<1>8. ASSUME ~d.busy, StartOK(src, dst, len)
      PROVE  hal_write_reg(b4, "DMA", "CTRL", go) = b5
  <2>1. ~e.busy
    BY <1>5, <1>8
  <2>2. StartIntc(e, irq, ic) = ic
    <3> DEFINE e1 == [Cleared(e) EXCEPT !.irq_enable_latched = irq]
               n  == transfer_ticks(e.length, LatencyPerWord, Burst)
    <3>1. soc_dma_start(e, irq) = [e1 EXCEPT !.busy = TRUE, !.remaining = n]
      BY <1>5, <1>8, <2>1 DEF soc_dma_start, StartOK
    <3>2. e \in [DOMAIN d -> {e[f] : f \in DOMAIN d}] /\ "error" \in DOMAIN d
      BY DEF DmaType, d1, d2
    <3> HIDE DEF e, n
    <3>3. ~soc_dma_start(e, irq).error
      BY <3>1, <3>2 DEF Cleared
    <3> QED BY <3>3 DEF StartIntc
  <2> HIDE DEF e
  <2>3. hal_write_reg(b4, "DMA", "CTRL", go)
          = Board(u, t, soc_dma_write_start(e, irq), StartIntc(e, irq, ic),
                  IF e.busy THEN Stall(Acc(Acc(Acc(Acc(Acc(p))))))
                  ELSE Acc(Acc(Acc(Acc(Acc(p))))), m, r)
    BY <1>6, WriteStart
  <2> QED BY <2>1, <2>2, <2>3
<1>9. validate(Platform, "BUSY" \in stat, src, dst, len) = "OK"
        <=> (~d.busy /\ StartOK(src, dst, len))
  <2>1. CASE d.busy
    BY <1>7, <2>1 DEF validate
  <2>2. CASE ~d.busy
    <3>1. ("BUSY" \in stat) = FALSE
      BY <1>7, <2>2
    <3>2. validate(Platform, FALSE, src, dst, len)
            = soc_dma_start_code(Platform, src, dst, len)
      BY ValidationAgrees, SocClientAssumption
    <3>3. validate(Platform, "BUSY" \in stat, src, dst, len)
            = validate(Platform, FALSE, src, dst, len)
      BY <3>1
    <3> QED BY <2>2, <3>2, <3>3 DEF StartOK
  <2> QED BY <2>1, <2>2
<1> HIDE DEF b, b1, b2, b3, b4, b5
<1>10. dma_start(b, src, dst, len, irq)
         = IF validate(Platform, "BUSY" \in stat, src, dst, len) # "OK"
           THEN b1 ELSE hal_write_reg(b4, "DMA", "CTRL", go)
  <2> DEFINE g == hal_read_reg(b, "DMA", "STATUS")
  <2>1. g.hw = b1 /\ g.out = stat
    BY <1>1 DEF OK
  <2> HIDE DEF g
  <2>2. dma_start(b, src, dst, len, irq)
          = IF validate(Platform, "BUSY" \in g.out, src, dst, len) # "OK"
            THEN g.hw
            ELSE hal_write_reg(
                   hal_write_reg(
                     hal_write_reg(
                       hal_write_reg(g.hw, "DMA", "SRC", src),
                       "DMA", "DST", dst), "DMA", "LEN", len),
                   "DMA", "CTRL", go)
    BY DEF dma_start, g, go
  <2> QED BY <1>2, <1>3, <1>4, <2>1, <2>2
<1>11. dma_start(b, src, dst, len, irq)
         = IF d.busy \/ ~StartOK(src, dst, len) THEN b1 ELSE b5
  BY <1>8, <1>9, <1>10
<1> HIDE DEF e
<1> QED BY <1>5, <1>11 DEF b, b1, b5

-----------------------------------------------------------------------------
(* The hardware is well-formed: its types, streams within their buffers,   *)
(* and an engine that is busy without a flag, on a transfer that the hook  *)
(* can poll to its end, and whose CTRL does not hold START.                *)

UartOK(u) ==
  /\ u \in UartType
  /\ Len(u.tx_fifo) <= SOC_UART_DMA_FIFO_SIZE
  /\ Len(u.rx_fifo) <= SOC_UART_DMA_FIFO_SIZE

Lengths == {0} \cup {x[3] : x \in Transfers}

EngineOK(d) ==
  /\ d \in DmaType
  /\ d.length \in Lengths
  /\ "START" \notin d.ctrl
  /\ d.busy => /\ ~d.done /\ ~d.error
               /\ d.remaining >= 1 /\ d.remaining <= MaxPolls

HwOK ==
  /\ UartOK(uart)
  /\ timer \in T!TimerType
  /\ EngineOK(dma)
  /\ intc \in IntcType
  /\ perf \in PerfType
  /\ sram \in SramType

(* The counters. *)
LEMMA CountFacts ==
  ASSUME NEW p \in PerfType, NEW c \in PerfCounters, NEW n \in Nat
  PROVE  /\ Count(p, c, n) \in PerfType
         /\ Count(p, c, n).enabled = p.enabled
         /\ Count(p, c, n).CTRL = p.CTRL
         /\ \A k \in PerfCounters \ {c} : Count(p, c, n)[k] = p[k]
         /\ Count(p, c, n)[c] = IF p.enabled THEN Bump(p[c], n) ELSE p[c]
<1>1. \A x \in Counter : Bump(x, n) \in Counter
  BY CounterModAssumption DEF Bump, Counter
<1>2. p[c] \in Counter /\ p.enabled \in BOOLEAN /\ c \in DOMAIN p
  BY DEF PerfType, PerfCounters
<1> DEFINE x == Bump(p[c], n)
<1>3. x \in Counter
  BY <1>1, <1>2
<1>4. Count(p, c, n) = IF p.enabled THEN [p EXCEPT ![c] = x] ELSE p
  BY DEF Count
<1> HIDE DEF x
<1>5. /\ [p EXCEPT ![c] = x] \in PerfType
      /\ [p EXCEPT ![c] = x].enabled = p.enabled
      /\ [p EXCEPT ![c] = x].CTRL = p.CTRL
      /\ \A k \in PerfCounters \ {c} : [p EXCEPT ![c] = x][k] = p[k]
      /\ [p EXCEPT ![c] = x][c] = x
  BY <1>2, <1>3 DEF PerfType, PerfCounters
<1> QED BY <1>2, <1>4, <1>5 DEF x

(* The counters after one access. *)
LEMMA AccFacts ==
  ASSUME NEW p \in PerfType
  PROVE  /\ Acc(p) \in PerfType
         /\ Acc(p).enabled = p.enabled /\ Acc(p).CTRL = p.CTRL
         /\ Acc(p).STALLS = p.STALLS /\ Acc(p).IRQ_COUNT = p.IRQ_COUNT
         /\ Stall(p) \in PerfType
BY CountFacts DEF Acc, Stall, PerfCounters

(* A write of PERF.CTRL keeps the counters well-formed. *)
LEMMA PerfCtrlType ==
  ASSUME NEW p \in PerfType, NEW v \in SUBSET {"ENABLE", "RESET"}
  PROVE  soc_perf_write_ctrl(p, v) \in PerfType
<1> DEFINE on == "ENABLE" \in v
           q  == [p EXCEPT !.CTRL = v, !.enabled = on]
<1>1. on \in BOOLEAN
  OBVIOUS
<1> HIDE DEF on
<1>2. q \in PerfType
  BY <1>1 DEF PerfType
<1> HIDE DEF q
<1>3. soc_perf_reset_counters(q) \in PerfType
  <2>1. 0 \in Counter
    BY CounterModAssumption DEF Counter
  <2> QED BY <1>2, <2>1 DEF soc_perf_reset_counters, PerfType, PerfCounters
<1>4. soc_perf_write_ctrl(p, v)
        = IF "RESET" \in v THEN soc_perf_reset_counters(q) ELSE q
  BY DEF soc_perf_write_ctrl, q, on
<1> QED BY <1>2, <1>3, <1>4

(* The timer. *)
LEMMA TimerFacts ==
  ASSUME NEW t \in T!TimerType
  PROVE  /\ \A load \in Nat : TimerOn(T!soc_timer_write_load(t, load)) \in T!TimerType
         /\ TimerOff(t) \in T!TimerType
         /\ T!soc_timer_write_clear(t) \in T!TimerType
         /\ T!soc_timer_step(t) \in T!TimerType
<1> USE DEF T!TimerType
<1>1. ASSUME NEW load \in Nat
      PROVE  TimerOn(T!soc_timer_write_load(t, load)) \in T!TimerType
  BY DEF TimerOn, T!soc_timer_write_load, T!soc_timer_write_ctrl
<1>2. TimerOff(t) \in T!TimerType
  BY DEF TimerOff, T!soc_timer_write_ctrl
<1>3. T!soc_timer_write_clear(t) \in T!TimerType
  BY DEF T!soc_timer_write_clear
<1>4. T!soc_timer_step(t) \in T!TimerType
  <2>1. CASE ~T!TimerRuns(t)
    BY <2>1 DEF T!soc_timer_step
  <2>2. CASE T!TimerRuns(t) /\ ~T!TimerFires(t)
    <3>1. t.value \in Nat /\ t.value > 1
      BY <2>2 DEF T!TimerFires
    <3> QED BY <2>2, <3>1 DEF T!soc_timer_step
  <2>3. CASE T!TimerRuns(t) /\ T!TimerFires(t) /\ t.periodic
    <3>1. T!soc_timer_step(t) = [t EXCEPT !.fired = TRUE, !.value = t.load]
      BY <2>3 DEF T!soc_timer_step
    <3>2. t.load \in Nat
      OBVIOUS
    <3> QED BY <3>1, <3>2
  <2>4. CASE T!TimerRuns(t) /\ T!TimerFires(t) /\ ~t.periodic
    BY <2>4 DEF T!soc_timer_step
  <2> QED BY <2>1, <2>2, <2>3, <2>4
<1> QED BY <1>1, <1>2, <1>3, <1>4

(* The raise of the timer takes no line back. *)
LEMMA TimerRaisesFacts ==
  ASSUME NEW t \in T!TimerType, NEW ic \in IntcType
  PROVE  /\ T!TimerRaises(t, ic) \in IntcType
         /\ ic.pending \subseteq T!TimerRaises(t, ic).pending
BY DEF T!TimerRaises, T!soc_intc_raise, T!Lines, T!UART, T!TIMER, T!DMA,
       IntcType, Lines, UART, TIMER, DMA

(* The UART.  A stream that has reached its size takes no more. *)
LEMMA SaturatingFacts ==
  ASSUME NEW f \in Seq(Bytes), NEW b \in Seq(Bytes),
         Len(f) <= SOC_UART_DMA_FIFO_SIZE
  PROVE  /\ Saturating(f, b) \in Seq(Bytes)
         /\ Len(Saturating(f, b)) <= SOC_UART_DMA_FIFO_SIZE
<1> DEFINE n == SmallerOf(Len(b), SOC_UART_DMA_FIFO_SIZE - Len(f))
           c == SubSeq(b, 1, n)
<1>1. /\ n \in Nat /\ n <= Len(b) /\ n + Len(f) <= SOC_UART_DMA_FIFO_SIZE
      /\ Len(f) \in Nat /\ Len(b) \in Nat
  BY UartAssumption DEF SmallerOf
<1>2. \A i \in 1 .. n : b[i] \in Bytes
  BY <1>1
<1> HIDE DEF n
<1>3. c \in Seq(Bytes) /\ Len(c) = n
  BY <1>1, <1>2, SubSeqProperties
<1>4. Saturating(f, b) = f \o c
  BY DEF Saturating, n, c
<1> HIDE DEF c
<1>5. f \o c \in Seq(Bytes) /\ Len(f \o c) = Len(f) + Len(c)
  BY <1>3, ConcatProperties
<1> QED BY <1>1, <1>3, <1>4, <1>5

(* What is appended stays within the stream. *)
LEMMA AppendOK ==
  ASSUME NEW u, UartOK(u), NEW b \in Seq(Bytes)
  PROVE  /\ UartOK(soc_uart_dma_tx_append(u, b))
         /\ soc_uart_dma_tx_append(u, b).tx_fifo = Saturating(u.tx_fifo, b)
         /\ soc_uart_dma_tx_append(u, b).rx_fifo = Saturating(u.rx_fifo, b)
<1> DEFINE f == Saturating(u.tx_fifo, b)
           g == Saturating(u.rx_fifo, b)
<1>1. u \in UartType /\ u.tx_fifo \in Seq(Bytes) /\ u.rx_fifo \in Seq(Bytes)
  BY DEF UartOK, UartType
<1>2. /\ f \in Seq(Bytes) /\ Len(f) <= SOC_UART_DMA_FIFO_SIZE
      /\ g \in Seq(Bytes) /\ Len(g) <= SOC_UART_DMA_FIFO_SIZE
  BY <1>1, SaturatingFacts DEF UartOK
<1>3. soc_uart_dma_tx_append(u, b) = [u EXCEPT !.tx_fifo = f, !.rx_fifo = g]
  BY DEF soc_uart_dma_tx_append
<1> HIDE DEF f, g
<1>4. /\ [u EXCEPT !.tx_fifo = f, !.rx_fifo = g] \in UartType
      /\ [u EXCEPT !.tx_fifo = f, !.rx_fifo = g].tx_fifo = f
      /\ [u EXCEPT !.tx_fifo = f, !.rx_fifo = g].rx_fifo = g
  BY <1>1, <1>2 DEF UartType
<1> QED BY <1>2, <1>3, <1>4 DEF UartOK, f, g

(* What is drained leaves a stream of bytes. *)
LEMMA DrainOK ==
  ASSUME NEW u, UartOK(u), NEW len \in Nat
  PROVE  /\ UartOK(soc_uart_dma_rx_drain(u, len))
         /\ soc_uart_dma_rx_drain(u, len).tx_fifo = u.tx_fifo
<1> DEFINE f == u.rx_fifo
           k == SmallerOf(len, Len(f))
           g == SubSeq(f, k + 1, Len(f))
<1>1. /\ u \in UartType /\ f \in Seq(Bytes) /\ Len(f) \in Nat
      /\ Len(f) <= SOC_UART_DMA_FIFO_SIZE
  BY DEF UartOK, UartType
<1>2. k \in Nat /\ k <= Len(f)
  BY <1>1 DEF SmallerOf
<1>3. soc_uart_dma_rx_drain(u, len) = [u EXCEPT !.rx_fifo = g]
  BY DEF soc_uart_dma_rx_drain
<1> HIDE DEF f, k
<1>4. g \in Seq(Bytes) /\ Len(g) = Len(f) - k
  <2>1. \A i \in k + 1 .. Len(f) : f[i] \in Bytes
    BY <1>1, <1>2
  <2> QED BY <1>1, <1>2, <2>1, SubSeqProperties
<1>5. Len(g) <= SOC_UART_DMA_FIFO_SIZE
  BY <1>1, <1>2, <1>4, UartAssumption
<1> HIDE DEF g
<1>6. /\ [u EXCEPT !.rx_fifo = g] \in UartType
      /\ [u EXCEPT !.rx_fifo = g].tx_fifo = u.tx_fifo
      /\ [u EXCEPT !.rx_fifo = g].rx_fifo = g
  BY <1>1, <1>4 DEF UartType
<1> QED BY <1>3, <1>5, <1>6 DEF UartOK

(* The register accesses of the UART keep it well-formed. *)
LEMMA UartCalls ==
  ASSUME NEW u, UartOK(u), NEW on \in BOOLEAN
  PROVE  /\ UartOK(UartOn(u)) /\ UartOK(UartOff(u))
         /\ UartOK(soc_uart_read_rxdata(u))
         /\ \A b \in Bytes : UartOK(soc_uart_write_txdata(u, b, UartLatency))
         /\ UartOK([u EXCEPT !.stuck = on])
<1>1. /\ u \in UartType /\ Len(u.tx_fifo) <= SOC_UART_DMA_FIFO_SIZE
      /\ Len(u.rx_fifo) <= SOC_UART_DMA_FIFO_SIZE
  BY DEF UartOK
<1>2. ASSUME NEW v \in UartType, v.tx_fifo = u.tx_fifo, v.rx_fifo = u.rx_fifo
      PROVE  UartOK(v)
  BY <1>1, <1>2 DEF UartOK
<1> DEFINE Same(v) == v \in UartType /\ v.tx_fifo = u.tx_fifo /\ v.rx_fifo = u.rx_fifo
<1>3. Same(UartOn(u))
  BY <1>1 DEF UartOn, soc_uart_write_ctrl, UartType
<1>4. Same(UartOff(u))
  BY <1>1 DEF UartOff, soc_uart_write_ctrl, UartType
<1>5. Same(soc_uart_read_rxdata(u))
  BY <1>1 DEF soc_uart_read_rxdata, UartType
<1>6. ASSUME NEW b \in Bytes PROVE Same(soc_uart_write_txdata(u, b, UartLatency))
  <2> DEFINE n == IF UartLatency > 0 THEN AsInt32(UartLatency) ELSE 1
  <2>1. n \in Int
    BY BusAssumption, WidthAssumption DEF AsInt32, Uint32
  <2>2. soc_uart_write_txdata(u, b, UartLatency)
          = IF ~u.enabled THEN u ELSE [u EXCEPT !.txdata = b, !.busy = n]
    BY DEF soc_uart_write_txdata
  <2> HIDE DEF n
  <2>3. Same([u EXCEPT !.txdata = b, !.busy = n])
    BY <1>1, <2>1 DEF UartType
  <2> QED BY <1>1, <2>2, <2>3
<1>7. Same([u EXCEPT !.stuck = on])
  BY <1>1 DEF UartType
<1> QED BY <1>2, <1>3, <1>4, <1>5, <1>6, <1>7

(* A tick of the UART: the byte that it sends is appended to both streams. *)
Sending(u) == IF UartSends(u) THEN <<u.txdata>> ELSE <<>>

(* So does its tick. *)
LEMMA UartStepFacts ==
  ASSUME NEW u, UartOK(u)
  PROVE  /\ UartOK(soc_uart_step(u))
         /\ Sending(u) \in Seq(Bytes)
         /\ UartSends(u) =>
              /\ soc_uart_step(u).tx_fifo = Saturating(u.tx_fifo, Sending(u))
              /\ soc_uart_step(u).rx_fifo = Saturating(u.rx_fifo, Sending(u))
         /\ ~UartSends(u) =>
              /\ soc_uart_step(u).tx_fifo = u.tx_fifo
              /\ soc_uart_step(u).rx_fifo = u.rx_fifo
<1>1. /\ u \in UartType /\ u.txdata \in Bytes /\ u.busy \in Int
      /\ u.stuck \in BOOLEAN
  BY DEF UartOK, UartType
<1>2. <<u.txdata>> \in Seq(Bytes) /\ <<>> \in Seq(Bytes)
  BY <1>1
<1>3. CASE UartSends(u)
  <2> DEFINE v == [u EXCEPT !.busy = 0, !.rxdata = u.txdata, !.rx_valid = TRUE]
  <2>1. soc_uart_step(u) = soc_uart_dma_tx_append(v, <<u.txdata>>)
    BY <1>1, <1>3 DEF soc_uart_step, UartSends
  <2>2. v \in UartType /\ v.tx_fifo = u.tx_fifo /\ v.rx_fifo = u.rx_fifo
    <3> DEFINE zero == 0
    <3>1. zero \in Int
      OBVIOUS
    <3>2. v = [u EXCEPT !.busy = zero, !.rxdata = u.txdata, !.rx_valid = TRUE]
      OBVIOUS
    <3> HIDE DEF zero, v
    <3> QED BY <1>1, <3>1, <3>2 DEF UartType
  <2> HIDE DEF v
  <2>3. UartOK(v)
    BY <2>2 DEF UartOK
  <2> QED BY <1>2, <1>3, <2>1, <2>2, <2>3, AppendOK DEF Sending
<1>4. CASE ~UartSends(u) /\ (u.busy <= 0 \/ u.stuck)
  BY <1>2, <1>4 DEF soc_uart_step, Sending
<1>5. CASE ~UartSends(u) /\ ~(u.busy <= 0 \/ u.stuck)
  <2>1. soc_uart_step(u) = [u EXCEPT !.busy = @ - 1] /\ u.busy - 1 \in Int
    BY <1>1, <1>5 DEF soc_uart_step
  <2>2. /\ [u EXCEPT !.busy = @ - 1] \in UartType
        /\ [u EXCEPT !.busy = @ - 1].tx_fifo = u.tx_fifo
        /\ [u EXCEPT !.busy = @ - 1].rx_fifo = u.rx_fifo
    BY <1>1, <2>1 DEF UartType
  <2> QED BY <1>2, <1>5, <2>1, <2>2 DEF UartOK, Sending
<1> QED BY <1>3, <1>4, <1>5

(* The raise of the UART takes no line back. *)
LEMMA UartRaisesFacts ==
  ASSUME NEW u, NEW ic \in IntcType
  PROVE  /\ UartRaises(u, ic) \in IntcType
         /\ ic.pending \subseteq UartRaises(u, ic).pending
<1>1. UART \in Lines
  BY DEF Lines
<1> QED BY <1>1, RaiseFacts DEF UartRaises

(* The engine. *)
LEMMA LengthFacts ==
  ASSUME NEW n \in Lengths
  PROVE  /\ n \in Uint32 /\ n \in Nat
         /\ n # 0 => /\ transfer_ticks(n, LatencyPerWord, Burst) \in Int
                     /\ transfer_ticks(n, LatencyPerWord, Burst) >= 1
                     /\ transfer_ticks(n, LatencyPerWord, Burst) <= MaxPolls
<1>1. n \in Uint32 /\ n \in Nat
  BY SocClientAssumption, WidthAssumption DEF Lengths, Uint32
<1>2. ASSUME n # 0 PROVE transfer_ticks(n, LatencyPerWord, Burst) <= MaxPolls
  BY <1>2, SocBoundAssumption DEF Lengths
<1>3. LatencyPerWord \in Nat /\ Burst \in Nat \ {0}
  BY EngineAssumption
<1> QED BY <1>1, <1>2, <1>3, TicksAreInt

(* START keeps the engine well-formed: an accepted transfer takes no       *)
(* longer than the hook polls.                                             *)
LEMMA StartFacts ==
  ASSUME NEW d, EngineOK(d), NEW irq \in BOOLEAN
  PROVE  LET e == soc_dma_write_start(d, irq)
         IN  EngineOK(e) /\ (e.done => d.done)
<1> DEFINE code == soc_dma_start_code(Platform, d.src, d.dst, d.length)
           n    == transfer_ticks(d.length, LatencyPerWord, Burst)
           d1   == [Cleared(d) EXCEPT !.irq_enable_latched = irq]
           s    == soc_dma_start(d, irq)
           bits == IrqBit(irq)
<1>1. /\ d \in DmaType /\ d.length \in Lengths /\ "START" \notin d.ctrl
      /\ d.busy => ~d.done /\ ~d.error /\ d.remaining >= 1 /\ d.remaining <= MaxPolls
  BY DEF EngineOK
<1>2. code \in ErrCodes \cup {"OK"}
  BY StartCodeType
<1>3. code = "OK" => d.length # 0
  BY DEF soc_dma_start_code
<1>4. s = IF d.busy THEN d
          ELSE IF code # "OK" THEN soc_dma_fail(d1, code)
          ELSE [d1 EXCEPT !.busy = TRUE, !.remaining = n]
  BY DEF soc_dma_start
<1>5. code = "OK" => n \in Int /\ n >= 1 /\ n <= MaxPolls
  BY <1>1, <1>3, LengthFacts
<1>6. soc_dma_write_start(d, irq) = [s EXCEPT !.ctrl = bits]
  BY CtrlFacts DEF soc_dma_write_start
<1>8. bits \in SUBSET {"START", "IRQ_ENABLE"} /\ "START" \notin bits
  BY CtrlFacts
<1> HIDE DEF code, n, s, bits
<1>7. /\ s \in DmaType /\ s.length = d.length
      /\ s.busy => ~s.done /\ ~s.error /\ s.remaining >= 1 /\ s.remaining <= MaxPolls
      /\ s.done => d.done
  BY <1>1, <1>2, <1>4, <1>5 DEF soc_dma_fail, Cleared, DmaType
<1> HIDE DEF d1
<1> QED BY <1>1, <1>6, <1>7, <1>8 DEF EngineOK, DmaType

(* START takes no line back. *)
LEMMA StartIntcFacts ==
  ASSUME NEW d, NEW irq, NEW ic \in IntcType
  PROVE  /\ StartIntc(d, irq, ic) \in IntcType
         /\ ic.pending \subseteq StartIntc(d, irq, ic).pending
<1>1. DMA \in Lines
  BY DEF Lines
<1> QED BY <1>1, RaiseFacts DEF StartIntc, Raised

(* The other register writes of the engine keep it well-formed. *)
LEMMA EngineCalls ==
  ASSUME NEW d, EngineOK(d), NEW irq \in BOOLEAN
  PROVE  /\ EngineOK(Cleared(d)) /\ ~Cleared(d).done
         /\ EngineOK([d EXCEPT !.ctrl = IrqBit(irq)])
         /\ [d EXCEPT !.ctrl = IrqBit(irq)].done = d.done
         /\ EngineOK([d EXCEPT !.fault_stuck_busy = irq])
         /\ [d EXCEPT !.fault_stuck_busy = irq].done = d.done
         /\ EngineOK(soc_dma_fail(d, "ADDR")) /\ ~soc_dma_fail(d, "ADDR").done
<1>1. /\ d \in DmaType /\ d.length \in Lengths /\ "START" \notin d.ctrl
      /\ d.busy => ~d.done /\ ~d.error /\ d.remaining >= 1 /\ d.remaining <= MaxPolls
  BY DEF EngineOK
<1>2. EngineOK(Cleared(d)) /\ ~Cleared(d).done
  BY <1>1 DEF EngineOK, Cleared, DmaType, NoErr
<1>3. /\ EngineOK([d EXCEPT !.ctrl = IrqBit(irq)])
      /\ [d EXCEPT !.ctrl = IrqBit(irq)].done = d.done
  <2> DEFINE bits == IrqBit(irq)
  <2>1. bits \in SUBSET {"START", "IRQ_ENABLE"} /\ "START" \notin bits
    BY CtrlFacts
  <2> HIDE DEF bits
  <2>2. EngineOK([d EXCEPT !.ctrl = bits]) /\ [d EXCEPT !.ctrl = bits].done = d.done
    BY <1>1, <2>1 DEF EngineOK, DmaType
  <2> QED BY <2>2 DEF bits
<1>4. /\ EngineOK([d EXCEPT !.fault_stuck_busy = irq])
      /\ [d EXCEPT !.fault_stuck_busy = irq].done = d.done
  BY <1>1 DEF EngineOK, DmaType
<1>5. EngineOK(soc_dma_fail(d, "ADDR")) /\ ~soc_dma_fail(d, "ADDR").done
  BY <1>1 DEF EngineOK, soc_dma_fail, DmaType, ErrCodes
<1> QED BY <1>2, <1>3, <1>4, <1>5

(* The registers that dma_start programs belong to a transfer of a client. *)
LEMMA ProgrammedOK ==
  ASSUME NEW d, EngineOK(d), ~d.busy, NEW x \in Transfers
  PROVE  /\ EngineOK(Programmed(d, x[1], x[2], x[3]))
         /\ Programmed(d, x[1], x[2], x[3]).done = d.done
<1>1. /\ d \in DmaType /\ x[1] \in Uint32 /\ x[2] \in Uint32 /\ x[3] \in Uint32
      /\ x[3] \in Lengths
  BY SocClientAssumption DEF EngineOK, Lengths
<1> QED BY <1>1 DEF EngineOK, Programmed, DmaType

(* A tick of the engine, with the UART and the controller as the other     *)
(* peripherals leave them.  The payload of a transfer is made of bytes and *)
(* stays within memory, since both bridges check the range (soc.c).        *)
LEMMA PayloadFacts ==
  ASSUME HwOK, NEW u, UartOK(u), ReaderOK(dma)
  PROVE  /\ soc_dma_reader_bridge(dma, u, sram) \in Seq(Bytes)
         /\ Len(soc_dma_reader_bridge(dma, u, sram)) = dma.length
<1> DEFINE n == dma.length
           z == SramRegion.size
<1>1. /\ n \in Nat /\ dma.src \in Nat /\ sram \in [0 .. z - 1 -> Bytes]
      /\ 0 \in Bytes /\ z \in Nat /\ SramRegion.base \in Nat
  <2>1. dma \in DmaType /\ sram \in SramType
    BY DEF HwOK, EngineOK
  <2>2. z \in Nat /\ SramRegion.base \in Nat
    BY SramFacts
  <2> QED BY <2>1, <2>2, UartAssumption, WidthAssumption
          DEF DmaType, Uint32, SramType
<1>2. CASE dma.src = RXDATA
  <2>1. u.rx_fifo \in Seq(Bytes)
    BY DEF UartOK, UartType
  <2>2. soc_dma_reader_bridge(dma, u, sram)
          = [k \in 1 .. n |-> IF k <= Len(u.rx_fifo) THEN u.rx_fifo[k] ELSE 0]
    BY <1>2 DEF soc_dma_reader_bridge, RxDrained
  <2> HIDE DEF n
  <2>3. \A k \in 1 .. n :
          (IF k <= Len(u.rx_fifo) THEN u.rx_fifo[k] ELSE 0) \in Bytes
    BY <1>1, <2>1
  <2>4. /\ [k \in 1 .. n |-> IF k <= Len(u.rx_fifo) THEN u.rx_fifo[k] ELSE 0]
             \in Seq(Bytes)
        /\ Len([k \in 1 .. n |-> IF k <= Len(u.rx_fifo) THEN u.rx_fifo[k] ELSE 0])
             = n
    BY <1>1, <2>3
  <2> QED BY <2>2, <2>4 DEF n
<1>3. CASE dma.src # RXDATA
  <2> DEFINE off == dma.src - SramRegion.base
  <2>1. /\ off \in Nat /\ off + n <= z
    BY <1>1, <1>3 DEF ReaderOK, soc_mem_contains, memory_region_contains
  <2>2. soc_dma_reader_bridge(dma, u, sram)
          = [k \in 1 .. n |-> sram[off + k - 1]]
    BY <1>3 DEF soc_dma_reader_bridge, soc_mem_read_bytes
  <2> HIDE DEF n, off, z
  <2>3. \A k \in 1 .. n : sram[off + k - 1] \in Bytes
    BY <1>1, <2>1
  <2> QED BY <1>1, <2>2, <2>3 DEF n
<1> QED BY <1>2, <1>3

(* A store keeps SRAM a memory of bytes. *)
LEMMA StoreFacts ==
  ASSUME NEW mem \in SramType, NEW addr \in Nat, NEW b \in Seq(Bytes)
  PROVE  soc_mem_write_bytes(mem, addr, b) \in SramType
<1> DEFINE z   == SramRegion.size
           off == addr - SramRegion.base
<1>1. mem \in [0 .. z - 1 -> Bytes] /\ Len(b) \in Nat
  BY DEF SramType
<1>2. off \in Int /\ z \in Nat
  <2>1. z \in Nat /\ SramRegion.base \in Nat
    BY SramFacts
  <2> QED BY <2>1
<1>3. soc_mem_write_bytes(mem, addr, b)
        = [o \in 0 .. z - 1 |-> IF o \in off .. off + Len(b) - 1
                                THEN b[o - off + 1] ELSE mem[o]]
  BY <1>1 DEF soc_mem_write_bytes
<1> HIDE DEF z, off
<1>4. ASSUME NEW o \in 0 .. z - 1, o \in off .. off + Len(b) - 1
      PROVE  b[o - off + 1] \in Bytes
  <2>1. o - off + 1 \in 1 .. Len(b)
    BY <1>1, <1>2, <1>4
  <2> QED BY <2>1
<1> QED BY <1>1, <1>3, <1>4 DEF SramType, z

-----------------------------------------------------------------------------
(* One tick (soc.c:144-154). *)

(* The UART and the controller as the DMA finds them in a tick. *)
UartNow == soc_uart_step(uart)

IntcNow == T!TimerRaises(timer, UartRaises(uart, intc))

(* UART and controller as the engine finds them within a tick. *)
LEMMA NowFacts ==
  ASSUME HwOK
  PROVE  /\ UartOK(UartNow) /\ IntcNow \in IntcType
         /\ intc.pending \subseteq IntcNow.pending
<1>1. UartOK(uart) /\ intc \in IntcType /\ timer \in T!TimerType
  BY DEF HwOK
<1>2. UartOK(UartNow)
  BY <1>1, UartStepFacts DEF UartNow
<1> DEFINE ic == UartRaises(uart, intc)
<1>3. ic \in IntcType /\ intc.pending \subseteq ic.pending
  BY <1>1, UartRaisesFacts
<1> HIDE DEF ic
<1>4. /\ T!TimerRaises(timer, ic) \in IntcType
      /\ ic.pending \subseteq T!TimerRaises(timer, ic).pending
  BY <1>1, <1>3, TimerRaisesFacts
<1> QED BY <1>2, <1>3, <1>4 DEF IntcNow, ic

(* What the tick makes of the engine: nothing of an idle or a stuck one, a *)
(* count of one that has ticks left, and the end of the transfer else.     *)
Counts ==
  /\ dma.busy /\ ~dma.fault_stuck_busy /\ dma.remaining > 1
  /\ dma' = [dma EXCEPT !.remaining = @ - 1]

Ends ==
  /\ dma.busy /\ ~dma.fault_stuck_busy /\ dma.remaining = 1
  /\ ~dma'.busy
  /\ dma'.done \/ dma'.error

Rests == (~dma.busy \/ dma.fault_stuck_busy) /\ dma' = dma

(* The tick of the engine: it ends the transfer, counts, or rests. *)
LEMMA DmaTick ==
  ASSUME HwOK, soc_dma_step(UartNow, IntcNow)
  PROVE  /\ UartOK(uart') /\ intc' \in IntcType /\ sram' \in SramType
         /\ EngineOK(dma')
         /\ intc.pending \subseteq intc'.pending
         /\ Counts \/ Ends \/ Rests
         /\ dma.busy /\ dma'.done => soc_dma_step_done(UartNow, IntcNow)
<1>1. /\ EngineOK(dma) /\ dma \in DmaType /\ sram \in SramType
      /\ dma.length \in Lengths /\ dma.length \in Nat /\ "START" \notin dma.ctrl
      /\ dma.remaining \in Int /\ dma.busy \in BOOLEAN
      /\ dma.fault_stuck_busy \in BOOLEAN
      /\ dma.busy => /\ ~dma.done /\ ~dma.error
                     /\ dma.remaining >= 1 /\ dma.remaining <= MaxPolls
  BY LengthFacts DEF HwOK, EngineOK, DmaType
<1>2. /\ UartOK(UartNow) /\ IntcNow \in IntcType
      /\ intc.pending \subseteq IntcNow.pending
  BY NowFacts
<1>3. /\ Raised(dma, IntcNow) \in IntcType
      /\ intc.pending \subseteq Raised(dma, IntcNow).pending
  <2>1. DMA \in Lines
    BY DEF Lines
  <2> QED BY <1>2, <2>1, RaiseFacts DEF Raised
<1>4. LastTick(dma) => dma.busy /\ ~dma.fault_stuck_busy /\ dma.remaining = 1
  BY <1>1 DEF LastTick, Counting
<1>5. UartOK(UartAfterRead(dma, UartNow))
  BY <1>1, <1>2, DrainOK DEF UartAfterRead
<1>6. CASE soc_dma_step_idle(UartNow, IntcNow)
  <2>1. /\ dma' = IF Counting(dma) THEN [dma EXCEPT !.remaining = @ - 1] ELSE dma
        /\ uart' = UartNow /\ intc' = IntcNow /\ sram' = sram
        /\ Counting(dma) => dma.remaining > 1
    BY <1>1, <1>6 DEF soc_dma_step_idle, LastTick
  <2>2. CASE Counting(dma)
    <3>1. dma' = [dma EXCEPT !.remaining = @ - 1] /\ dma.remaining > 1
          /\ dma.busy /\ ~dma.fault_stuck_busy
      BY <2>1, <2>2 DEF Counting
    <3>2. EngineOK(dma') /\ dma'.done = dma.done
      BY <1>1, <3>1, SocAssumption DEF EngineOK, DmaType
    <3> QED BY <1>1, <1>2, <2>1, <3>1, <3>2 DEF Counts
  <2>3. CASE ~Counting(dma)
    BY <1>1, <1>2, <2>1, <2>3 DEF Rests, Counting
  <2> QED BY <2>2, <2>3
<1>7. CASE soc_dma_step_nomem(UartNow, IntcNow)
  BY <1>1, <1>4, <1>7, SocBoundAssumption DEF soc_dma_step_nomem
<1>8. CASE soc_dma_step_fault(UartNow, IntcNow)
  <2>1. /\ dma' = [soc_dma_fail(dma, "ADDR") EXCEPT !.remaining = @ - 1]
        /\ LastTick(dma) /\ intc' = Raised(dma, IntcNow) /\ sram' = sram
        /\ uart' = UartAfterRead(dma, UartNow) \/ uart' = UartNow
    BY <1>8 DEF soc_dma_step_fault
  <2>2. EngineOK(dma') /\ ~dma'.busy /\ dma'.error /\ ~dma'.done
    <3> DEFINE e == soc_dma_fail(dma, "ADDR")
    <3>1. /\ e \in DmaType /\ e.length = dma.length /\ e.ctrl = dma.ctrl
          /\ ~e.busy /\ e.error /\ ~e.done
      BY <1>1 DEF soc_dma_fail, DmaType, ErrCodes
    <3>2. dma' = [e EXCEPT !.remaining = @ - 1]
      BY <2>1
    <3> HIDE DEF e
    <3> QED BY <1>1, <3>1, <3>2 DEF EngineOK, DmaType
  <2> QED BY <1>1, <1>2, <1>3, <1>4, <1>5, <2>1, <2>2 DEF Ends
<1>9. CASE soc_dma_step_done(UartNow, IntcNow)
  <2> DEFINE payload == soc_dma_reader_bridge(dma, UartNow, sram)
             drained == UartAfterRead(dma, UartNow)
  <2>1. /\ dma' = [Completed(dma) EXCEPT !.remaining = @ - 1]
        /\ LastTick(dma) /\ intc' = Raised(dma, IntcNow) /\ ReaderOK(dma)
        /\ uart' = IF dma.dst = TXDATA
                   THEN soc_uart_dma_tx_append(drained, payload) ELSE drained
        /\ sram' = IF dma.dst = TXDATA THEN sram
                   ELSE soc_mem_write_bytes(sram, dma.dst, payload)
    BY <1>9 DEF soc_dma_step_done
  <2>2. payload \in Seq(Bytes)
    BY <1>2, <2>1, PayloadFacts
  <2>3. EngineOK(dma') /\ ~dma'.busy /\ dma'.done
    <3> DEFINE e == Completed(dma)
    <3>1. /\ e \in DmaType /\ e.length = dma.length /\ e.ctrl = dma.ctrl
          /\ ~e.busy /\ e.done
      BY <1>1 DEF Completed, DmaType
    <3>2. dma' = [e EXCEPT !.remaining = @ - 1]
      BY <2>1
    <3> HIDE DEF e
    <3> QED BY <1>1, <3>1, <3>2 DEF EngineOK, DmaType
  <2> HIDE DEF payload, drained
  <2>4. UartOK(uart')
    BY <1>5, <2>1, <2>2, AppendOK DEF drained
  <2>5. sram' \in SramType
    <3>1. dma.dst \in Nat
      BY <1>1, WidthAssumption DEF DmaType, Uint32
    <3> QED BY <1>1, <2>1, <2>2, <3>1, StoreFacts
  <2> QED BY <1>1, <1>3, <1>4, <1>9, <2>1, <2>3, <2>4, <2>5 DEF Ends
<1> QED BY <1>6, <1>7, <1>8, <1>9 DEF soc_dma_step

(* The tick of the whole SoC. *)
LEMMA StepFacts ==
  ASSUME HwOK, ticks \in Counter, NEW STATE p, p \in PerfType, soc_step(p)
  PROVE  /\ HwOK' /\ ticks' \in Counter
         /\ intc.pending \subseteq intc'.pending
         /\ Counts \/ Ends \/ Rests
         /\ dma.busy /\ dma'.done => soc_dma_step_done(UartNow, IntcNow)
<1>1. /\ ticks' = Bump(ticks, 1) /\ timer' = T!soc_timer_step(timer)
      /\ soc_dma_step(UartNow, IntcNow)
      /\ perf' = IF dma.busy /\ dma'.done
                 THEN Count(Count(p, "CYCLES", 1), "DMA_BYTES", dma.length)
                 ELSE Count(p, "CYCLES", 1)
  BY DEF soc_step, UartNow, IntcNow
<1>2. ticks' \in Counter
  BY <1>1, BumpIsCounter
<1>3. timer' \in T!TimerType
  BY <1>1, TimerFacts DEF HwOK
<1>4. perf' \in PerfType
  <2> DEFINE q == Count(p, "CYCLES", 1)
  <2>1. "CYCLES" \in PerfCounters /\ "DMA_BYTES" \in PerfCounters
    BY DEF PerfCounters
  <2>2. dma.length \in Nat
    BY LengthFacts DEF HwOK, EngineOK
  <2>3. q \in PerfType
    BY <2>1, CountFacts
  <2> HIDE DEF q
  <2>4. Count(q, "DMA_BYTES", dma.length) \in PerfType
    BY <2>1, <2>2, <2>3, CountFacts
  <2> QED BY <1>1, <2>3, <2>4 DEF q
<1>5. /\ UartOK(uart') /\ intc' \in IntcType /\ sram' \in SramType
      /\ EngineOK(dma') /\ intc.pending \subseteq intc'.pending
      /\ Counts \/ Ends \/ Rests
      /\ dma.busy /\ dma'.done => soc_dma_step_done(UartNow, IntcNow)
  BY <1>1, DmaTick
<1> QED BY <1>2, <1>3, <1>4, <1>5 DEF HwOK, UartOK, EngineOK

(* A poll of DMA.STATUS is one counted access. *)
LEMMA PollFacts ==
  /\ Poll = OK(Board(uart, timer, dma, intc, Acc(perf), sram, rom),
               soc_dma_status(dma))
  /\ Poll.hw.perf = Acc(perf)
  /\ Poll.out = soc_dma_status(dma)
<1>1. DmaStatusAt = Vlab("DMA", "STATUS")
  <2>1. (CHOOSE i \in DOMAIN Windows : Windows[i] = "DMA") = 3
    BY DEF Windows
  <2>2. VlabRegs["DMA"]["STATUS"] = 4
    BY DEF VlabRegs
  <2>3. 4 * WordBytes = WordBytes * 4
    BY WidthAssumption
  <2>4. Vlab("DMA", "STATUS") = Platform.map[3 + 2].base + WordBytes * 4
    BY <2>1, <2>2 DEF Vlab
  <2> QED BY <2>3, <2>4 DEF DmaStatusAt
<1>2. Poll = hal_read_reg(Hw, "DMA", "STATUS")
  BY <1>1 DEF Poll, hal_read_reg
<1>3. Poll = OK(Board(uart, timer, dma, intc, Acc(perf), sram, rom),
                soc_dma_status(dma))
  BY <1>2, HwIsBoard, ReadDmaStatus
<1> DEFINE b == Board(uart, timer, dma, intc, Acc(perf), sram, rom)
           v == soc_dma_status(dma)
<1>4. b.perf = Acc(perf)
  BY BoardParts
<1>5. Poll = OK(b, v)
  BY <1>3
<1> HIDE DEF b, v
<1>6. Poll.hw = b /\ Poll.out = v
  BY <1>5 DEF OK
<1> QED BY <1>4, <1>5, <1>6 DEF b, v

(* The bits that the polling loops read. *)
LEMMA StatusBits ==
  ASSUME HwOK
  PROVE  /\ "BUSY" \in Poll.out <=> dma.busy
         /\ "DONE" \in Poll.out <=> dma.done
         /\ "ERROR" \in Poll.out <=> dma.error
         /\ pred_done <=> dma.done \/ dma.error
         /\ Driven <=> run.n = run.max \/ dma.done \/ dma.error \/ ~dma.busy
<1>1. /\ "BUSY" \in soc_dma_status(dma) <=> dma.busy
      /\ "DONE" \in soc_dma_status(dma) <=> dma.done
      /\ "ERROR" \in soc_dma_status(dma) <=> dma.error
  BY DEF soc_dma_status, Bits
<1>2. Poll.out = soc_dma_status(dma)
  BY PollFacts
<1> QED BY <1>1, <1>2 DEF pred_done, Driven

(* The DMA's FIFO addresses are those of the UART's data registers. *)
LEMMA TxdataAt ==
  TXDATA = Vlab("UART", "TXDATA") /\ RXDATA = Vlab("UART", "RXDATA")
<1>1. (CHOOSE i \in DOMAIN Windows : Windows[i] = "UART") = 1
  BY DEF Windows
<1>2. VlabRegs["UART"]["TXDATA"] = 0 /\ VlabRegs["UART"]["RXDATA"] = 1
  BY DEF VlabRegs
<1>3. /\ Vlab("UART", "TXDATA") = Platform.map[1 + 2].base + WordBytes * 0
      /\ Vlab("UART", "RXDATA") = Platform.map[1 + 2].base + WordBytes * 1
  BY <1>1, <1>2 DEF Vlab
<1>4. Platform.map[3].base \in Nat
  <2>1. 3 \in 1 .. 7
    OBVIOUS
  <2> QED BY <2>1, RegionFacts
<1> QED BY <1>3, <1>4, BusAssumption, WidthAssumption

-----------------------------------------------------------------------------
(* The calls.  A call leaves well-formed hardware; it sets no DONE, and    *)
(* what it takes from PENDING is the acknowledged line.                    *)

Taken(l, ic, p) ==
  /\ l = soc_intc_highest(intc)
  /\ l \in ic.active
  /\ p.IRQ_COUNT = Count(perf, "IRQ_COUNT", 1).IRQ_COUNT

Good(s) ==
  /\ UartOK(s.uart) /\ s.timer \in T!TimerType /\ EngineOK(s.dma)
  /\ s.intc \in IntcType /\ s.perf \in PerfType /\ s.sram \in SramType
  /\ s.dma.done => dma.done
  /\ \A l \in intc.pending \ s.intc.pending : Taken(l, s.intc, s.perf)

(* A board is good if its parts are. *)
LEMMA GoodBoard ==
  ASSUME NEW u, NEW t, NEW d, NEW ic, NEW p, NEW m, NEW r,
         UartOK(u), t \in T!TimerType, EngineOK(d),
         ic \in IntcType, p \in PerfType, m \in SramType,
         d.done => dma.done,
         \A l \in intc.pending \ ic.pending : Taken(l, ic, p)
  PROVE  Good(Board(u, t, d, ic, p, m, r))
<1> DEFINE b == Board(u, t, d, ic, p, m, r)
<1>1. /\ b.uart = u /\ b.timer = t /\ b.dma = d /\ b.intc = ic
      /\ b.perf = p /\ b.sram = m
  BY BoardParts
<1> HIDE DEF b
<1>2. Good(b)
  BY <1>1 DEF Good
<1> QED BY <1>2 DEF b

(* The same for a call that leaves the controller alone. *)
LEMMA GoodQuiet ==
  ASSUME NEW u, NEW t, NEW d, NEW p, NEW m, NEW r, HwOK,
         UartOK(u), t \in T!TimerType, EngineOK(d),
         p \in PerfType, m \in SramType, d.done => dma.done
  PROVE  Good(Board(u, t, d, intc, p, m, r))
<1>1. intc \in IntcType
  BY DEF HwOK
<1>2. \A l \in intc.pending \ intc.pending : Taken(l, intc, p)
  OBVIOUS
<1> QED BY <1>1, <1>2, GoodBoard

(* The parts of well-formed hardware. *)
LEMMA HwFacts ==
  ASSUME HwOK
  PROVE  /\ UartOK(uart) /\ uart \in UartType /\ timer \in T!TimerType
         /\ EngineOK(dma) /\ dma \in DmaType /\ intc \in IntcType
         /\ perf \in PerfType /\ sram \in SramType
         /\ Acc(perf) \in PerfType /\ Acc(Acc(perf)) \in PerfType
         /\ Stall(perf) \in PerfType /\ Stall(Acc(perf)) \in PerfType
         /\ Acc(Acc(Acc(perf))) \in PerfType
         /\ Acc(Acc(Acc(Acc(Acc(perf))))) \in PerfType
<1>1. perf \in PerfType
  BY DEF HwOK
<1>2. \A p \in PerfType : Acc(p) \in PerfType /\ Stall(p) \in PerfType
  BY AccFacts
<1> QED BY <1>1, <1>2 DEF HwOK, UartOK, EngineOK

(* The calls of the timer driver. *)
LEMMA GoodTimerCalls ==
  ASSUME HwOK
  PROVE  /\ \A load \in TimerLoads : Good(OneShot(Hw, load))
         /\ Good(timer_stop(Hw))
         /\ Good(timer_clear(Hw))
<1>1. ASSUME NEW load \in TimerLoads
      PROVE  Good(OneShot(Hw, load))
  <2>1. load \in Nat
    BY SocClientAssumption
  <2>2. CASE load = 0
    <3>1. OneShot(Hw, load)
            = Board(uart, timer, dma, intc, perf, sram, rom)
      BY <2>2, HwIsBoard DEF OneShot, timer_start
    <3> QED BY <3>1, HwFacts, GoodQuiet
  <2>3. CASE load # 0
    <3> DEFINE t == TimerOn(T!soc_timer_write_load(timer, load))
    <3>1. OneShot(Hw, load)
            = Board(uart, t, dma, intc, Acc(Acc(perf)), sram, rom)
      BY <2>3, HwIsBoard, CallTimerStart
    <3>2. t \in T!TimerType
      BY <2>1, HwFacts, TimerFacts
    <3> HIDE DEF t
    <3> QED BY <3>1, <3>2, HwFacts, GoodQuiet
  <2> QED BY <2>2, <2>3
<1>2. Good(timer_stop(Hw))
  <2>1. timer_stop(Hw)
          = Board(uart, TimerOff(timer), dma, intc, Acc(perf), sram, rom)
    BY HwIsBoard, WriteTimerOff DEF timer_stop
  <2>2. TimerOff(timer) \in T!TimerType
    BY HwFacts, TimerFacts
  <2> QED BY <2>1, <2>2, HwFacts, GoodQuiet
<1>3. Good(timer_clear(Hw))
  <2> DEFINE t == T!soc_timer_write_clear(timer)
  <2>1. timer_clear(Hw)
          = Board(uart, t, dma, intc, Acc(perf), sram, rom)
    BY HwIsBoard, WriteTimerClear DEF timer_clear
  <2>2. t \in T!TimerType
    BY HwFacts, TimerFacts
  <2> HIDE DEF t
  <2> QED BY <2>1, <2>2, HwFacts, GoodQuiet
<1> QED BY <1>1, <1>2, <1>3

(* The calls of the UART driver. *)
LEMMA GoodUartCalls ==
  ASSUME HwOK
  PROVE  /\ \A b \in Bytes : Good(uart_write_byte(Hw, b))
         /\ Good(uart_read_byte(Hw))
         /\ \A b \in Bytes : Good(soc_write(Hw, TXDATA, b).hw)
         /\ Good(hal_modify_reg(Hw, "UART", "CTRL", {"ENABLE"}, {}))
         /\ Good(StickUart(Hw, TRUE))
<1>1. /\ UartOK(UartOff(uart)) /\ UartOK(soc_uart_read_rxdata(uart))
      /\ \A b \in Bytes : UartOK(soc_uart_write_txdata(uart, b, UartLatency))
  BY HwFacts, UartCalls
<1> DEFINE q == Count(Acc(Acc(perf)), "MEM_ACC", TxPolls - 1)
           On(b) == soc_uart_write_txdata(uart, b, UartLatency)
<1>2. q \in PerfType
  <2>1. TxPolls - 1 \in Nat /\ "MEM_ACC" \in PerfCounters
    BY SocAssumption DEF PerfCounters
  <2> QED BY <2>1, HwFacts, CountFacts
<1>3. ASSUME NEW b \in Bytes PROVE Good(uart_write_byte(Hw, b))
  <2>1. uart_write_byte(Hw, b)
          = IF ~uart.enabled THEN Board(uart, timer, dma, intc, Acc(perf), sram, rom)
            ELSE IF ~(uart.busy > 0)
            THEN Board(On(b), timer, dma, intc, Acc(Acc(Acc(perf))), sram, rom)
            ELSE Board(uart, timer, dma, intc, q, sram, rom)
    BY HwIsBoard, HwFacts, CallUartWrite
  <2>2. UartOK(On(b))
    BY <1>1
  <2> HIDE DEF On, q
  <2>3. /\ Good(Board(uart, timer, dma, intc, Acc(perf), sram, rom))
        /\ Good(Board(On(b), timer, dma, intc, Acc(Acc(Acc(perf))), sram, rom))
        /\ Good(Board(uart, timer, dma, intc, q, sram, rom))
    BY <1>2, <2>2, HwFacts, GoodQuiet
  <2> QED BY <2>1, <2>3
<1>4. Good(uart_read_byte(Hw))
  <2> DEFINE u == soc_uart_read_rxdata(uart)
  <2>1. uart_read_byte(Hw)
          = IF uart.rx_valid THEN Board(u, timer, dma, intc, Acc(Acc(perf)), sram, rom)
            ELSE Board(uart, timer, dma, intc, Acc(perf), sram, rom)
    BY HwIsBoard, HwFacts, CallUartRead
  <2>2. UartOK(u)
    BY <1>1
  <2> HIDE DEF u
  <2>3. /\ Good(Board(u, timer, dma, intc, Acc(Acc(perf)), sram, rom))
        /\ Good(Board(uart, timer, dma, intc, Acc(perf), sram, rom))
    BY <2>2, HwFacts, GoodQuiet
  <2> QED BY <2>1, <2>3
<1>5. ASSUME NEW b \in Bytes PROVE Good(soc_write(Hw, TXDATA, b).hw)
  <2>1. TXDATA = Vlab("UART", "TXDATA")
    BY TxdataAt
  <2>2. soc_write(Hw, TXDATA, b).hw
          = IF uart.enabled
            THEN Board(On(b), timer, dma, intc, Acc(perf), sram, rom)
            ELSE Board(uart, timer, dma, intc, Stall(Acc(perf)), sram, rom)
    BY <2>1, HwIsBoard, TxEquation DEF hal_write_reg
  <2>3. UartOK(On(b))
    BY <1>1
  <2> HIDE DEF On
  <2>4. /\ Good(Board(On(b), timer, dma, intc, Acc(perf), sram, rom))
        /\ Good(Board(uart, timer, dma, intc, Stall(Acc(perf)), sram, rom))
    BY <2>3, HwFacts, GoodQuiet
  <2> QED BY <2>2, <2>4
<1>6. Good(hal_modify_reg(Hw, "UART", "CTRL", {"ENABLE"}, {}))
  <2>1. hal_modify_reg(Hw, "UART", "CTRL", {"ENABLE"}, {})
          = Board(UartOff(uart), timer, dma, intc, Acc(Acc(perf)), sram, rom)
    BY HwIsBoard, ModifyUart
  <2> QED BY <1>1, <2>1, HwFacts, GoodQuiet
<1>7. Good(StickUart(Hw, TRUE))
  <2> DEFINE on == TRUE
             u  == [uart EXCEPT !.stuck = on]
  <2>1. on \in BOOLEAN
    OBVIOUS
  <2> HIDE DEF on
  <2>2. StickUart(Hw, on) = Board(u, timer, dma, intc, perf, sram, rom)
    BY DEF StickUart, Hw, Board
  <2>3. UartOK(u)
    BY <2>1, HwFacts, UartCalls
  <2> HIDE DEF u
  <2>4. Good(StickUart(Hw, on))
    BY <2>2, <2>3, HwFacts, GoodQuiet
  <2> QED BY <2>4 DEF on
<1> QED BY <1>3, <1>4, <1>5, <1>6, <1>7

(* An acknowledge takes the line it returns and counts it. *)
LEMMA AckTaken ==
  ASSUME HwOK
  PROVE  LET q == IF soc_intc_highest(intc) = IRQ_NONE THEN Acc(perf)
                  ELSE Count(Acc(perf), "IRQ_COUNT", 1)
         IN  /\ soc_intc_ack(intc) \in IntcType /\ q \in PerfType
             /\ \A l \in intc.pending \ soc_intc_ack(intc).pending :
                  Taken(l, soc_intc_ack(intc), q)
<1> DEFINE h == soc_intc_highest(intc)
           k == soc_intc_ack(intc)
           c == Count(Acc(perf), "IRQ_COUNT", 1)
<1>1. /\ k \in IntcType /\ intc.pending \in SUBSET Lines
      /\ h = IRQ_NONE => k = intc
      /\ h # IRQ_NONE => /\ h \in Lines /\ k.pending = intc.pending \ {h}
                         /\ k.active = intc.active \cup {h}
  BY HwFacts, AckFacts DEF IntcType
<1>2. "IRQ_COUNT" \in PerfCounters /\ 1 \in Nat
  BY DEF PerfCounters
<1>3. /\ Acc(perf) \in PerfType /\ Acc(perf).IRQ_COUNT = perf.IRQ_COUNT
      /\ Acc(perf).enabled = perf.enabled
  BY HwFacts, AccFacts
<1>4. c \in PerfType /\ c.IRQ_COUNT = Count(perf, "IRQ_COUNT", 1).IRQ_COUNT
  BY <1>2, <1>3, HwFacts, CountFacts
<1> HIDE DEF h, k, c
<1>5. h = IRQ_NONE => intc.pending \ k.pending = {}
  BY <1>1
<1>6. ASSUME h # IRQ_NONE, NEW l \in intc.pending \ k.pending
      PROVE  Taken(l, k, c)
  BY <1>1, <1>4, <1>6 DEF Taken, h
<1> QED BY <1>1, <1>3, <1>4, <1>5, <1>6 DEF h, k, c

(* The calls of the interrupt controller. *)
LEMMA GoodIntcCalls ==
  ASSUME HwOK
  PROVE  /\ \A mask : Good(intc_enable(Hw, mask))
         /\ Good(intc_ack(Hw))
         /\ \A l : Good(intc_clear(Hw, l))
         /\ \A l \in Lines : Good(vlab_test_raise_irq(Hw, l))
<1>1. ASSUME NEW ic \in IntcType, NEW p \in PerfType,
             intc.pending \subseteq ic.pending
      PROVE  Good(Board(uart, timer, dma, ic, p, sram, rom))
  BY <1>1, HwFacts, GoodBoard
<1>2. ASSUME NEW mask PROVE Good(intc_enable(Hw, mask))
  <2> DEFINE k == soc_intc_write_enable(intc, mask)
  <2>1. intc_enable(Hw, mask) = Board(uart, timer, dma, k, Acc(perf), sram, rom)
    BY HwIsBoard, WriteEnable DEF intc_enable
  <2>2. k \in IntcType /\ intc.pending \subseteq k.pending
    BY HwFacts, EnableFacts
  <2> HIDE DEF k
  <2> QED BY <1>1, <2>1, <2>2, HwFacts
<1>3. Good(intc_ack(Hw))
  <2> DEFINE k == soc_intc_ack(intc)
             q == IF soc_intc_highest(intc) = IRQ_NONE THEN Acc(perf)
                  ELSE Count(Acc(perf), "IRQ_COUNT", 1)
  <2>1. intc_ack(Hw) = Board(uart, timer, dma, k, q, sram, rom)
    BY HwIsBoard, CallIntcAck
  <2>2. /\ k \in IntcType /\ q \in PerfType
        /\ \A l \in intc.pending \ k.pending : Taken(l, k, q)
    BY AckTaken
  <2> HIDE DEF k, q
  <2> QED BY <2>1, <2>2, HwFacts, GoodBoard
<1>4. ASSUME NEW l PROVE Good(intc_clear(Hw, l))
  <2> DEFINE k == soc_intc_write_clear(intc, l)
  <2>1. intc_clear(Hw, l) = Board(uart, timer, dma, k, Acc(perf), sram, rom)
    BY HwIsBoard, WriteClear DEF intc_clear
  <2>2. k \in IntcType /\ intc.pending \subseteq k.pending
    BY HwFacts, ClearFacts
  <2> HIDE DEF k
  <2> QED BY <1>1, <2>1, <2>2, HwFacts
<1>5. ASSUME NEW l \in Lines PROVE Good(vlab_test_raise_irq(Hw, l))
  <2> DEFINE k == soc_intc_raise(intc, l)
  <2>1. vlab_test_raise_irq(Hw, l) = Board(uart, timer, dma, k, perf, sram, rom)
    BY DEF vlab_test_raise_irq, Hw, Board
  <2>2. k \in IntcType /\ intc.pending \subseteq k.pending
    BY HwFacts, RaiseFacts
  <2> HIDE DEF k
  <2> QED BY <1>1, <2>1, <2>2, HwFacts
<1> QED BY <1>2, <1>3, <1>4, <1>5

(* Bring-up and the counters. *)
LEMMA GoodPerfCalls ==
  ASSUME HwOK
  PROVE  /\ Good(hal_modify_reg(Hw, "PERF", "CTRL", {"RESET"}, {"RESET"}))
         /\ Good(platform_init(Hw))
<1>1. Good(hal_modify_reg(Hw, "PERF", "CTRL", {"RESET"}, {"RESET"}))
  <2> DEFINE c == Acc(perf)["CTRL"]
             v == (c \ {"RESET"}) \cup ({"RESET"} \cap {"RESET"})
             q == soc_perf_write_ctrl(Acc(Acc(perf)), v)
  <2>1. hal_modify_reg(Hw, "PERF", "CTRL", {"RESET"}, {"RESET"})
          = Board(uart, timer, dma, intc, q, sram, rom)
    BY HwIsBoard, ModifyPerf
  <2>2. v \in SUBSET {"ENABLE", "RESET"}
    <3>1. c \in SUBSET {"ENABLE", "RESET"}
      BY HwFacts DEF PerfType
    <3> HIDE DEF c
    <3> QED BY <3>1
  <2> HIDE DEF v
  <2>3. q \in PerfType
    BY <2>2, HwFacts, PerfCtrlType
  <2> HIDE DEF q
  <2> QED BY <2>1, <2>3, HwFacts, GoodQuiet
<1>2. Good(platform_init(Hw))
  <2> DEFINE k  == soc_intc_write_enable(intc, {})
             q2 == soc_perf_write_ctrl(Acc(Acc(perf)), {"RESET"})
             q3 == soc_perf_write_ctrl(Acc(q2), {"ENABLE"})
             q  == Acc(Acc(q3))
  <2>1. platform_init(Hw) = Board(UartOn(uart), timer, dma, k, q, sram, rom)
    BY HwIsBoard, CallPlatformInit
  <2>2. q2 \in PerfType
    BY HwFacts, PerfCtrlType
  <2> HIDE DEF q2
  <2>3. q3 \in PerfType
    BY <2>2, AccFacts, PerfCtrlType
  <2> HIDE DEF q3
  <2>4. q \in PerfType
    BY <2>3, AccFacts
  <2>5. k \in IntcType /\ k.pending = intc.pending
    BY HwFacts, EnableFacts
  <2>6. UartOK(UartOn(uart))
    <3>1. TRUE \in BOOLEAN
      OBVIOUS
    <3> QED BY <3>1, HwFacts, UartCalls
  <2> HIDE DEF k, q
  <2> QED BY <2>1, <2>4, <2>5, <2>6, HwFacts, GoodBoard
<1> QED BY <1>1, <1>2

(* The calls of the DMA driver, and the faults. *)
LEMMA GoodDmaCalls ==
  ASSUME HwOK
  PROVE  /\ \A x \in Transfers, irq \in BOOLEAN :
              Good(dma_start(Hw, x[1], x[2], x[3], irq))
         /\ Good(dma_clear(Hw))
         /\ Good(hal_modify_reg(Hw, "DMA", "CTRL", {"IRQ_ENABLE"}, {"IRQ_ENABLE"}))
         /\ Good(soc_write(Hw, Vlab("DMA", "CTRL"), {"START"}).hw)
         /\ Good(StickDma(Hw, TRUE))
<1>1. ASSUME NEW x \in Transfers, NEW irq \in BOOLEAN
      PROVE  Good(dma_start(Hw, x[1], x[2], x[3], irq))
  <2> DEFINE d == Programmed(dma, x[1], x[2], x[3])
             e == soc_dma_write_start(d, irq)
             q == Acc(Acc(Acc(Acc(Acc(perf)))))
  <2>1. dma_start(Hw, x[1], x[2], x[3], irq)
          = IF dma.busy \/ ~StartOK(x[1], x[2], x[3])
            THEN Board(uart, timer, dma, intc, Acc(perf), sram, rom)
            ELSE Board(uart, timer, e, intc, q, sram, rom)
    BY HwIsBoard, HwFacts, CallDmaStart
  <2>2. ~dma.busy => EngineOK(e) /\ (e.done => dma.done)
    <3>1. ~dma.busy => EngineOK(d) /\ d.done = dma.done
      BY HwFacts, ProgrammedOK
    <3> HIDE DEF d
    <3> QED BY <3>1, StartFacts
  <2>3. q \in PerfType
    BY HwFacts
  <2> HIDE DEF e, q
  <2>4. /\ Good(Board(uart, timer, dma, intc, Acc(perf), sram, rom))
        /\ ~dma.busy => Good(Board(uart, timer, e, intc, q, sram, rom))
    BY <2>2, <2>3, HwFacts, GoodQuiet
  <2> QED BY <2>1, <2>4
<1>2. Good(dma_clear(Hw))
  <2> DEFINE e == Cleared(dma)
  <2>1. dma_clear(Hw) = Board(uart, timer, e, intc, Acc(perf), sram, rom)
    BY HwIsBoard, WriteDmaClear DEF dma_clear
  <2>2. EngineOK(e) /\ ~e.done
    <3>1. TRUE \in BOOLEAN
      OBVIOUS
    <3> QED BY <3>1, HwFacts, EngineCalls
  <2> HIDE DEF e
  <2> QED BY <2>1, <2>2, HwFacts, GoodQuiet
<1>3. Good(hal_modify_reg(Hw, "DMA", "CTRL", {"IRQ_ENABLE"}, {"IRQ_ENABLE"}))
  <2> DEFINE irq == "IRQ_ENABLE" \in {"IRQ_ENABLE"}
             e   == [dma EXCEPT !.ctrl = IrqBit(irq)]
  <2>1. irq \in BOOLEAN /\ ("IRQ_ENABLE" \in {"IRQ_ENABLE"}) = irq
    OBVIOUS
  <2> HIDE DEF irq
  <2>2. hal_modify_reg(Hw, "DMA", "CTRL", {"IRQ_ENABLE"}, {"IRQ_ENABLE"})
          = Board(uart, timer, e, intc, Acc(Acc(perf)), sram, rom)
    <3>1. "START" \notin dma.ctrl
      BY DEF HwOK, EngineOK
    <3> QED BY <2>1, <3>1, HwIsBoard, ModifyDma
  <2>3. EngineOK(e) /\ e.done = dma.done
    BY <2>1, HwFacts, EngineCalls
  <2> HIDE DEF e
  <2> QED BY <2>2, <2>3, HwFacts, GoodQuiet
<1>4. Good(soc_write(Hw, Vlab("DMA", "CTRL"), {"START"}).hw)
  <2> DEFINE irq == "IRQ_ENABLE" \in {"START"}
             e   == soc_dma_write_start(dma, irq)
             k   == StartIntc(dma, irq, intc)
             q   == IF dma.busy THEN Stall(Acc(perf)) ELSE Acc(perf)
  <2>1. irq \in BOOLEAN /\ ("IRQ_ENABLE" \in {"START"}) = irq
    OBVIOUS
  <2> HIDE DEF irq
  <2>2. hal_write_reg(Hw, "DMA", "CTRL", {"START"})
          = Board(uart, timer, e, k, q, sram, rom)
    BY <2>1, HwIsBoard, WriteStart
  <2>3. EngineOK(e) /\ (e.done => dma.done)
    BY <2>1, HwFacts, StartFacts
  <2>4. k \in IntcType /\ intc.pending \subseteq k.pending
    BY HwFacts, StartIntcFacts
  <2>5. q \in PerfType
    BY HwFacts
  <2> HIDE DEF e, k, q
  <2>6. Good(Board(uart, timer, e, k, q, sram, rom))
    BY <2>3, <2>4, <2>5, HwFacts, GoodBoard
  <2> QED BY <2>2, <2>6 DEF hal_write_reg
<1>5. Good(StickDma(Hw, TRUE))
  <2> DEFINE on == TRUE
             e  == [dma EXCEPT !.fault_stuck_busy = on]
  <2>1. on \in BOOLEAN
    OBVIOUS
  <2> HIDE DEF on
  <2>2. StickDma(Hw, on) = Board(uart, timer, e, intc, perf, sram, rom)
    BY DEF StickDma, Hw, Board
  <2>3. EngineOK(e) /\ e.done = dma.done
    BY <2>1, HwFacts, EngineCalls
  <2> HIDE DEF e
  <2>4. Good(StickDma(Hw, on))
    BY <2>2, <2>3, HwFacts, GoodQuiet
  <2> QED BY <2>4 DEF on
<1> QED BY <1>1, <1>2, <1>3, <1>4, <1>5

(* An aligned address is decoded to a region that contains its word, or to *)
(* none.                                                                   *)
LEMMA RouteRange ==
  ASSUME NEW addr \in Uint32, addr % WordBytes = 0
  PROVE  \/ /\ Route[addr] = None
            /\ \A i \in 1 .. 7 :
                 ~memory_region_contains(Platform.map[i], addr, WordBytes)
         \/ /\ Route[addr] \in 0 .. 6
            /\ memory_region_contains(Platform.map[Route[addr] + 1], addr,
                                      WordBytes)
<1> DEFINE S == Containing(Platform.map, addr, WordBytes)
<1>1. /\ WellFormedMap(Platform.map) /\ WordAlignedMap(Platform.map)
      /\ Len(Platform.map) = 7 /\ addr \in Nat
  BY BusAssumption, WidthAssumption DEF Uint32
<1>2. S = {i \in 0 .. 6 : memory_region_contains(Platform.map[i + 1], addr, WordBytes)}
  BY <1>1 DEF Containing
<1>3. Route[addr] = First(S)
  BY <1>1, RouteFindsOwner DEF Route, find_region
<1> HIDE DEF S
<1>4. S \subseteq Nat
  BY <1>2
<1>5. CASE S = {}
  <2>1. Route[addr] = None
    BY <1>3, <1>4, <1>5, FirstFacts
  <2>2. ASSUME NEW i \in 1 .. 7
        PROVE  ~memory_region_contains(Platform.map[i], addr, WordBytes)
    <3>1. i - 1 \in 0 .. 6 /\ (i - 1) + 1 = i
      OBVIOUS
    <3> QED BY <1>2, <1>5, <3>1
  <2> QED BY <2>1, <2>2
<1>6. CASE S # {}
  <2>1. Route[addr] \in S
    BY <1>3, <1>4, <1>6, FirstFacts
  <2> QED BY <1>2, <2>1
<1> QED BY <1>5, <1>6

(* Reads at any address (soc.c:87-113). *)
HwAt(p) == Board(uart, timer, dma, intc, p, sram, rom)

(* The hardware with other counters. *)
LEMMA HwAtParts ==
  ASSUME NEW p
  PROVE  /\ HwAt(p).uart = uart /\ HwAt(p).timer = timer /\ HwAt(p).dma = dma
         /\ HwAt(p).intc = intc /\ HwAt(p).perf = p /\ HwAt(p).sram = sram
         /\ HwAt(p).rom = rom
         /\ Counted(HwAt(p)) = HwAt(Acc(p)) /\ Stalled(HwAt(p)) = HwAt(Stall(p))
         /\ Hw = HwAt(perf)
         /\ [HwAt(p) EXCEPT !.perf = perf] = Hw
<1>1. [HwAt(p) EXCEPT !.perf = perf] = Hw
  BY DEF HwAt, Hw, Board
<1>2. Hw = HwAt(perf)
  BY DEF HwAt, Hw, Board
<1>3. /\ HwAt(p).uart = uart /\ HwAt(p).timer = timer /\ HwAt(p).dma = dma
      /\ HwAt(p).intc = intc /\ HwAt(p).perf = p /\ HwAt(p).sram = sram
      /\ HwAt(p).rom = rom
  BY DEF HwAt, Board
<1>4. Counted(HwAt(p)) = HwAt(Acc(p)) /\ Stalled(HwAt(p)) = HwAt(Stall(p))
  BY DEF HwAt, Board, Counted, Stalled, Acc, Stall
<1> QED BY <1>1, <1>2, <1>3, <1>4

(* The reads of the bus, by what the decoder finds. *)
LEMMA ReadCases ==
  ASSUME NEW addr \in Uint32
  PROVE  /\ addr % WordBytes # 0 => soc_read(Hw, addr) = Fault(HwAt(Stall(perf)))
         /\ addr % WordBytes = 0 /\ Route[addr] = None
              => soc_read(Hw, addr) = Fault(HwAt(Stall(Acc(perf))))
         /\ addr % WordBytes = 0 /\ Route[addr] \in {0, 1}
              => \E v : soc_read(Hw, addr) = OK(HwAt(Acc(perf)), v)
         /\ addr % WordBytes = 0 /\ Route[addr] \in 2 .. 6
              => soc_read(Hw, addr)
                   = Answered(soc_periph_read(HwAt(Acc(perf)), WindowAt(addr),
                                              RegisterAt[addr]))
<1> DEFINE a == HwAt(Acc(perf))
           x == soc_periph_read(a, WindowAt(addr), RegisterAt[addr])
<1>1. Counted(Hw) = a /\ Stalled(Hw) = HwAt(Stall(perf))
      /\ Stalled(a) = HwAt(Stall(Acc(perf)))
  BY HwAtParts
<1> HIDE DEF a
<1>2. ASSUME NEW v PROVE Answered(OK(a, v)) = OK(a, v)
  BY DEF Answered, OK
<1>3. Answered(Fault(a)) = Fault(Stalled(a))
  BY DEF Answered, Fault
<1> HIDE DEF x
<1>4. soc_read(Hw, addr)
        = IF addr % WordBytes # 0 THEN Fault(Stalled(Hw))
          ELSE Answered(
            CASE Route[addr] = None -> Fault(a)
              [] Route[addr] = 0 -> OK(a, MemWord(a.rom, RomRegion, addr))
              [] Route[addr] = 1 -> OK(a, MemWord(a.sram, SramRegion, addr))
              [] OTHER -> x)
  BY <1>1 DEF soc_read, x
<1>5. None = -1
  BY DEF None
<1> QED BY <1>1, <1>2, <1>3, <1>4, <1>5 DEF a, x

(* The registers of a window, and what a read of one does. *)
LEMMA WindowIs ==
  ASSUME NEW addr, Route[addr] \in 2 .. 6
  PROVE  WindowAt(addr) \in {"UART", "TIMER", "DMA", "INTC", "PERF"}
<1>1. Route[addr] - 1 \in 1 .. 5
  OBVIOUS
<1>2. \A i \in 1 .. 5 : Windows[i] \in {"UART", "TIMER", "DMA", "INTC", "PERF"}
  BY DEF Windows
<1> QED BY <1>1, <1>2 DEF WindowAt

(* Only RXDATA and ACK change anything when read. *)
LEMMA PeriphRead ==
  ASSUME NEW w \in {"UART", "TIMER", "DMA", "INTC", "PERF"}, NEW reg, NEW p
  PROVE  LET a == HwAt(p)
             x == soc_periph_read(a, w, reg)
         IN  \/ x = Fault(a)
             \/ \E v : x = OK(a, v)
             \/ /\ w = "UART" /\ reg = "RXDATA"
                /\ x = OK(Board(soc_uart_read_rxdata(uart), timer, dma, intc,
                                p, sram, rom), uart.rxdata)
             \/ /\ w = "INTC" /\ reg = "ACK" /\ soc_intc_highest(intc) # IRQ_NONE
                /\ x = OK(Board(uart, timer, dma, soc_intc_ack(intc),
                                Count(p, "IRQ_COUNT", 1), sram, rom),
                          soc_intc_highest(intc))
<1> DEFINE a == HwAt(p)
           u == soc_uart_read_rxdata(uart)
           k == soc_intc_ack(intc)
           q == Count(p, "IRQ_COUNT", 1)
           d == Readable(a, w)
           x == soc_periph_read(a, w, reg)
           b == Board(u, timer, dma, intc, p, sram, rom)
           c == Board(uart, timer, dma, k, q, sram, rom)
<1>1. a.uart = uart /\ a.intc = intc /\ a.timer = timer /\ a.dma = dma /\ a.perf = p
  BY HwAtParts
<1>2. [a EXCEPT !.uart = soc_uart_read_rxdata(@)] = b
  <2> HIDE DEF u
  <2>1. [a EXCEPT !.uart = u] = b
    BY DEF HwAt, Board
  <2> HIDE DEF a, b
  <2> QED BY <1>1, <2>1 DEF u
<1>3. [a EXCEPT !.intc = soc_intc_ack(@), !.perf = Count(@, "IRQ_COUNT", 1)] = c
  <2> DEFINE a1 == Board(uart, timer, dma, k, p, sram, rom)
  <2> HIDE DEF k, q
  <2>1. [a EXCEPT !.intc = k] = a1
    BY DEF HwAt, Board
  <2>2. [a1 EXCEPT !.perf = q] = c
    BY DEF Board
  <2> HIDE DEF a, a1, c
  <2>3. [a EXCEPT !.intc = k, !.perf = q] = [[a EXCEPT !.intc = k] EXCEPT !.perf = q]
    OBVIOUS
  <2> QED BY <1>1, <2>1, <2>2, <2>3 DEF k, q
<1> HIDE DEF a, b, c, d
<1>4. x = IF reg \notin DOMAIN d THEN Fault(a)
          ELSE OK(CASE reg = "RXDATA" -> b
                    [] reg = "ACK" /\ d[reg] # IRQ_NONE -> c
                    [] OTHER -> a, d[reg])
  BY <1>2, <1>3 DEF soc_periph_read, d
<1>5. reg = "RXDATA" /\ reg \in DOMAIN d => w = "UART" /\ d[reg] = uart.rxdata
  BY <1>1 DEF d, Readable, soc_uart_read, soc_timer_read, soc_dma_read,
              soc_intc_read, soc_perf_read, PerfCounters
<1>6. reg = "ACK" /\ reg \in DOMAIN d
        => w = "INTC" /\ d[reg] = soc_intc_highest(intc)
  BY <1>1 DEF d, Readable, soc_uart_read, soc_timer_read, soc_dma_read,
              soc_intc_read, soc_perf_read, PerfCounters
<1> HIDE DEF x
<1>7. \/ x = Fault(a)
      \/ \E v : x = OK(a, v)
      \/ w = "UART" /\ reg = "RXDATA" /\ x = OK(b, uart.rxdata)
      \/ /\ w = "INTC" /\ reg = "ACK" /\ soc_intc_highest(intc) # IRQ_NONE
         /\ x = OK(c, soc_intc_highest(intc))
  <2>1. CASE reg \notin DOMAIN d
    BY <1>4, <2>1
  <2>2. CASE reg \in DOMAIN d /\ reg = "RXDATA"
    BY <1>4, <1>5, <2>2
  <2>3. CASE reg \in DOMAIN d /\ reg = "ACK" /\ d[reg] # IRQ_NONE
    BY <1>4, <1>6, <2>3
  <2>4. CASE reg \in DOMAIN d /\ reg # "RXDATA" /\ ~(reg = "ACK" /\ d[reg] # IRQ_NONE)
    <3>1. x = OK(a, d[reg])
      BY <1>4, <2>4
    <3> QED BY <3>1
  <2> QED BY <2>1, <2>2, <2>3, <2>4
<1> QED BY <1>7 DEF a, b, c, x

(* A read at any address is good. *)
LEMMA GoodRead ==
  ASSUME HwOK, NEW addr \in Uint32
  PROVE  Good(soc_read(Hw, addr).hw)
<1>1. /\ Good(HwAt(Stall(perf))) /\ Good(HwAt(Stall(Acc(perf))))
      /\ Good(HwAt(Acc(perf)))
  BY HwFacts, GoodQuiet DEF HwAt
<1>2. ASSUME NEW s, NEW v PROVE OK(s, v).hw = s /\ Fault(s).hw = s
  BY DEF OK, Fault
<1>3. CASE addr % WordBytes # 0
  BY <1>1, <1>2, <1>3, ReadCases
<1>4. CASE addr % WordBytes = 0 /\ Route[addr] = None
  BY <1>1, <1>2, <1>4, ReadCases
<1>5. CASE addr % WordBytes = 0 /\ Route[addr] \in {0, 1}
  BY <1>1, <1>2, <1>5, ReadCases
<1>6. CASE addr % WordBytes = 0 /\ Route[addr] \in 2 .. 6
  <2> DEFINE a == HwAt(Acc(perf))
             x == soc_periph_read(a, WindowAt(addr), RegisterAt[addr])
             u == soc_uart_read_rxdata(uart)
             k == soc_intc_ack(intc)
             q == Count(Acc(perf), "IRQ_COUNT", 1)
             b == Board(u, timer, dma, intc, Acc(perf), sram, rom)
             c == Board(uart, timer, dma, k, q, sram, rom)
  <2>1. soc_read(Hw, addr) = Answered(x)
    BY <1>6, ReadCases
  <2>2. WindowAt(addr) \in {"UART", "TIMER", "DMA", "INTC", "PERF"}
    BY <1>6, WindowIs
  <2>3. \/ x = Fault(a)
        \/ \E v : x = OK(a, v)
        \/ x = OK(b, uart.rxdata)
        \/ /\ soc_intc_highest(intc) # IRQ_NONE
           /\ x = OK(c, soc_intc_highest(intc))
    BY <2>2, PeriphRead
  <2>4. Good(b)
    <3>1. UartOK(u)
      <4>1. TRUE \in BOOLEAN
        OBVIOUS
      <4> QED BY <4>1, HwFacts, UartCalls
    <3> HIDE DEF u
    <3> QED BY <3>1, HwFacts, GoodQuiet
  <2>5. soc_intc_highest(intc) # IRQ_NONE => Good(c)
    <3>1. soc_intc_highest(intc) # IRQ_NONE =>
            /\ k \in IntcType /\ q \in PerfType
            /\ \A l \in intc.pending \ k.pending : Taken(l, k, q)
      BY AckTaken
    <3> HIDE DEF k, q
    <3> QED BY <3>1, HwFacts, GoodBoard
  <2>6. Stalled(a) = HwAt(Stall(Acc(perf)))
    BY HwAtParts
  <2>7. ASSUME NEW s, NEW v
        PROVE  Answered(OK(s, v)) = OK(s, v) /\ Answered(Fault(s)) = Fault(Stalled(s))
    BY DEF Answered, OK, Fault
  <2>8. Good(a)
    BY <1>1
  <2> HIDE DEF a, b, c, x
  <2> QED BY <1>1, <1>2, <2>1, <2>3, <2>4, <2>5, <2>6, <2>7, <2>8
<1> QED BY <1>3, <1>4, <1>5, <1>6, RouteRange DEF None

(* Stores past the drivers go to memory or nowhere. *)
LEMMA GoodStore ==
  ASSUME HwOK, NEW x \in Stores
  PROVE  Good(soc_write(Hw, x[1], x[2]).hw)
<1> DEFINE a    == HwAt(Acc(perf))
           addr == x[1]
           mem  == soc_mem_write_bytes(sram, addr, x[2])
           b    == Board(uart, timer, dma, intc, Acc(perf), mem, rom)
<1>1. addr \in Uint32 /\ addr \in Nat /\ Route[addr] < 2 /\ x[2] \in Seq(Bytes)
  BY SocClientAssumption, WidthAssumption DEF Uint32
<1>2. /\ Good(HwAt(Stall(perf))) /\ Good(HwAt(Stall(Acc(perf))))
  BY HwFacts, GoodQuiet DEF HwAt
<1>3. mem \in SramType
  BY <1>1, HwFacts, StoreFacts
<1>4. /\ Counted(Hw) = a /\ Stalled(Hw) = HwAt(Stall(perf))
      /\ Stalled(a) = HwAt(Stall(Acc(perf))) /\ a.sram = sram
  BY HwAtParts
<1>5. [a EXCEPT !.sram = mem] = b
  <2> HIDE DEF mem
  <2> QED BY DEF HwAt, Board
<1> HIDE DEF mem
<1>6. Good(b)
  BY <1>3, HwFacts, GoodQuiet
<1>7. ASSUME NEW s, NEW v
      PROVE  /\ OK(s, v).hw = s /\ Fault(s).hw = s
             /\ Answered(OK(s, v)) = OK(s, v)
             /\ Answered(Fault(s)) = Fault(Stalled(s))
  BY DEF OK, Fault, Answered
<1> HIDE DEF a, b, addr
<1>8. [a EXCEPT !.sram = soc_mem_write_bytes(@, addr, x[2])] = b
  BY <1>4, <1>5 DEF mem, addr
<1>9. CASE addr % WordBytes # 0
  <2>1. soc_write(Hw, addr, x[2]) = Fault(Stalled(Hw))
    BY <1>9 DEF soc_write
  <2> QED BY <1>2, <1>4, <1>7, <2>1 DEF addr
<1>10. CASE addr % WordBytes = 0 /\ Route[addr] \in {None, 0}
  <2>1. soc_write(Hw, addr, x[2]) = Answered(Fault(a))
    BY <1>4, <1>10 DEF soc_write, None
  <2> QED BY <1>2, <1>4, <1>7, <2>1 DEF addr
<1>11. CASE addr % WordBytes = 0 /\ Route[addr] = 1
  <2>1. Route[addr] \notin {None, 0}
    BY <1>11 DEF None
  <2>2. soc_write(Hw, addr, x[2]) = Answered(OK(b, 0))
    BY <1>4, <1>8, <1>11, <2>1 DEF soc_write
  <2> QED BY <1>6, <1>7, <2>2 DEF addr
<1>12. addr % WordBytes = 0 => Route[addr] \in {None, 0, 1}
  <2>1. addr % WordBytes = 0 => Route[addr] = None \/ Route[addr] \in 0 .. 6
    BY <1>1, RouteRange
  <2> QED BY <1>1, <2>1
<1> QED BY <1>9, <1>10, <1>11, <1>12

(* So every call of the client is good, within the drivers or past them. *)
Called ==
  /\ HwOK'
  /\ run' = Returned(0) /\ ticks' = ticks
  /\ dma'.done => dma.done
  /\ \A l \in intc.pending \ intc'.pending : Taken(l, intc', perf')

(* A good call as a step. *)
LEMMA BecomeFacts ==
  ASSUME NEW STATE s, Good(s), Become(s)
  PROVE  Called
<1>1. /\ uart' = s.uart /\ timer' = s.timer /\ dma' = s.dma /\ intc' = s.intc
      /\ perf' = s.perf /\ sram' = s.sram
      /\ run' = Returned(0) /\ ticks' = ticks
  BY DEF Become
<1>2. HwOK'
  BY <1>1 DEF Good, HwOK, UartOK, EngineOK
<1> QED BY <1>1, <1>2 DEF Good, Called

(* Every driver call. *)
LEMMA CallsAreGood ==
  ASSUME HwOK, Calls
  PROVE  Called
<1>1. ASSUME NEW t \in Transfers, Become(dma_start(Hw, t[1], t[2], t[3], t[4]))
      PROVE  Called
  <2> DEFINE irq == t[4]
  <2>1. irq \in BOOLEAN
    BY SocClientAssumption
  <2> HIDE DEF irq
  <2>2. Good(dma_start(Hw, t[1], t[2], t[3], irq))
    BY <2>1, GoodDmaCalls
  <2>3. Become(dma_start(Hw, t[1], t[2], t[3], irq))
    BY <1>1 DEF irq
  <2> QED BY <2>2, <2>3, BecomeFacts
<1>2. CASE Become(dma_clear(Hw))
  BY <1>2, GoodDmaCalls, BecomeFacts
<1>3. ASSUME NEW b \in Bytes \ {0}, Become(uart_write_byte(Hw, b)) PROVE Called
  BY <1>3, GoodUartCalls, BecomeFacts
<1>4. CASE Become(uart_read_byte(Hw))
  BY <1>4, GoodUartCalls, BecomeFacts
<1>5. ASSUME NEW load \in TimerLoads, Become(timer_start(Hw, load, FALSE, TRUE))
      PROVE  Called
  <2>1. Become(OneShot(Hw, load))
    BY <1>5 DEF OneShot
  <2>2. Good(OneShot(Hw, load))
    BY GoodTimerCalls
  <2> QED BY <2>1, <2>2, BecomeFacts
<1>6. CASE Become(timer_stop(Hw))
  BY <1>6, GoodTimerCalls, BecomeFacts
<1>7. CASE Become(timer_clear(Hw))
  BY <1>7, GoodTimerCalls, BecomeFacts
<1>8. CASE Become(intc_enable(Hw, Lines))
  BY <1>8, GoodIntcCalls, BecomeFacts
<1>9. CASE Become(intc_ack(Hw))
  BY <1>9, GoodIntcCalls, BecomeFacts
<1>10. CASE Become(intc_clear(Hw, DMA))
  BY <1>10, GoodIntcCalls, BecomeFacts
<1>11. ASSUME NEW x \in Modifications,
              Become(hal_modify_reg(Hw, x[1], "CTRL", x[2], x[3]))
       PROVE  Called
  <2>1. Good(hal_modify_reg(Hw, x[1], "CTRL", x[2], x[3]))
    <3>1. CASE x = <<"DMA", {"IRQ_ENABLE"}, {"IRQ_ENABLE"}>>
      BY <3>1, GoodDmaCalls
    <3>2. CASE x = <<"UART", {"ENABLE"}, {}>>
      BY <3>2, GoodUartCalls
    <3>3. CASE x = <<"PERF", {"RESET"}, {"RESET"}>>
      BY <3>3, GoodPerfCalls
    <3> QED BY <3>1, <3>2, <3>3 DEF Modifications
  <2> QED BY <1>11, <2>1, BecomeFacts
<1> QED BY <1>1, <1>2, <1>3, <1>4, <1>5, <1>6, <1>7, <1>8, <1>9, <1>10, <1>11
        DEF Calls

(* Every access past the drivers. *)
LEMMA PastDriversIsGood ==
  ASSUME HwOK, PastDrivers
  PROVE  Called
<1>1. ASSUME NEW x \in Stores, Become(soc_write(Hw, x[1], x[2]).hw) PROVE Called
  BY <1>1, GoodStore, BecomeFacts
<1>2. CASE Become(soc_write(Hw, Vlab("DMA", "CTRL"), {"START"}).hw)
  BY <1>2, GoodDmaCalls, BecomeFacts
<1>3. ASSUME NEW b \in Bytes \ {0}, Become(soc_write(Hw, TXDATA, b).hw)
      PROVE  Called
  BY <1>3, GoodUartCalls, BecomeFacts
<1>4. ASSUME NEW a \in RawReads, Become(soc_read(Hw, a).hw) PROVE Called
  <2>1. a \in Uint32
    BY SocClientAssumption
  <2> QED BY <1>4, <2>1, GoodRead, BecomeFacts
<1>5. CASE Become(vlab_test_raise_irq(Hw, DMA))
  <2>1. DMA \in Lines
    BY DEF Lines
  <2> QED BY <1>5, <2>1, GoodIntcCalls, BecomeFacts
<1>6. CASE Hook("ADDR")
  <2>1. /\ dma' = soc_dma_fail(dma, "ADDR") /\ uart' = uart /\ sram' = sram
        /\ intc' = IF "IRQ_ENABLE" \in dma.ctrl THEN soc_intc_raise(intc, DMA) ELSE intc
        /\ timer' = timer /\ perf' = perf /\ ticks' = ticks
        /\ run' = Returned(0)
    BY <1>6 DEF Hook, vlab_test_dma_error
  <2>2. EngineOK(dma') /\ ~dma'.done
    <3>1. TRUE \in BOOLEAN
      OBVIOUS
    <3>2. EngineOK(soc_dma_fail(dma, "ADDR")) /\ ~soc_dma_fail(dma, "ADDR").done
      BY <3>1, HwFacts, EngineCalls
    <3> QED BY <2>1, <3>2 DEF EngineOK
  <2>3. intc' \in IntcType /\ intc.pending \subseteq intc'.pending
    <3>1. DMA \in Lines
      BY DEF Lines
    <3> QED BY <2>1, <3>1, HwFacts, RaiseFacts
  <2>4. HwOK'
    BY <2>1, <2>2, <2>3, HwFacts DEF HwOK, UartOK, EngineOK
  <2> QED BY <2>1, <2>2, <2>3, <2>4 DEF Called
<1>7. CASE Become(StickDma(Hw, TRUE))
  BY <1>7, GoodDmaCalls, BecomeFacts
<1>8. CASE Become(StickUart(Hw, TRUE))
  BY <1>8, GoodUartCalls, BecomeFacts
<1> QED BY <1>1, <1>2, <1>3, <1>4, <1>5, <1>6, <1>7, <1>8 DEF PastDrivers

(* platform_init. *)
LEMMA InitCallIsGood ==
  ASSUME HwOK, Become(platform_init(Hw))
  PROVE  Called
BY GoodPerfCalls, BecomeFacts

-----------------------------------------------------------------------------
(* The invariant of the SoC.  While soc_boot ticks, the hardware is that   *)
(* of a fresh SoC after as many ticks; while one of the loops polls, the   *)
(* ticks that the engine still needs are those it needed at the call less  *)
(* those the loop has made.                                                *)

(* The counters after n ticks, and after n ticks of boot. *)
Ran(n, on, bits) ==
  [CYCLES |-> n, MEM_ACC |-> 0, DMA_BYTES |-> 0, IRQ_COUNT |-> 0,
   STALLS |-> 0, enabled |-> on, CTRL |-> bits]

Booted(n) == Ran(n, TRUE, {"ENABLE"})

BootInv ==
  run.pc = "soc_boot" =>
    /\ run.n \in Nat /\ run.n <= run.max /\ run.max = SOC_BOOT_TICKS
    /\ uart = soc_uart_reset /\ timer = T!soc_timer_reset
    /\ dma = soc_dma_reset /\ intc = soc_intc_reset
    /\ sram = ZeroMem(SramRegion) /\ cpu = soc_cpu_reset
    /\ ticks = run.n /\ perf = Booted(run.n)

InLoop(idle) ==
  /\ run.n \in Nat /\ run.n <= run.max
  /\ hist.need = Never => Need(idle) = Never
  /\ hist.need # Never => /\ hist.need \in 0 .. MaxPolls
                          /\ Need(idle) = hist.need - run.n
                          /\ Need(idle) # Never

LoopInv ==
  /\ run.pc = "soc_run_until" => InLoop(Never)
  /\ run.pc = "vlab_test_dma_complete" => InLoop(0) /\ run.max = MaxPolls

SocInv ==
  /\ HwOK /\ ticks \in Counter /\ run \in RunType
  /\ BootInv /\ LoopInv

(* Between calls only the hardware counts. *)
LEMMA ClientInv ==
  ASSUME HwOK', ticks' \in Counter, NEW n \in Int, run' = Returned(n)
  PROVE  SocInv'
<1>1. run' \in RunType /\ run'.pc = "client"
  BY DEF Returned, RunType
<1>2. RunType' = RunType /\ Counter' = Counter
  OBVIOUS
<1> QED BY <1>1, <1>2 DEF SocInv, BootInv, LoopInv

(* The reset values. *)
LEMMA ResetFacts ==
  /\ UartOK(soc_uart_reset) /\ T!soc_timer_reset \in T!TimerType
  /\ EngineOK(soc_dma_reset) /\ soc_intc_reset \in IntcType
  /\ soc_perf_init \in PerfType /\ ZeroMem(SramRegion) \in SramType
  /\ 0 \in Counter
<1>1. 0 \in Counter
  BY CounterModAssumption DEF Counter
<1>2. UartOK(soc_uart_reset)
  <2>1. <<>> \in Seq(Bytes) /\ Len(<<>>) = 0
    OBVIOUS
  <2>2. soc_uart_reset \in UartType
    BY <2>1, UartAssumption DEF soc_uart_reset, UartType
  <2>3. soc_uart_reset.tx_fifo = <<>> /\ soc_uart_reset.rx_fifo = <<>>
    BY DEF soc_uart_reset
  <2> QED BY <2>1, <2>2, <2>3, UartAssumption DEF UartOK
<1>3. T!soc_timer_reset \in T!TimerType
  BY DEF T!soc_timer_reset, T!TimerType
<1>4. EngineOK(soc_dma_reset)
  <2>1. 0 \in Uint32 /\ 0 \in Lengths
    BY WidthAssumption DEF Uint32, Lengths
  <2> QED BY <2>1 DEF EngineOK, soc_dma_reset, DmaType
<1>5. soc_intc_reset \in IntcType
  BY DEF soc_intc_reset, IntcType
<1>6. soc_perf_init \in PerfType
  BY <1>1 DEF soc_perf_init, PerfType
<1>7. ZeroMem(SramRegion) \in SramType
  BY UartAssumption DEF ZeroMem, SramType
<1> QED BY <1>1, <1>2, <1>3, <1>4, <1>5, <1>6, <1>7

(* The invariant holds after initialisation. *)
LEMMA InitInv == MCInit => SocInv
<1> SUFFICES ASSUME MCInit PROVE SocInv
  OBVIOUS
<1>1. HwOK /\ ticks \in Counter
  BY ResetFacts DEF MCInit, Init, HwOK
<1>2. run \in RunType /\ run.pc = "client"
  BY DEF MCInit, Init, Returned, RunType
<1> QED BY <1>1, <1>2 DEF SocInv, BootInv, LoopInv

(* soc_host_init and soc_boot start from the reset values. *)
LEMMA HostInitInv ==
  ASSUME soc_host_init
  PROVE  SocInv'
<1>1. HwOK' /\ ticks' \in Counter
  BY ResetFacts DEF soc_host_init, HwOK, UartOK, EngineOK
<1>2. run' = Returned(0)
  BY DEF soc_host_init
<1> QED BY <1>1, <1>2, ClientInv

(* The hardware that boot builds is well-formed. *)
LEMMA BootedFacts ==
  ASSUME NEW n \in Nat, n < CounterMod
  PROVE  /\ Booted(n) \in PerfType
         /\ n + 1 < CounterMod => Count(Booted(n), "CYCLES", 1) = Booted(n + 1)
<1> DEFINE on   == TRUE
           bits == {"ENABLE"}
<1>1. n \in Counter /\ 0 \in Counter
  BY CounterModAssumption DEF Counter
<1>2. on \in BOOLEAN /\ on /\ bits \in SUBSET {"ENABLE", "RESET"}
  OBVIOUS
<1> HIDE DEF on, bits
<1>3. Ran(n, on, bits) \in PerfType /\ Ran(n, on, bits).enabled = on
  BY <1>1, <1>2 DEF PerfType, Ran
<1>4. ASSUME n + 1 < CounterMod
      PROVE  Count(Ran(n, on, bits), "CYCLES", 1) = Ran(n + 1, on, bits)
  <2>1. Bump(n, 1) = n + 1
    BY <1>4, CounterModAssumption DEF Bump
  <2>2. Count(Ran(n, on, bits), "CYCLES", 1)
          = [Ran(n, on, bits) EXCEPT !.CYCLES = Bump(@, 1)]
    BY <1>2, <1>3 DEF Count
  <2>3. Ran(n, on, bits).CYCLES = n
    BY DEF Ran
  <2> DEFINE m == n + 1
             a == Ran(n, on, bits)
  <2>4. [a EXCEPT !.CYCLES = m] = Ran(m, on, bits)
    <3> HIDE DEF m
    <3> QED BY DEF Ran
  <2> HIDE DEF a
  <2>5. [a EXCEPT !.CYCLES = Bump(@, 1)] = [a EXCEPT !.CYCLES = m]
    BY <2>1, <2>3 DEF a
  <2> QED BY <2>2, <2>4, <2>5 DEF a, m
<1> QED BY <1>3, <1>4 DEF Booted, on, bits

(* soc_perf_reset_counters and the enabling of the counters, and the same  *)
(* of counters that were never used.                                       *)
LEMMA BootPerf ==
  ASSUME NEW p \in PerfType
  PROVE  [soc_perf_reset_counters(p) EXCEPT !.enabled = TRUE, !.CTRL = {"ENABLE"}]
           = Booted(0)
<1> DEFINE on   == TRUE
           bits == {"ENABLE"}
           a    == soc_perf_reset_counters(p)
<1> HIDE DEF on, bits
<1>1. a = Ran(0, p.enabled, p.CTRL)
  BY DEF soc_perf_reset_counters, PerfCounters, PerfType, Ran
<1>2. [a EXCEPT !.enabled = on] = Ran(0, on, p.CTRL)
  BY <1>1 DEF Ran
<1>3. [Ran(0, on, p.CTRL) EXCEPT !.CTRL = bits] = Ran(0, on, bits)
  BY DEF Ran
<1> HIDE DEF a
<1>4. [a EXCEPT !.enabled = on, !.CTRL = bits]
        = [[a EXCEPT !.enabled = on] EXCEPT !.CTRL = bits]
  OBVIOUS
<1>5. [a EXCEPT !.enabled = on, !.CTRL = bits] = Ran(0, on, bits)
  BY <1>2, <1>3, <1>4
<1> QED BY <1>5 DEF Booted, a, on, bits

(* The counters at the end of boot. *)
LEMMA BootedIs ==
  ASSUME NEW n
  PROVE  [soc_perf_init EXCEPT !.CYCLES = n, !.enabled = TRUE, !.CTRL = {"ENABLE"}]
           = Booted(n)
<1> DEFINE on   == TRUE
           off  == FALSE
           none == {}
           bits == {"ENABLE"}
           a    == soc_perf_init
<1>1. a = Ran(0, off, none)
  BY DEF soc_perf_init, Ran
<1> HIDE DEF on, off, none, bits, a
<1>2. [Ran(0, off, none) EXCEPT !.CYCLES = n] = Ran(n, off, none)
  BY DEF Ran
<1>3. [Ran(n, off, none) EXCEPT !.enabled = on] = Ran(n, on, none)
  BY DEF Ran
<1>4. [Ran(n, on, none) EXCEPT !.CTRL = bits] = Ran(n, on, bits)
  BY DEF Ran
<1>5. [a EXCEPT !.CYCLES = n, !.enabled = on, !.CTRL = bits]
        = [[[a EXCEPT !.CYCLES = n] EXCEPT !.enabled = on] EXCEPT !.CTRL = bits]
  OBVIOUS
<1>6. [a EXCEPT !.CYCLES = n, !.enabled = on, !.CTRL = bits] = Ran(n, on, bits)
  BY <1>1, <1>2, <1>3, <1>4, <1>5
<1> QED BY <1>6 DEF Booted, a, on, bits

(* soc_boot resets everything at once, then ticks. *)
LEMMA SocBootInv ==
  ASSUME SocInv, NEW image, soc_boot(image)
  PROVE  SocInv'
<1>1. /\ uart' = soc_uart_reset /\ timer' = T!soc_timer_reset
      /\ dma' = soc_dma_reset /\ intc' = soc_intc_reset
      /\ sram' = ZeroMem(SramRegion) /\ cpu' = soc_cpu_reset /\ ticks' = 0
      /\ run' = Running("soc_boot", SOC_BOOT_TICKS)
      /\ perf' = Booted(0)
  <2>1. perf \in PerfType
    BY DEF SocInv, HwOK
  <2> QED BY <2>1, BootPerf DEF soc_boot
<1>2. Booted(0) \in PerfType
  BY CounterModAssumption, BootedFacts
<1>3. HwOK' /\ ticks' \in Counter
  BY <1>1, <1>2, ResetFacts DEF HwOK, UartOK, EngineOK
<1>4. /\ run'.pc = "soc_boot" /\ run'.n = 0 /\ run'.max = SOC_BOOT_TICKS
      /\ run' \in RunType
  BY <1>1, SocAssumption DEF Running, RunType, Loops
<1>5. BootInv' /\ LoopInv'
  BY <1>1, <1>4, SocAssumption DEF BootInv, LoopInv
<1> QED BY <1>3, <1>4, <1>5 DEF SocInv

(* A tick of boot finds every peripheral idle. *)
LEMMA BootTickInv ==
  ASSUME SocInv, soc_boot_tick
  PROVE  SocInv'
<1>1. /\ run.pc = "soc_boot" /\ run.n < run.max /\ soc_step(perf)
      /\ run' = [run EXCEPT !.n = @ + 1]
  BY DEF soc_boot_tick
<1>2. /\ run.n \in Nat /\ run.max = SOC_BOOT_TICKS
      /\ uart = soc_uart_reset /\ timer = T!soc_timer_reset
      /\ dma = soc_dma_reset /\ intc = soc_intc_reset
      /\ sram = ZeroMem(SramRegion) /\ cpu = soc_cpu_reset
      /\ ticks = run.n /\ perf = Booted(run.n)
  BY <1>1 DEF SocInv, BootInv
<1>3. HwOK /\ ticks \in Counter /\ perf \in PerfType /\ run \in RunType
  BY DEF SocInv, HwOK
<1>4. /\ HwOK' /\ ticks' \in Counter
      /\ Counts \/ Ends \/ Rests
  BY <1>1, <1>3, StepFacts
<1>5. /\ ticks' = Bump(ticks, 1) /\ timer' = T!soc_timer_step(timer)
      /\ soc_dma_step(UartNow, IntcNow) /\ cpu' = cpu
      /\ perf' = IF dma.busy /\ dma'.done
                 THEN Count(Count(perf, "CYCLES", 1), "DMA_BYTES", dma.length)
                 ELSE Count(perf, "CYCLES", 1)
  BY <1>1 DEF soc_step, UartNow, IntcNow
<1>6. ~dma.busy /\ ~dma.done
  BY <1>2 DEF soc_dma_reset
<1>7. UartNow = uart /\ IntcNow = intc
  <2>1. uart.busy = 0
    BY <1>2 DEF soc_uart_reset
  <2>2. UartNow = uart /\ UartRaises(uart, intc) = intc
    BY <2>1 DEF UartNow, soc_uart_step, UartRaises, UartSends
  <2>3. T!TimerRaises(timer, intc) = intc
    BY <1>2 DEF T!TimerRaises, T!TimerFires, T!TimerRuns, T!soc_timer_reset
  <2> QED BY <2>2, <2>3 DEF IntcNow
<1>8. /\ dma' = dma /\ uart' = uart /\ intc' = intc /\ sram' = sram
  <2>1. ~LastTick(dma) /\ ~Counting(dma)
    BY <1>6 DEF LastTick, Counting
  <2> QED BY <1>5, <1>7, <2>1
          DEF soc_dma_step, soc_dma_step_idle, soc_dma_step_nomem,
              soc_dma_step_fault, soc_dma_step_done
<1>9. timer' = timer
  BY <1>2, <1>5 DEF T!soc_timer_step, T!TimerRuns, T!soc_timer_reset
<1>10. run.n + 1 <= SOC_BOOT_TICKS /\ run.n + 1 < CounterMod
  BY <1>1, <1>2, SocAssumption, SocBoundAssumption, CounterModAssumption
<1>11. ticks' = run.n + 1
  BY <1>2, <1>5, <1>10, CounterModAssumption DEF Bump
<1>12. perf' = Booted(run.n + 1)
  <2>1. run.n < CounterMod
    BY <1>2, <1>10, CounterModAssumption
  <2> QED BY <1>2, <1>5, <1>6, <1>10, <2>1, BootedFacts
<1>13. /\ run'.pc = "soc_boot" /\ run'.n = run.n + 1 /\ run'.max = run.max
       /\ run' \in RunType
  BY <1>1, <1>3 DEF RunType
<1>14. BootInv'
  BY <1>2, <1>5, <1>8, <1>9, <1>10, <1>11, <1>12, <1>13 DEF BootInv
<1>15. LoopInv'
  BY <1>13 DEF LoopInv
<1> QED BY <1>4, <1>13, <1>14, <1>15 DEF SocInv

(* A tick of a loop that found no flag brings the end one tick closer. *)
LEMMA LoopTick ==
  ASSUME SocInv, NEW idle \in {0, Never}, InLoop(idle), run.n < run.max,
         ~dma.done, ~dma.error, idle = 0 => dma.busy,
         soc_step(Poll.hw.perf), run' = [run EXCEPT !.n = @ + 1], hist' = hist
  PROVE  /\ InLoop(idle)' /\ HwOK' /\ ticks' \in Counter
         /\ run' \in RunType /\ run'.pc = run.pc /\ run'.max = run.max
<1>1. /\ HwOK /\ ticks \in Counter /\ run \in RunType /\ EngineOK(dma)
      /\ dma \in DmaType
  BY DEF SocInv, HwOK, EngineOK
<1>2. Poll.hw.perf \in PerfType
  BY <1>1, PollFacts, HwFacts
<1>3. HwOK' /\ ticks' \in Counter /\ (Counts \/ Ends \/ Rests)
  BY <1>1, <1>2, StepFacts
<1>4. /\ run' \in RunType /\ run'.pc = run.pc /\ run'.max = run.max
      /\ run'.n = run.n + 1 /\ run.n \in Nat /\ run.max \in Nat
  BY <1>1 DEF RunType, InLoop
<1>5. /\ dma.remaining \in Int /\ dma.busy \in BOOLEAN
      /\ dma.busy => dma.remaining >= 1
  BY <1>1 DEF EngineOK, DmaType
<1>6. dma.busy /\ ~dma.fault_stuck_busy => Need(idle) = dma.remaining
  BY DEF Need
<1>7. ~dma.busy \/ dma.fault_stuck_busy => Need(idle) = Never
  BY DEF Need
<1>8. Never = -1 /\ MaxPolls \in Nat
  BY SocAssumption DEF Never
<1>9. CASE Counts
  <2>1. /\ ~dma'.done /\ ~dma'.error /\ dma'.busy /\ ~dma'.fault_stuck_busy
        /\ dma'.remaining = dma.remaining - 1 /\ dma.remaining > 1
        /\ Need(idle) = dma.remaining
    BY <1>1, <1>6, <1>9 DEF Counts, DmaType
  <2>2. Need(idle)' = dma.remaining - 1
    BY <2>1 DEF Need
  <2> QED BY <1>3, <1>4, <1>5, <1>8, <2>1, <2>2 DEF InLoop
<1>10. CASE Ends
  <2>1. Need(idle) = 1
    BY <1>6, <1>10 DEF Ends
  <2>2. Need(idle)' = 0
    BY <1>10 DEF Ends, Need
  <2> QED BY <1>3, <1>4, <1>8, <2>1, <2>2 DEF InLoop
<1>11. CASE Rests
  <2>1. Need(idle) = Never
    BY <1>7, <1>11 DEF Rests
  <2>2. Need(idle)' = Need(idle)
    BY <1>11 DEF Rests, Need
  <2> QED BY <1>3, <1>4, <1>8, <2>1, <2>2 DEF InLoop
<1> QED BY <1>3, <1>9, <1>10, <1>11

(* What a step may do: it keeps the invariant, it takes a pending line     *)
(* back only as Taken says or in a restart, and it sets DONE of a busy     *)
(* engine only in the tick that ends its transfer.                         *)
StepOK ==
  /\ SocInv'
  /\ Restart \/ \A l \in intc.pending \ intc'.pending : Taken(l, intc', perf')
  /\ dma.busy /\ dma'.done => soc_dma_step_done(UartNow, IntcNow)

(* Calls of the client keep the invariant. *)
LEMMA CalledOK ==
  ASSUME SocInv, Called
  PROVE  StepOK
<1>1. SocInv'
  <2>1. HwOK' /\ ticks' \in Counter /\ run' = Returned(0)
    BY DEF Called, SocInv
  <2> QED BY <2>1, ClientInv
<1>2. ~(dma.busy /\ dma'.done)
  BY DEF SocInv, HwOK, EngineOK, Called
<1> QED BY <1>1, <1>2 DEF StepOK, Called

(* So does every tick, with the DONE it may bring, *)
LEMMA TickOK ==
  ASSUME SocInv, SocInv', NEW STATE p, p \in PerfType, soc_step(p)
  PROVE  StepOK
<1>1. HwOK /\ ticks \in Counter
  BY DEF SocInv
<1>2. /\ intc.pending \subseteq intc'.pending
      /\ dma.busy /\ dma'.done => soc_dma_step_done(UartNow, IntcNow)
  BY <1>1, StepFacts
<1> QED BY <1>2 DEF StepOK

(* in particular soc_host_step, *)
LEMMA HostStepOK ==
  ASSUME SocInv, soc_host_step
  PROVE  StepOK
<1>1. HwOK /\ ticks \in Counter /\ perf \in PerfType
  BY DEF SocInv, HwOK
<1>2. soc_step(perf) /\ run' = Returned(0)
  BY DEF soc_host_step
<1>3. HwOK' /\ ticks' \in Counter
  BY <1>1, <1>2, StepFacts
<1>4. SocInv'
  BY <1>2, <1>3, ClientInv
<1> QED BY <1>1, <1>2, <1>4, TickOK

(* A step that leaves the hardware but for the counters. *)
LEMMA IdleOK ==
  ASSUME SocInv, HardwareIdle, perf' \in PerfType, NEW n \in Int,
         run' = Returned(n)
  PROVE  StepOK
<1>1. HwOK' /\ ticks' \in Counter /\ dma' = dma /\ intc' = intc
  BY DEF HardwareIdle, SocInv, HwOK, UartOK, EngineOK
<1>2. SocInv'
  BY <1>1, ClientInv
<1>3. ~(dma.busy /\ dma'.done)
  BY <1>1 DEF SocInv, HwOK, EngineOK
<1> QED BY <1>1, <1>2, <1>3 DEF StepOK

(* the call of a loop, *)
LEMMA CallLoopOK ==
  ASSUME SocInv, CallLoop
  PROVE  StepOK
<1>1. /\ HardwareIdle /\ perf' = perf
      /\ \/ /\ run' = Running("vlab_test_dma_complete", MaxPolls)
            /\ hist'.need = Need(0)
         \/ /\ \E max \in UntilTicks : run' = Running("soc_run_until", max)
            /\ hist'.need = Need(Never)
  BY DEF CallLoop, vlab_test_dma_complete, soc_run_until
<1>2. HwOK' /\ ticks' \in Counter /\ dma' = dma /\ intc' = intc
  BY <1>1 DEF HardwareIdle, SocInv, HwOK, UartOK, EngineOK
<1>3. ~(dma.busy /\ dma'.done)
  BY <1>2 DEF SocInv, HwOK, EngineOK
<1>4. Need(0)' = Need(0) /\ Need(Never)' = Need(Never)
  BY <1>2 DEF Need
<1>5. ASSUME NEW idle \in {0, Never}
      PROVE  Need(idle) # Never => Need(idle) \in 0 .. MaxPolls
  <2>1. /\ dma.busy => dma.remaining >= 1 /\ dma.remaining <= MaxPolls
        /\ dma.remaining \in Int /\ MaxPolls \in Nat
    BY SocAssumption DEF SocInv, HwOK, EngineOK, DmaType
  <2> QED BY <2>1 DEF Need, Never
<1>6. CASE /\ run' = Running("vlab_test_dma_complete", MaxPolls)
           /\ hist'.need = Need(0)
  <2>1. /\ run'.pc = "vlab_test_dma_complete" /\ run'.n = 0
        /\ run'.max = MaxPolls /\ run' \in RunType
    BY <1>6, SocAssumption DEF Running, RunType, Loops
  <2>2. InLoop(0)'
    <3>1. Need(0) # Never => Need(0) \in 0 .. MaxPolls /\ Need(0) = Need(0) - 0
      BY <1>5, SocAssumption
    <3> QED BY <1>4, <1>6, <2>1, <3>1, SocAssumption DEF InLoop
  <2>3. BootInv' /\ LoopInv'
    BY <2>1, <2>2 DEF BootInv, LoopInv
  <2> QED BY <1>2, <1>3, <2>1, <2>3 DEF StepOK, SocInv
<1>7. CASE /\ \E max \in UntilTicks : run' = Running("soc_run_until", max)
           /\ hist'.need = Need(Never)
  <2>1. PICK max \in UntilTicks : run' = Running("soc_run_until", max)
    BY <1>7
  <2>2. max \in Nat
    BY SocClientAssumption
  <2>3. /\ run'.pc = "soc_run_until" /\ run'.n = 0 /\ run'.max = max
        /\ run' \in RunType
    BY <2>1, <2>2 DEF Running, RunType, Loops
  <2>4. InLoop(Never)'
    <3>1. /\ Need(Never) # Never => /\ Need(Never) \in 0 .. MaxPolls
                                    /\ Need(Never) = Need(Never) - 0
      BY <1>5, SocAssumption
    <3> QED BY <1>4, <1>7, <2>2, <2>3, <3>1, SocAssumption DEF InLoop
  <2>5. BootInv' /\ LoopInv'
    BY <2>3, <2>4 DEF BootInv, LoopInv
  <2> QED BY <1>2, <1>3, <2>3, <2>5 DEF StepOK, SocInv
<1> QED BY <1>1, <1>6, <1>7

(* One round of a loop: another tick, or the return. *)
LEMMA LoopStepOK ==
  ASSUME SocInv, LoopStep
  PROVE  StepOK
<1>1. /\ Loop /\ hist' = IF run'.pc = "client" THEN [hist EXCEPT !.need = 0]
                         ELSE hist
  BY DEF LoopStep
<1>2. HwOK /\ perf \in PerfType /\ Poll.hw.perf \in PerfType /\ run \in RunType
  <2>1. HwOK /\ run \in RunType
    BY DEF SocInv
  <2> QED BY <2>1, PollFacts, HwFacts
<1>3. /\ pred_done <=> dma.done \/ dma.error
      /\ Driven <=> run.n = run.max \/ dma.done \/ dma.error \/ ~dma.busy
  BY <1>2, StatusBits
<1>4. CASE soc_boot_tick
  <2>1. soc_step(perf) /\ SocInv'
    BY <1>4, BootTickInv DEF soc_boot_tick
  <2> QED BY <1>2, <2>1, TickOK
<1>5. CASE soc_boot_return
  <2>1. /\ run' = Returned(0) /\ uart' = uart /\ timer' = timer /\ dma' = dma
        /\ intc' = intc /\ perf' = perf /\ sram' = sram /\ ticks' = ticks
    BY <1>5 DEF soc_boot_return
  <2>2. HwOK' /\ ticks' \in Counter
    BY <2>1 DEF SocInv, HwOK, UartOK, EngineOK
  <2>3. SocInv'
    BY <2>1, <2>2, ClientInv
  <2>4. ~(dma.busy /\ dma'.done)
    BY <2>1 DEF SocInv, HwOK, EngineOK
  <2> QED BY <2>1, <2>3, <2>4 DEF StepOK
<1>6. CASE vlab_test_dma_complete_tick
  <2>1. /\ run.pc = "vlab_test_dma_complete" /\ soc_step(Poll.hw.perf)
        /\ run' = [run EXCEPT !.n = @ + 1]
        /\ run.n # run.max /\ ~dma.done /\ ~dma.error /\ dma.busy
    BY <1>3, <1>6 DEF vlab_test_dma_complete_tick
  <2>2. InLoop(0) /\ run.max = MaxPolls
    BY <2>1 DEF SocInv, LoopInv
  <2>3. run.n < run.max
    BY <1>2, <2>1, <2>2 DEF InLoop, RunType
  <2>4. hist' = hist
    BY <1>1, <1>2, <2>1 DEF RunType
  <2>5. /\ InLoop(0)' /\ HwOK' /\ ticks' \in Counter
        /\ run' \in RunType /\ run'.pc = run.pc /\ run'.max = run.max
    BY <2>1, <2>2, <2>3, <2>4, LoopTick
  <2>6. BootInv' /\ LoopInv'
    BY <2>1, <2>2, <2>5 DEF BootInv, LoopInv
  <2>7. SocInv'
    BY <2>5, <2>6 DEF SocInv
  <2> QED BY <1>2, <2>1, <2>7, TickOK
<1>7. CASE vlab_test_dma_complete_return
  <2>1. HardwareIdle /\ perf' \in PerfType /\ run' = Returned(0)
    BY <1>2, <1>7 DEF vlab_test_dma_complete_return
  <2> QED BY <2>1, IdleOK
<1>8. CASE soc_run_until_tick
  <2>1. /\ run.pc = "soc_run_until" /\ soc_step(Poll.hw.perf)
        /\ run' = [run EXCEPT !.n = @ + 1]
        /\ run.n < run.max /\ ~dma.done /\ ~dma.error
    BY <1>3, <1>8 DEF soc_run_until_tick
  <2>2. InLoop(Never)
    BY <2>1 DEF SocInv, LoopInv
  <2>3. hist' = hist
    BY <1>1, <1>2, <2>1 DEF RunType
  <2>4. Never # 0
    BY DEF Never
  <2>5. /\ InLoop(Never)' /\ HwOK' /\ ticks' \in Counter
        /\ run' \in RunType /\ run'.pc = run.pc /\ run'.max = run.max
    BY <2>1, <2>2, <2>3, <2>4, LoopTick
  <2>6. BootInv' /\ LoopInv'
    BY <2>1, <2>5 DEF BootInv, LoopInv
  <2>7. SocInv'
    BY <2>5, <2>6 DEF SocInv
  <2> QED BY <1>2, <2>1, <2>7, TickOK
<1>9. CASE soc_run_until_return
  <2> DEFINE n == IF pred_done THEN run.n ELSE -1
  <2>1. /\ HardwareIdle /\ perf' \in PerfType
        /\ run' = Returned(n)
    BY <1>2, <1>9 DEF soc_run_until_return
  <2>2. n \in Int
    BY <1>2 DEF RunType
  <2> HIDE DEF n
  <2> QED BY <2>1, <2>2, IdleOK
<1> QED BY <1>1, <1>4, <1>5, <1>6, <1>7, <1>8, <1>9 DEF Loop

(* boot and initialisation, *)
LEMMA RestartOK ==
  ASSUME SocInv, Restart
  PROVE  StepOK
<1>1. soc_host_init \/ \E image \in Images : soc_boot(image)
  BY DEF Restart
<1>2. SocInv'
  BY <1>1, HostInitInv, SocBootInv
<1>3. ~dma'.done
  BY <1>1 DEF soc_host_init, soc_boot, soc_dma_reset
<1> QED BY <1>2, <1>3 DEF StepOK

(* hence every step, *)
LEMMA NextOK ==
  ASSUME SocInv, MCNext
  PROVE  StepOK
<1>1. HwOK
  BY DEF SocInv
<1>2. CASE Calls
  BY <1>1, <1>2, CallsAreGood, CalledOK
<1>3. CASE PastDrivers
  BY <1>1, <1>3, PastDriversIsGood, CalledOK
<1>4. CASE CallLoop
  BY <1>4, CallLoopOK
<1>5. CASE Become(platform_init(Hw))
  BY <1>1, <1>5, InitCallIsGood, CalledOK
<1>6. CASE Tick
  BY <1>6, HostStepOK DEF Tick
<1>7. CASE LoopStep
  BY <1>7, LoopStepOK
<1>8. CASE Restart
  BY <1>8, RestartOK
<1> QED BY <1>2, <1>3, <1>4, <1>5, <1>6, <1>7, <1>8 DEF MCNext

(* and a stutter. *)
LEMMA StutterOK ==
  ASSUME SocInv, UNCHANGED vars
  PROVE  SocInv'
<1>1. /\ uart' = uart /\ timer' = timer /\ dma' = dma /\ intc' = intc
      /\ perf' = perf /\ sram' = sram /\ cpu' = cpu
      /\ ticks' = ticks /\ run' = run /\ hist' = hist
  BY DEF vars
<1> QED BY <1>1 DEF SocInv, HwOK, UartOK, EngineOK, BootInv, LoopInv, InLoop, Need

-----------------------------------------------------------------------------
(* The results for the whole SoC. *)

(* Every state that boots, calls, ticks, loops and faults reach satisfies  *)
(* the invariant of the SoC.                                               *)
THEOREM SocInvariance == MCSpec => []SocInv
<1>1. SocInv /\ [MCNext]_vars => SocInv'
  BY NextOK, StutterOK DEF StepOK
<1> QED BY <1>1, InitInv, PTL DEF MCSpec

(* Type correctness of all the hardware, with the UART's streams within    *)
(* their buffers (soc_uart.c:97-112): whatever is written, moved, stuck or *)
(* booted, no append of the transmitter or of the DMA overruns them.       *)
THEOREM SocTypeCorrect == MCSpec => []SocTypeOK
<1>1. SocInv => SocTypeOK
  BY DEF SocInv, HwOK, UartOK, EngineOK, SocTypeOK
<1> QED BY <1>1, SocInvariance, PTL

(* What PendingOnlyAcked says of one step. *)
PendingStep ==
  \A l \in intc.pending \ intc'.pending :
    \/ /\ l = soc_intc_highest(intc)
       /\ l \in intc'.active
       /\ perf'.IRQ_COUNT = Count(perf, "IRQ_COUNT", 1).IRQ_COUNT
    \/ Restart

(* No interrupt is lost: a pending line is taken back only by the ACK that *)
(* returns it, makes it active and counts it, or by boot and               *)
(* initialisation (soc_intc.c, soc.c:167-192).                             *)
THEOREM SocKeepsPending == MCSpec => PendingOnlyAcked
<1>1. SocInv /\ [MCNext]_vars => [PendingStep]_vars
  BY NextOK DEF StepOK, Taken, PendingStep
<1>2. MCSpec => [][PendingStep]_vars
  BY <1>1, SocInvariance, PTL DEF MCSpec
<1> QED BY <1>2 DEF PendingStep, PendingOnlyAcked

(* Everything but a loop is a call of the client. *)
LEMMA LoopOrClient ==
  ASSUME MCNext
  PROVE  Client \/ LoopStep
<1>1. CASE Calls
  BY <1>1 DEF Calls, Become
<1>2. CASE PastDrivers
  BY <1>2 DEF PastDrivers, Become, Hook
<1>3. CASE CallLoop
  BY <1>3 DEF CallLoop, vlab_test_dma_complete, soc_run_until
<1>4. CASE Become(platform_init(Hw))
  BY <1>4 DEF Become
<1>5. CASE Tick
  BY <1>5 DEF Tick, soc_host_step
<1>6. CASE Restart
  BY <1>6 DEF Restart, soc_host_init, soc_boot
<1> QED BY <1>1, <1>2, <1>3, <1>4, <1>5, <1>6 DEF MCNext

(* Hence a loop is left by its own return. *)
LEMMA LeavesByReturn ==
  ASSUME MCNext, run \in RunType, run'.pc = "client"
  PROVE  /\ run.pc = "soc_boot" => soc_boot_return
         /\ run.pc = "soc_run_until" => soc_run_until_return
         /\ run.pc = "vlab_test_dma_complete" => vlab_test_dma_complete_return
<1>1. ~Client => Loop
  BY LoopOrClient DEF LoopStep
<1>2. run' = [run EXCEPT !.n = @ + 1] => run'.pc = run.pc
  BY DEF RunType
<1> QED BY <1>1, <1>2
        DEF Client, Loop, soc_boot_tick, soc_boot_return, soc_run_until_tick,
            soc_run_until_return, vlab_test_dma_complete_tick,
            vlab_test_dma_complete_return

(* What BootIsFresh says of one step. *)
FreshStep ==
  (run.pc = "soc_boot" /\ run'.pc = "client") =>
    /\ uart' = soc_uart_reset
    /\ timer' = T!soc_timer_reset
    /\ dma' = soc_dma_reset
    /\ intc' = soc_intc_reset
    /\ sram' = ZeroMem(SramRegion)
    /\ ticks' = SOC_BOOT_TICKS
    /\ perf' = [soc_perf_init EXCEPT !.CYCLES = SOC_BOOT_TICKS,
                                     !.enabled = TRUE, !.CTRL = {"ENABLE"}]
    /\ cpu'.running

(* After soc_boot nothing of the time before is left (soc.c:167-192), for  *)
(* every number of boot ticks below the width of the counters.             *)
THEOREM SocBootsFresh == MCSpec => BootIsFresh
<1>1. SocInv /\ MCNext => FreshStep
  <2> SUFFICES ASSUME SocInv, MCNext, run.pc = "soc_boot", run'.pc = "client"
               PROVE  FreshStep
    BY DEF FreshStep
  <2>1. soc_boot_return
    BY LeavesByReturn DEF SocInv
  <2>2. /\ run.n = run.max /\ cpu' = [cpu EXCEPT !.running = TRUE]
        /\ uart' = uart /\ timer' = timer /\ dma' = dma /\ intc' = intc
        /\ perf' = perf /\ sram' = sram /\ ticks' = ticks
    BY <2>1 DEF soc_boot_return
  <2>3. /\ run.max = SOC_BOOT_TICKS
        /\ uart = soc_uart_reset /\ timer = T!soc_timer_reset
        /\ dma = soc_dma_reset /\ intc = soc_intc_reset
        /\ sram = ZeroMem(SramRegion) /\ cpu = soc_cpu_reset
        /\ ticks = run.n /\ perf = Booted(run.n)
    BY DEF SocInv, BootInv
  <2>4. cpu'.running
    BY <2>2, <2>3 DEF soc_cpu_reset
  <2>5. perf' = [soc_perf_init EXCEPT !.CYCLES = SOC_BOOT_TICKS,
                                      !.enabled = TRUE, !.CTRL = {"ENABLE"}]
    <3>1. perf' = Booted(SOC_BOOT_TICKS)
      BY <2>2, <2>3
    <3>2. [soc_perf_init EXCEPT !.CYCLES = SOC_BOOT_TICKS,
                                !.enabled = TRUE, !.CTRL = {"ENABLE"}]
            = Booted(SOC_BOOT_TICKS)
      BY BootedIs
    <3> QED BY <3>1, <3>2
  <2> QED BY <2>2, <2>3, <2>4, <2>5 DEF FreshStep
<1>2. MCSpec => [][FreshStep]_vars
  BY <1>1, SocInvariance, PTL DEF MCSpec
<1> QED BY <1>2 DEF FreshStep, BootIsFresh

(* What RunUntilExact says of one step. *)
UntilStep ==
  (run.pc = "soc_run_until" /\ run'.pc = "client") =>
    run'.n = IF hist.need = Never \/ hist.need > run.max THEN -1 ELSE hist.need

(* soc_run_until is exact (soc.c:156-165): it reports the tick in which    *)
(* the transfer ended, also the very last one, and -1 otherwise.           *)
THEOREM SocRunUntilExact == MCSpec => RunUntilExact
<1>1. SocInv /\ MCNext => UntilStep
  <2> SUFFICES ASSUME SocInv, MCNext, run.pc = "soc_run_until",
                      run'.pc = "client"
               PROVE  UntilStep
    BY DEF UntilStep
  <2>1. soc_run_until_return
    BY LeavesByReturn DEF SocInv
  <2>2. HwOK /\ run \in RunType /\ InLoop(Never)
    BY DEF SocInv, LoopInv
  <2>3. /\ pred_done <=> dma.done \/ dma.error
        /\ dma.busy => dma.remaining >= 1
        /\ dma.remaining \in Int /\ Never = -1 /\ MaxPolls \in Nat
        /\ run.n \in Nat /\ run.max \in Nat /\ run.n <= run.max
    BY <2>2, StatusBits, SocAssumption
    DEF HwOK, EngineOK, DmaType, Never, RunType, InLoop
  <2>4. /\ pred_done \/ run.n = run.max
        /\ run'.n = IF pred_done THEN run.n ELSE -1
    BY <2>1 DEF soc_run_until_return, Returned
  <2>5. CASE dma.done \/ dma.error
    <3>1. Need(Never) = 0
      BY <2>5 DEF Need
    <3>2. hist.need \in Int /\ hist.need = run.n /\ hist.need # Never
      BY <2>2, <2>3, <3>1 DEF InLoop
    <3> QED BY <2>3, <2>4, <2>5, <3>2 DEF UntilStep
  <2>6. CASE ~(dma.done \/ dma.error)
    <3>1. Need(Never) = Never \/ Need(Never) >= 1
      BY <2>3, <2>6 DEF Need
    <3>2. hist.need = Never \/ (hist.need \in Int /\ hist.need > run.max)
      BY <2>2, <2>3, <2>4, <2>6, <3>1 DEF InLoop
    <3> QED BY <2>3, <2>4, <2>6, <3>2 DEF UntilStep
  <2> QED BY <2>5, <2>6
<1>2. MCSpec => [][UntilStep]_vars
  BY <1>1, SocInvariance, PTL DEF MCSpec
<1> QED BY <1>2 DEF UntilStep, RunUntilExact

(* What HookDrivesToEnd says of one step. *)
HookStep ==
  (run.pc = "vlab_test_dma_complete" /\ run'.pc = "client") =>
    IF hist.need = Never THEN run.n = MaxPolls
    ELSE run.n = hist.need /\ ~dma'.busy

(* The hook vlab_test_dma_complete (host_bridge.c:48-60) steps a busy      *)
(* engine to its flag and not one tick further, for every transfer that    *)
(* takes no longer than the hook polls.                                    *)
THEOREM SocHookDrives == MCSpec => HookDrivesToEnd
<1>1. SocInv /\ MCNext => HookStep
  <2> SUFFICES ASSUME SocInv, MCNext, run.pc = "vlab_test_dma_complete",
                      run'.pc = "client"
               PROVE  HookStep
    BY DEF HookStep
  <2>1. vlab_test_dma_complete_return
    BY LeavesByReturn DEF SocInv
  <2>2. HwOK /\ run \in RunType /\ InLoop(0) /\ run.max = MaxPolls
    BY DEF SocInv, LoopInv
  <2>3. /\ Driven <=> run.n = run.max \/ dma.done \/ dma.error \/ ~dma.busy
        /\ dma.busy => dma.remaining >= 1 /\ ~dma.done /\ ~dma.error
        /\ dma.remaining \in Int /\ Never = -1 /\ MaxPolls \in Nat
        /\ run.n \in Nat
    BY <2>2, StatusBits, SocAssumption
    DEF HwOK, EngineOK, DmaType, Never, RunType, InLoop
  <2>4. Driven /\ dma' = dma
    BY <2>1 DEF vlab_test_dma_complete_return, HardwareIdle
  <2>5. CASE ~dma.busy
    <3>1. Need(0) = 0
      BY <2>5 DEF Need
    <3>2. hist.need # Never /\ run.n = hist.need
      BY <2>2, <2>3, <3>1 DEF InLoop
    <3> QED BY <2>4, <2>5, <3>2 DEF HookStep
  <2>6. CASE dma.busy
    <3>1. run.n = MaxPolls
      BY <2>2, <2>3, <2>4, <2>6
    <3>2. Need(0) = Never \/ Need(0) >= 1
      BY <2>3, <2>6 DEF Need
    <3>3. hist.need = Never
      BY <2>2, <2>3, <3>1, <3>2 DEF InLoop
    <3> QED BY <3>1, <3>3 DEF HookStep
  <2> QED BY <2>5, <2>6
<1>2. MCSpec => [][HookStep]_vars
  BY <1>1, SocInvariance, PTL DEF MCSpec
<1> QED BY <1>2 DEF HookStep, HookDrivesToEnd

(* A saturating append is a concatenation that is cut, and cutting early   *)
(* makes no difference.                                                    *)
LEMMA CutFacts ==
  ASSUME NEW x \in Seq(Bytes)
  PROVE  /\ Cut(x) \in Seq(Bytes)
         /\ Len(Cut(x)) = SmallerOf(Len(x), SOC_UART_DMA_FIFO_SIZE)
         /\ Len(Cut(x)) \in Nat
         /\ \A i \in 1 .. Len(Cut(x)) : Cut(x)[i] = x[i]
<1> DEFINE n == SmallerOf(Len(x), SOC_UART_DMA_FIFO_SIZE)
<1>1. n \in Nat /\ n <= Len(x) /\ Len(x) \in Nat
  BY UartAssumption DEF SmallerOf
<1>2. Cut(x) = SubSeq(x, 1, n)
  BY DEF Cut
<1> HIDE DEF n
<1>3. \A i \in 1 .. n : x[i] \in Bytes
  BY <1>1
<1>4. /\ SubSeq(x, 1, n) \in Seq(Bytes)
      /\ Len(SubSeq(x, 1, n)) = IF 1 <= n THEN n - 1 + 1 ELSE 0
      /\ \A i \in 1 .. n - 1 + 1 : SubSeq(x, 1, n)[i] = x[1 + i - 1]
  BY <1>1, <1>3, SubSeqProperties
<1>5. Len(SubSeq(x, 1, n)) = n
  BY <1>1, <1>4
<1>6. \A i \in 1 .. n : SubSeq(x, 1, n)[i] = x[i]
  BY <1>1, <1>4
<1> QED BY <1>1, <1>2, <1>4, <1>5, <1>6 DEF n

(* A stream that fits is not cut. *)
LEMMA CutShort ==
  ASSUME NEW x \in Seq(Bytes), Len(x) <= SOC_UART_DMA_FIFO_SIZE
  PROVE  Cut(x) = x
<1>1. Len(Cut(x)) = Len(x)
  BY CutFacts DEF SmallerOf
<1> QED BY <1>1, CutFacts, SeqEqual

(* Cutting before an append makes no difference after it. *)
LEMMA CutOnce ==
  ASSUME NEW x \in Seq(Bytes), NEW b \in Seq(Bytes)
  PROVE  Cut(Cut(x) \o b) = Cut(x \o b)
<1> DEFINE c == Cut(x)
           y == Cut(c \o b)
           z == Cut(x \o b)
           N == SOC_UART_DMA_FIFO_SIZE
<1>1. /\ N \in Nat /\ Len(x) \in Nat /\ Len(b) \in Nat
      /\ c \in Seq(Bytes) /\ Len(c) = SmallerOf(Len(x), N)
      /\ \A i \in 1 .. Len(c) : c[i] = x[i]
  <2>1. N \in Nat /\ Len(x) \in Nat /\ Len(b) \in Nat
    BY UartAssumption
  <2>2. /\ c \in Seq(Bytes) /\ Len(c) = SmallerOf(Len(x), N)
        /\ \A i \in 1 .. Len(c) : c[i] = x[i]
    BY CutFacts
  <2> QED BY <2>1, <2>2
<1> HIDE DEF c
<1>2. /\ c \o b \in Seq(Bytes) /\ Len(c \o b) = Len(c) + Len(b)
      /\ \A i \in 1 .. Len(c) + Len(b) :
           (c \o b)[i] = IF i <= Len(c) THEN c[i] ELSE b[i - Len(c)]
  BY <1>1, ConcatProperties
<1>3. /\ x \o b \in Seq(Bytes) /\ Len(x \o b) = Len(x) + Len(b)
      /\ \A i \in 1 .. Len(x) + Len(b) :
           (x \o b)[i] = IF i <= Len(x) THEN x[i] ELSE b[i - Len(x)]
  BY <1>1, ConcatProperties
<1>4. /\ y \in Seq(Bytes) /\ Len(y) = SmallerOf(Len(c) + Len(b), N)
      /\ \A i \in 1 .. Len(y) : y[i] = (c \o b)[i]
  BY <1>2, CutFacts
<1>5. /\ z \in Seq(Bytes) /\ Len(z) = SmallerOf(Len(x) + Len(b), N)
      /\ \A i \in 1 .. Len(z) : z[i] = (x \o b)[i]
  BY <1>3, CutFacts
<1> HIDE DEF y, z, N
<1>6. Len(y) = Len(z) /\ Len(y) \in Nat
  BY <1>1, <1>4, <1>5 DEF SmallerOf
<1>7. ASSUME NEW i \in 1 .. Len(y) PROVE y[i] = z[i]
  <2>1. i \in 1 .. Len(c) + Len(b) /\ i \in 1 .. Len(x) + Len(b) /\ i <= N
    BY <1>1, <1>4, <1>5, <1>6 DEF SmallerOf
  <2>2. y[i] = (IF i <= Len(c) THEN c[i] ELSE b[i - Len(c)])
    BY <1>2, <1>4, <2>1
  <2>3. z[i] = (IF i <= Len(x) THEN x[i] ELSE b[i - Len(x)])
    BY <1>3, <1>5, <1>6, <2>1
  <2>4. CASE Len(x) <= N
    BY <1>1, <2>1, <2>2, <2>3, <2>4 DEF SmallerOf
  <2>5. CASE Len(x) > N
    BY <1>1, <2>1, <2>2, <2>3, <2>5 DEF SmallerOf
  <2> QED BY <1>1, <2>4, <2>5
<1>8. y = z
  BY <1>4, <1>5, <1>6, <1>7, SeqEqual
<1> QED BY <1>8 DEF c, y, z

(* The append of soc_uart.c is the cut of the concatenation. *)
LEMMA SaturatingCuts ==
  ASSUME NEW f \in Seq(Bytes), NEW b \in Seq(Bytes),
         Len(f) <= SOC_UART_DMA_FIFO_SIZE
  PROVE  Saturating(f, b) = Cut(f \o b)
<1> DEFINE N == SOC_UART_DMA_FIFO_SIZE
           n == SmallerOf(Len(b), N - Len(f))
           c == SubSeq(b, 1, n)
           y == f \o c
           z == Cut(f \o b)
<1>1. /\ n \in Nat /\ n <= Len(b) /\ Len(f) \in Nat /\ Len(b) \in Nat
      /\ Len(f) + n = SmallerOf(Len(f) + Len(b), N) /\ N \in Nat
  BY UartAssumption DEF SmallerOf
<1>2. Saturating(f, b) = y
  BY DEF Saturating
<1> HIDE DEF n, N
<1>3. /\ c \in Seq(Bytes) /\ Len(c) = n /\ \A i \in 1 .. n : c[i] = b[i]
  <2>1. \A i \in 1 .. n : b[i] \in Bytes
    BY <1>1
  <2>2. /\ c \in Seq(Bytes) /\ Len(c) = IF 1 <= n THEN n - 1 + 1 ELSE 0
        /\ \A i \in 1 .. n - 1 + 1 : c[i] = b[1 + i - 1]
    BY <1>1, <2>1, SubSeqProperties
  <2> HIDE DEF c
  <2> QED BY <1>1, <2>2
<1> HIDE DEF c
<1>4. /\ y \in Seq(Bytes) /\ Len(y) = Len(f) + n
      /\ \A i \in 1 .. Len(f) + n :
           y[i] = IF i <= Len(f) THEN f[i] ELSE c[i - Len(f)]
  BY <1>3, ConcatProperties
<1>5. /\ f \o b \in Seq(Bytes) /\ Len(f \o b) = Len(f) + Len(b)
      /\ \A i \in 1 .. Len(f) + Len(b) :
           (f \o b)[i] = IF i <= Len(f) THEN f[i] ELSE b[i - Len(f)]
  BY ConcatProperties
<1>6. /\ z \in Seq(Bytes) /\ Len(z) = SmallerOf(Len(f) + Len(b), N)
      /\ \A i \in 1 .. Len(z) : z[i] = (f \o b)[i]
  BY <1>5, CutFacts DEF N
<1> HIDE DEF y, z
<1>7. Len(y) = Len(z)
  BY <1>1, <1>4, <1>6
<1>8. ASSUME NEW i \in 1 .. Len(y) PROVE y[i] = z[i]
  <2>1. i \in 1 .. Len(f) + n /\ i \in 1 .. Len(f) + Len(b)
    BY <1>1, <1>4
  <2>2. y[i] = (IF i <= Len(f) THEN f[i] ELSE c[i - Len(f)])
    BY <1>4, <2>1
  <2>3. z[i] = (IF i <= Len(f) THEN f[i] ELSE b[i - Len(f)])
    BY <1>5, <1>6, <1>7, <2>1
  <2>4. i > Len(f) => c[i - Len(f)] = b[i - Len(f)]
    <3>1. i > Len(f) => i - Len(f) \in 1 .. n
      BY <1>1, <2>1
    <3> QED BY <1>3, <3>1
  <2> QED BY <1>1, <2>1, <2>2, <2>3, <2>4
<1>9. y = z
  BY <1>4, <1>6, <1>7, <1>8, SeqEqual
<1> QED BY <1>2, <1>9 DEF z

(* The streams as the DMA finds them, behind the byte sent in this tick. *)
LEMMA StreamsNow ==
  ASSUME HwOK
  PROVE  /\ InFlight \in Seq(Bytes)
         /\ uart.tx_fifo \in Seq(Bytes) /\ uart.rx_fifo \in Seq(Bytes)
         /\ UartNow.tx_fifo = Cut(uart.tx_fifo \o InFlight)
         /\ UartNow.rx_fifo = Cut(uart.rx_fifo \o InFlight)
<1>1. /\ UartOK(uart) /\ uart.tx_fifo \in Seq(Bytes) /\ uart.rx_fifo \in Seq(Bytes)
      /\ Len(uart.tx_fifo) <= SOC_UART_DMA_FIFO_SIZE
      /\ Len(uart.rx_fifo) <= SOC_UART_DMA_FIFO_SIZE
  BY DEF HwOK, UartOK, UartType
<1>2. /\ Sending(uart) \in Seq(Bytes)
      /\ UartSends(uart) =>
           /\ UartNow.tx_fifo = Saturating(uart.tx_fifo, Sending(uart))
           /\ UartNow.rx_fifo = Saturating(uart.rx_fifo, Sending(uart))
      /\ ~UartSends(uart) =>
           /\ UartNow.tx_fifo = uart.tx_fifo /\ UartNow.rx_fifo = uart.rx_fifo
  BY <1>1, UartStepFacts DEF UartNow
<1>3. InFlight = Sending(uart)
  BY DEF InFlight, Sending
<1>4. CASE UartSends(uart)
  BY <1>1, <1>2, <1>3, <1>4, SaturatingCuts
<1>5. CASE ~UartSends(uart)
  <2>1. InFlight = <<>>
    BY <1>5 DEF InFlight
  <2>2. /\ uart.tx_fifo \o <<>> = uart.tx_fifo
        /\ uart.rx_fifo \o <<>> = uart.rx_fifo
    BY <1>1, ConcatEmptySeq
  <2>3. Cut(uart.tx_fifo) = uart.tx_fifo /\ Cut(uart.rx_fifo) = uart.rx_fifo
    BY <1>1, CutShort
  <2> QED BY <1>1, <1>2, <1>3, <1>5, <2>1, <2>2, <2>3
<1> QED BY <1>4, <1>5

(* The bytes of a finished transfer are where they belong, for every       *)
(* source, destination, length and size of the streams: a copy within SRAM *)
(* is a memmove even when it overlaps, and the streams keep the order in   *)
(* which the UART and the DMA feed them (soc.c:150-152).                   *)
Payload == [k \in 1 .. dma.length |-> Moved(k - 1)]

ArrivesStep ==
  (dma.busy /\ dma'.done) =>
    /\ uart'.tx_fifo =
         Cut(uart.tx_fifo \o InFlight \o
             (IF dma.dst = TXDATA
              THEN [k \in 1 .. dma.length |-> Moved(k - 1)] ELSE <<>>))
    /\ \A o \in DOMAIN sram :
         LET k == o + SramRegion.base - dma.dst
         IN  sram'[o] = IF dma.dst # TXDATA /\ k \in 0 .. dma.length - 1
                        THEN Moved(k) ELSE sram[o]

(* What the reader delivers is what DataArrives calls Moved. *)
LEMMA PayloadIs ==
  ASSUME HwOK, ReaderOK(dma)
  PROVE  soc_dma_reader_bridge(dma, UartNow, sram) = Payload
<1> DEFINE n == dma.length
           z == SramRegion.base
           f == UartNow.rx_fifo
<1>1. n \in Nat /\ dma.src \in Nat /\ z \in Nat
  <2>1. dma \in DmaType
    BY DEF HwOK, EngineOK
  <2> QED BY <2>1, SramFacts, WidthAssumption DEF DmaType, Uint32
<1>2. f = Cut(uart.rx_fifo \o InFlight) /\ Len(f) \in Nat
  <2>1. uart.rx_fifo \o InFlight \in Seq(Bytes)
    BY StreamsNow, ConcatProperties
  <2> QED BY <2>1, StreamsNow, CutFacts
<1>3. CASE dma.src = RXDATA
  <2>1. soc_dma_reader_bridge(dma, UartNow, sram)
          = [k \in 1 .. n |-> IF k <= Len(f) THEN f[k] ELSE 0]
    BY <1>3 DEF soc_dma_reader_bridge, RxDrained
  <2>2. ASSUME NEW k \in 1 .. n
        PROVE  Moved(k - 1) = IF k <= Len(f) THEN f[k] ELSE 0
    <3>1. Moved(k - 1) = IF k - 1 < Len(f) THEN f[k - 1 + 1] ELSE 0
      BY <1>2, <1>3 DEF Moved
    <3>2. k - 1 + 1 = k /\ (k - 1 < Len(f) <=> k <= Len(f))
      BY <1>1, <1>2
    <3> QED BY <3>1, <3>2
  <2> HIDE DEF n, f
  <2> QED BY <2>1, <2>2 DEF Payload, n
<1>4. CASE dma.src # RXDATA
  <2>1. soc_dma_reader_bridge(dma, UartNow, sram)
          = [k \in 1 .. n |-> sram[dma.src - z + k - 1]]
    BY <1>4 DEF soc_dma_reader_bridge, soc_mem_read_bytes
  <2>2. ASSUME NEW k \in 1 .. n
        PROVE  Moved(k - 1) = sram[dma.src - z + k - 1]
    <3>1. Moved(k - 1) = sram[dma.src - z + (k - 1)]
      BY <1>4 DEF Moved
    <3>2. dma.src - z + (k - 1) = dma.src - z + k - 1
      BY <1>1
    <3> QED BY <3>1, <3>2
  <2> HIDE DEF n, z
  <2> QED BY <2>1, <2>2 DEF Payload, n
<1> QED BY <1>3, <1>4

(* A tick that ends with DONE has written the payload at DST. *)
LEMMA DoneArrives ==
  ASSUME HwOK, soc_dma_step_done(UartNow, IntcNow)
  PROVE  ArrivesStep
<1> DEFINE b == soc_dma_reader_bridge(dma, UartNow, sram)
           v == UartAfterRead(dma, UartNow)
           x == uart.tx_fifo \o InFlight
<1>1. /\ ReaderOK(dma)
      /\ uart' = IF dma.dst = TXDATA THEN soc_uart_dma_tx_append(v, b) ELSE v
      /\ sram' = IF dma.dst = TXDATA THEN sram
                 ELSE soc_mem_write_bytes(sram, dma.dst, b)
  BY DEF soc_dma_step_done
<1>2. UartOK(UartNow)
  BY NowFacts
<1>3. b \in Seq(Bytes) /\ Len(b) = dma.length /\ b = Payload
  BY <1>1, <1>2, PayloadFacts, PayloadIs
<1>4. /\ dma.length \in Nat /\ dma.dst \in Nat /\ SramRegion.base \in Nat
      /\ sram \in [0 .. SramRegion.size - 1 -> Bytes] /\ SramRegion.size \in Nat
  <2>1. dma \in DmaType /\ sram \in SramType
    BY DEF HwOK, EngineOK
  <2> QED BY <2>1, SramFacts, WidthAssumption DEF DmaType, Uint32, SramType
<1>5. UartOK(v) /\ v.tx_fifo = UartNow.tx_fifo
  BY <1>2, <1>4, DrainOK DEF UartAfterRead
<1>6. x \in Seq(Bytes) /\ UartNow.tx_fifo = Cut(x)
  BY StreamsNow, ConcatProperties
<1> HIDE DEF b, v, x
<1>7. uart'.tx_fifo = Cut(x \o (IF dma.dst = TXDATA THEN Payload ELSE <<>>))
  <2>1. CASE dma.dst = TXDATA
    <3>1. uart'.tx_fifo = Saturating(Cut(x), b)
      BY <1>1, <1>3, <1>5, <1>6, <2>1, AppendOK
    <3>2. Cut(x) \in Seq(Bytes) /\ Len(Cut(x)) <= SOC_UART_DMA_FIFO_SIZE
      BY <1>2, <1>6 DEF UartOK, UartType
    <3>3. Saturating(Cut(x), b) = Cut(Cut(x) \o b)
      BY <1>3, <3>2, SaturatingCuts
    <3>4. Cut(Cut(x) \o b) = Cut(x \o b)
      BY <1>3, <1>6, CutOnce
    <3> QED BY <1>3, <2>1, <3>1, <3>3, <3>4
  <2>2. CASE dma.dst # TXDATA
    <3>1. uart'.tx_fifo = Cut(x)
      BY <1>1, <1>5, <1>6, <2>2
    <3>2. x \o <<>> = x
      BY <1>6, ConcatEmptySeq
    <3> QED BY <2>2, <3>1, <3>2
  <2> QED BY <2>1, <2>2
<1>8. ASSUME NEW o \in DOMAIN sram
      PROVE  LET k == o + SramRegion.base - dma.dst
             IN  sram'[o] = IF dma.dst # TXDATA /\ k \in 0 .. dma.length - 1
                            THEN Moved(k) ELSE sram[o]
  <2> DEFINE k   == o + SramRegion.base - dma.dst
             off == dma.dst - SramRegion.base
  <2>1. CASE dma.dst = TXDATA
    BY <1>1, <2>1
  <2>2. CASE dma.dst # TXDATA
    <3>1. sram'[o] = IF o \in off .. off + Len(b) - 1 THEN b[o - off + 1]
                     ELSE sram[o]
      BY <1>1, <2>2 DEF soc_mem_write_bytes
    <3>2. o \in Int
      BY <1>4
    <3>3. /\ k \in Int /\ o - off + 1 = k + 1
          /\ o \in off .. off + Len(b) - 1 <=> k \in 0 .. dma.length - 1
      <4> DEFINE base == SramRegion.base
                 dst  == dma.dst
                 len  == dma.length
      <4>1. base \in Int /\ dst \in Int /\ len \in Nat /\ Len(b) = len
        BY <1>3, <1>4
      <4> HIDE DEF base, dst, len
      <4>2. /\ o + (base - dst) \in Int
            /\ o - (dst - base) + 1 = (o + (base - dst)) + 1
            /\ o \in dst - base .. (dst - base) + Len(b) - 1
                 <=> o + (base - dst) \in 0 .. len - 1
        BY <3>2, <4>1
      <4>3. k = o + (base - dst) /\ off = dst - base
        BY DEF base, dst
      <4> HIDE DEF k, off
      <4> QED BY <4>2, <4>3 DEF len
    <3> HIDE DEF k, off
    <3>4. k \in 0 .. dma.length - 1 => b[k + 1] = Moved(k)
      <4>1. k \in 0 .. dma.length - 1 => k + 1 \in 1 .. dma.length /\ (k + 1) - 1 = k
        BY <1>4, <3>3
      <4> QED BY <1>3, <4>1 DEF Payload
    <3>5. sram'[o] = IF k \in 0 .. dma.length - 1 THEN Moved(k) ELSE sram[o]
      BY <3>1, <3>3, <3>4
    <3> QED BY <2>2, <3>5 DEF k
  <2> QED BY <2>1, <2>2
<1> QED BY <1>7, <1>8 DEF ArrivesStep, x, Payload

(* The bytes of a transfer arrive (soc_dma.c:191-230, soc.c:144-152): for  *)
(* every pair of ends, every length and every state of the streams, a      *)
(* transfer that ends with DONE has moved exactly what it read, overlaps   *)
(* included, and left the rest of SRAM and the stream alone.               *)
THEOREM SocDataArrives == MCSpec => DataArrives
<1>1. SocInv /\ MCNext => ArrivesStep
  <2> SUFFICES ASSUME SocInv, MCNext, dma.busy /\ dma'.done
               PROVE  ArrivesStep
    BY DEF ArrivesStep
  <2>1. HwOK /\ soc_dma_step_done(UartNow, IntcNow)
    BY NextOK DEF StepOK, SocInv
  <2> QED BY <2>1, DoneArrives
<1>2. MCSpec => [][ArrivesStep]_vars
  BY <1>1, SocInvariance, PTL DEF MCSpec
<1> QED BY <1>2, PTL DEF ArrivesStep, DataArrives

(* The driver calls against what the component modules say of them. *)
LEMMA NoStall ==
  ASSUME HwOK
  PROVE  Count(perf, "STALLS", 0).STALLS = perf.STALLS
<1>1. "STALLS" \in PerfCounters /\ 0 \in Nat /\ perf \in PerfType
  BY DEF PerfCounters, HwOK
<1>2. perf.STALLS \in Counter
  BY <1>1 DEF PerfType
<1>3. Bump(perf.STALLS, 0) = perf.STALLS
  BY <1>2, CounterModAssumption DEF Bump, Counter
<1> QED BY <1>1, <1>3, CountFacts

(* A call that adds no stall does what its board without the counters      *)
(* says.                                                                   *)
LEMMA DoesBoard ==
  ASSUME HwOK, NEW u, NEW t, NEW d, NEW ic, NEW p, NEW m, NEW r,
         p.STALLS = perf.STALLS
  PROVE  Does(Board(u, t, d, ic, p, m, r), Board(u, t, d, ic, perf, m, r))
<1> DEFINE b == Board(u, t, d, ic, p, m, r)
<1>1. b.perf = p
  BY BoardParts
<1>2. [b EXCEPT !.perf = perf] = Board(u, t, d, ic, perf, m, r)
  BY DEF Board
<1> HIDE DEF b
<1>3. Does(b, Board(u, t, d, ic, perf, m, r))
  BY <1>1, <1>2, NoStall DEF Does, Besides, StallsAdded
<1> QED BY <1>3 DEF b

(* The hardware with one part replaced. *)
LEMMA HwWith ==
  ASSUME NEW x
  PROVE  /\ [Hw EXCEPT !.uart = x] = Board(x, timer, dma, intc, perf, sram, rom)
         /\ [Hw EXCEPT !.timer = x] = Board(uart, x, dma, intc, perf, sram, rom)
         /\ [Hw EXCEPT !.dma = x] = Board(uart, timer, x, intc, perf, sram, rom)
         /\ [Hw EXCEPT !.intc = x] = Board(uart, timer, dma, x, perf, sram, rom)
         /\ Hw.uart = uart /\ Hw.timer = timer /\ Hw.dma = dma /\ Hw.intc = intc
BY DEF Hw, Board

(* Accesses and interrupts add no stall. *)
LEMMA QuietCounters ==
  ASSUME HwOK
  PROVE  /\ Acc(perf).STALLS = perf.STALLS
         /\ Acc(Acc(perf)).STALLS = perf.STALLS
         /\ Acc(Acc(Acc(perf))).STALLS = perf.STALLS
         /\ Acc(Acc(Acc(Acc(Acc(perf))))).STALLS = perf.STALLS
         /\ Count(Acc(perf), "IRQ_COUNT", 1).STALLS = perf.STALLS
         /\ Count(Acc(Acc(perf)), "MEM_ACC", TxPolls - 1).STALLS = perf.STALLS
<1>1. \A p \in PerfType : Acc(p) \in PerfType /\ Acc(p).STALLS = p.STALLS
  BY AccFacts
<1>2. /\ "STALLS" \in PerfCounters \ {"IRQ_COUNT", "MEM_ACC"}
      /\ "IRQ_COUNT" \in PerfCounters /\ "MEM_ACC" \in PerfCounters
      /\ TxPolls - 1 \in Nat /\ 1 \in Nat /\ perf \in PerfType
  BY SocAssumption DEF PerfCounters, HwOK
<1>3. ASSUME NEW p \in PerfType, NEW c \in {"IRQ_COUNT", "MEM_ACC"}, NEW n \in Nat
      PROVE  Count(p, c, n).STALLS = p.STALLS
  <2>1. c \in PerfCounters /\ "STALLS" \in PerfCounters \ {c}
    BY <1>2
  <2>2. \A k \in PerfCounters \ {c} : Count(p, c, n)[k] = p[k]
    BY <2>1, CountFacts
  <2> QED BY <2>1, <2>2
<1> QED BY <1>1, <1>2, <1>3

(* The timer driver. *)
LEMMA TimerDoes ==
  ASSUME HwOK
  PROVE  /\ \A load \in TimerLoads \ {0} :
              Does(timer_start(Hw, load, FALSE, TRUE),
                   [Hw EXCEPT !.timer = T!soc_timer_write_ctrl(
                      T!soc_timer_write_load(@, load), TRUE, FALSE, TRUE)])
         /\ Does(timer_stop(Hw),
                 [Hw EXCEPT !.timer =
                    T!soc_timer_write_ctrl(@, FALSE, FALSE, FALSE)])
         /\ Does(timer_clear(Hw),
                 [Hw EXCEPT !.timer = T!soc_timer_write_clear(@)])
<1>1. ASSUME NEW load \in TimerLoads \ {0}
      PROVE  Does(OneShot(Hw, load),
                  [Hw EXCEPT !.timer = TimerOn(T!soc_timer_write_load(@, load))])
  <2> DEFINE t == TimerOn(T!soc_timer_write_load(timer, load))
  <2>1. OneShot(Hw, load) = Board(uart, t, dma, intc, Acc(Acc(perf)), sram, rom)
    BY HwIsBoard, CallTimerStart
  <2>2. [Hw EXCEPT !.timer = t] = Board(uart, t, dma, intc, perf, sram, rom)
    BY HwWith
  <2>3. [Hw EXCEPT !.timer = TimerOn(T!soc_timer_write_load(@, load))]
          = [Hw EXCEPT !.timer = t]
    BY HwWith
  <2> HIDE DEF t
  <2> QED BY <2>1, <2>2, <2>3, QuietCounters, DoesBoard
<1>2. Does(timer_stop(Hw), [Hw EXCEPT !.timer = TimerOff(@)])
  <2> DEFINE t == TimerOff(timer)
  <2>1. timer_stop(Hw) = Board(uart, t, dma, intc, Acc(perf), sram, rom)
    BY HwIsBoard, WriteTimerOff DEF timer_stop
  <2>2. [Hw EXCEPT !.timer = t] = Board(uart, t, dma, intc, perf, sram, rom)
    BY HwWith
  <2>3. [Hw EXCEPT !.timer = TimerOff(@)] = [Hw EXCEPT !.timer = t]
    BY HwWith
  <2> HIDE DEF t
  <2> QED BY <2>1, <2>2, <2>3, QuietCounters, DoesBoard
<1>3. Does(timer_clear(Hw), [Hw EXCEPT !.timer = T!soc_timer_write_clear(@)])
  <2> DEFINE t == T!soc_timer_write_clear(timer)
  <2>1. timer_clear(Hw) = Board(uart, t, dma, intc, Acc(perf), sram, rom)
    BY HwIsBoard, WriteTimerClear DEF timer_clear
  <2>2. [Hw EXCEPT !.timer = t] = Board(uart, t, dma, intc, perf, sram, rom)
    BY HwWith
  <2>3. [Hw EXCEPT !.timer = T!soc_timer_write_clear(@)] = [Hw EXCEPT !.timer = t]
    BY HwWith
  <2> HIDE DEF t
  <2> QED BY <2>1, <2>2, <2>3, QuietCounters, DoesBoard
<1> QED BY <1>1, <1>2, <1>3 DEF OneShot, TimerOn, TimerOff

(* The interrupt controller. *)
LEMMA IntcDoes ==
  ASSUME HwOK
  PROVE  /\ \A mask : Does(intc_enable(Hw, mask),
                           [Hw EXCEPT !.intc = soc_intc_write_enable(@, mask)])
         /\ Does(intc_ack(Hw), [Hw EXCEPT !.intc = soc_intc_ack(@)])
         /\ \A l : Does(intc_clear(Hw, l),
                        [Hw EXCEPT !.intc = soc_intc_write_clear(@, l)])
<1>1. ASSUME NEW mask
      PROVE  Does(intc_enable(Hw, mask),
                  [Hw EXCEPT !.intc = soc_intc_write_enable(@, mask)])
  <2> DEFINE k == soc_intc_write_enable(intc, mask)
  <2>1. intc_enable(Hw, mask) = Board(uart, timer, dma, k, Acc(perf), sram, rom)
    BY HwIsBoard, WriteEnable DEF intc_enable
  <2>2. [Hw EXCEPT !.intc = k] = Board(uart, timer, dma, k, perf, sram, rom)
    BY HwWith
  <2>3. [Hw EXCEPT !.intc = soc_intc_write_enable(@, mask)] = [Hw EXCEPT !.intc = k]
    BY HwWith
  <2> HIDE DEF k
  <2> QED BY <2>1, <2>2, <2>3, QuietCounters, DoesBoard
<1>2. Does(intc_ack(Hw), [Hw EXCEPT !.intc = soc_intc_ack(@)])
  <2> DEFINE k == soc_intc_ack(intc)
             q == IF soc_intc_highest(intc) = IRQ_NONE THEN Acc(perf)
                  ELSE Count(Acc(perf), "IRQ_COUNT", 1)
  <2>1. intc_ack(Hw) = Board(uart, timer, dma, k, q, sram, rom)
    BY HwIsBoard, CallIntcAck
  <2>2. [Hw EXCEPT !.intc = k] = Board(uart, timer, dma, k, perf, sram, rom)
    BY HwWith
  <2>3. [Hw EXCEPT !.intc = soc_intc_ack(@)] = [Hw EXCEPT !.intc = k]
    BY HwWith
  <2>4. q.STALLS = perf.STALLS
    BY QuietCounters
  <2> HIDE DEF k, q
  <2> QED BY <2>1, <2>2, <2>3, <2>4, DoesBoard
<1>3. ASSUME NEW l
      PROVE  Does(intc_clear(Hw, l),
                  [Hw EXCEPT !.intc = soc_intc_write_clear(@, l)])
  <2> DEFINE k == soc_intc_write_clear(intc, l)
  <2>1. intc_clear(Hw, l) = Board(uart, timer, dma, k, Acc(perf), sram, rom)
    BY HwIsBoard, WriteClear DEF intc_clear
  <2>2. [Hw EXCEPT !.intc = k] = Board(uart, timer, dma, k, perf, sram, rom)
    BY HwWith
  <2>3. [Hw EXCEPT !.intc = soc_intc_write_clear(@, l)] = [Hw EXCEPT !.intc = k]
    BY HwWith
  <2> HIDE DEF k
  <2> QED BY <2>1, <2>2, <2>3, QuietCounters, DoesBoard
<1> QED BY <1>1, <1>2, <1>3

(* The UART driver. *)
LEMMA UartDoes ==
  ASSUME HwOK
  PROVE  /\ \A b \in Bytes :
              Does(uart_write_byte(Hw, b),
                   IF uart.busy > 0 THEN Hw
                   ELSE [Hw EXCEPT !.uart = soc_uart_write_txdata(@, b, UartLatency)])
         /\ Does(uart_read_byte(Hw), [Hw EXCEPT !.uart = soc_uart_read_rxdata(@)])
<1>1. uart \in UartType
  BY HwFacts
<1>2. ASSUME NEW b \in Bytes
      PROVE  Does(uart_write_byte(Hw, b),
                  IF uart.busy > 0 THEN Hw
                  ELSE [Hw EXCEPT !.uart = soc_uart_write_txdata(@, b, UartLatency)])
  <2> DEFINE u == soc_uart_write_txdata(uart, b, UartLatency)
             q == Count(Acc(Acc(perf)), "MEM_ACC", TxPolls - 1)
  <2>1. uart_write_byte(Hw, b)
          = IF ~uart.enabled THEN Board(uart, timer, dma, intc, Acc(perf), sram, rom)
            ELSE IF ~(uart.busy > 0)
            THEN Board(u, timer, dma, intc, Acc(Acc(Acc(perf))), sram, rom)
            ELSE Board(uart, timer, dma, intc, q, sram, rom)
    BY <1>1, HwIsBoard, CallUartWrite
  <2>2. [Hw EXCEPT !.uart = u] = Board(u, timer, dma, intc, perf, sram, rom)
    BY HwWith
  <2>3. [Hw EXCEPT !.uart = soc_uart_write_txdata(@, b, UartLatency)]
          = [Hw EXCEPT !.uart = u]
    BY HwWith
  <2>4. ~uart.enabled => u = uart
    BY DEF soc_uart_write_txdata
  <2>5. q.STALLS = perf.STALLS
    BY QuietCounters
  <2> HIDE DEF u, q
  <2>6. /\ Does(Board(uart, timer, dma, intc, Acc(perf), sram, rom),
                Board(uart, timer, dma, intc, perf, sram, rom))
        /\ Does(Board(u, timer, dma, intc, Acc(Acc(Acc(perf))), sram, rom),
                Board(u, timer, dma, intc, perf, sram, rom))
        /\ Does(Board(uart, timer, dma, intc, q, sram, rom),
                Board(uart, timer, dma, intc, perf, sram, rom))
    BY <2>5, QuietCounters, DoesBoard
  <2>7. CASE ~uart.enabled
    BY <2>1, <2>2, <2>3, <2>4, <2>6, <2>7, HwIsBoard
  <2>8. CASE uart.enabled /\ ~(uart.busy > 0)
    BY <2>1, <2>2, <2>3, <2>6, <2>8
  <2>9. CASE uart.enabled /\ uart.busy > 0
    BY <2>1, <2>6, <2>9, HwIsBoard
  <2> QED BY <2>7, <2>8, <2>9
<1>3. Does(uart_read_byte(Hw), [Hw EXCEPT !.uart = soc_uart_read_rxdata(@)])
  <2> DEFINE u == soc_uart_read_rxdata(uart)
  <2>1. uart_read_byte(Hw)
          = IF uart.rx_valid THEN Board(u, timer, dma, intc, Acc(Acc(perf)), sram, rom)
            ELSE Board(uart, timer, dma, intc, Acc(perf), sram, rom)
    BY <1>1, HwIsBoard, CallUartRead
  <2>2. [Hw EXCEPT !.uart = u] = Board(u, timer, dma, intc, perf, sram, rom)
    BY HwWith
  <2>3. [Hw EXCEPT !.uart = soc_uart_read_rxdata(@)] = [Hw EXCEPT !.uart = u]
    BY HwWith
  <2>4. ~uart.rx_valid => u = uart
    BY <1>1 DEF soc_uart_read_rxdata, UartType
  <2> HIDE DEF u
  <2>5. /\ Does(Board(u, timer, dma, intc, Acc(Acc(perf)), sram, rom),
                Board(u, timer, dma, intc, perf, sram, rom))
        /\ Does(Board(uart, timer, dma, intc, Acc(perf), sram, rom),
                Board(uart, timer, dma, intc, perf, sram, rom))
    BY QuietCounters, DoesBoard
  <2> QED BY <2>1, <2>2, <2>3, <2>4, <2>5
<1> QED BY <1>2, <1>3

(* The DMA driver. *)
LEMMA DmaDoes ==
  ASSUME HwOK
  PROVE  /\ Does(dma_clear(Hw), [Hw EXCEPT !.dma = Cleared(@)])
         /\ Does(hal_modify_reg(Hw, "DMA", "CTRL", {"IRQ_ENABLE"}, {}),
                 [Hw EXCEPT !.dma.ctrl = {}])
         /\ \A t \in Transfers, irq \in BOOLEAN :
              LET d    == [dma EXCEPT !.src = t[1], !.dst = t[2], !.length = t[3]]
                  code == soc_dma_start_code(Platform, t[1], t[2], t[3])
              IN  Does(dma_start(Hw, t[1], t[2], t[3], irq),
                       IF dma.busy \/ code # "OK" THEN Hw
                       ELSE [Hw EXCEPT !.dma = soc_dma_write_start(d, irq)])
<1>1. Does(dma_clear(Hw), [Hw EXCEPT !.dma = Cleared(@)])
  <2> DEFINE e == Cleared(dma)
  <2>1. dma_clear(Hw) = Board(uart, timer, e, intc, Acc(perf), sram, rom)
    BY HwIsBoard, WriteDmaClear DEF dma_clear
  <2>2. [Hw EXCEPT !.dma = e] = Board(uart, timer, e, intc, perf, sram, rom)
    BY HwWith
  <2>3. [Hw EXCEPT !.dma = Cleared(@)] = [Hw EXCEPT !.dma = e]
    BY HwWith
  <2> HIDE DEF e
  <2> QED BY <2>1, <2>2, <2>3, QuietCounters, DoesBoard
<1>2. Does(hal_modify_reg(Hw, "DMA", "CTRL", {"IRQ_ENABLE"}, {}),
           [Hw EXCEPT !.dma.ctrl = {}])
  <2> DEFINE irq  == FALSE
             bits == IrqBit(irq)
             e    == [dma EXCEPT !.ctrl = bits]
  <2>1. irq \in BOOLEAN /\ ("IRQ_ENABLE" \in {}) = irq
    OBVIOUS
  <2>5. bits = {}
    BY DEF IrqBit
  <2>6. "START" \notin dma.ctrl
    BY DEF HwOK, EngineOK
  <2> HIDE DEF irq
  <2>2. hal_modify_reg(Hw, "DMA", "CTRL", {"IRQ_ENABLE"}, {})
          = Board(uart, timer, e, intc, Acc(Acc(perf)), sram, rom)
    BY <2>1, <2>6, HwIsBoard, ModifyDma
  <2> HIDE DEF bits
  <2>3. [Hw EXCEPT !.dma.ctrl = bits] = Board(uart, timer, e, intc, perf, sram, rom)
    BY DEF Hw, Board
  <2> HIDE DEF e
  <2>4. Does(hal_modify_reg(Hw, "DMA", "CTRL", {"IRQ_ENABLE"}, {}),
             [Hw EXCEPT !.dma.ctrl = bits])
    BY <2>2, <2>3, QuietCounters, DoesBoard
  <2> QED BY <2>4, <2>5
<1>3. ASSUME NEW t \in Transfers, NEW irq \in BOOLEAN
      PROVE  LET d    == [dma EXCEPT !.src = t[1], !.dst = t[2], !.length = t[3]]
                 code == soc_dma_start_code(Platform, t[1], t[2], t[3])
             IN  Does(dma_start(Hw, t[1], t[2], t[3], irq),
                      IF dma.busy \/ code # "OK" THEN Hw
                      ELSE [Hw EXCEPT !.dma = soc_dma_write_start(d, irq)])
  <2> DEFINE e == soc_dma_write_start(Programmed(dma, t[1], t[2], t[3]), irq)
             q == Acc(Acc(Acc(Acc(Acc(perf)))))
             s == dma_start(Hw, t[1], t[2], t[3], irq)
             no == dma.busy \/ ~StartOK(t[1], t[2], t[3])
  <2>1. s = IF no THEN Board(uart, timer, dma, intc, Acc(perf), sram, rom)
            ELSE Board(uart, timer, e, intc, q, sram, rom)
    BY HwIsBoard, HwFacts, CallDmaStart
  <2>2. [Hw EXCEPT !.dma = e] = Board(uart, timer, e, intc, perf, sram, rom)
    BY HwWith
  <2>3. q.STALLS = perf.STALLS
    BY QuietCounters
  <2> HIDE DEF e, q, s, no
  <2>4. /\ Does(Board(uart, timer, dma, intc, Acc(perf), sram, rom),
                Board(uart, timer, dma, intc, perf, sram, rom))
        /\ Does(Board(uart, timer, e, intc, q, sram, rom),
                Board(uart, timer, e, intc, perf, sram, rom))
    BY <2>3, QuietCounters, DoesBoard
  <2>5. Does(s, IF no THEN Hw ELSE [Hw EXCEPT !.dma = e])
    BY <2>1, <2>2, <2>4, HwIsBoard
  <2> QED BY <2>5 DEF s, e, no, Programmed, StartOK
<1> QED BY <1>1, <1>2, <1>3

(* The drivers reach the registers they mean (firmware/drivers, hal): each *)
(* call does to its own peripheral what the component's module says of it, *)
(* touches no other and stalls nothing, for every register layout.         *)
THEOREM SocDriversHit == MCSpec => []DriversHitTheirRegisters
<1>1. SocInv => DriversHitTheirRegisters
  <2> SUFFICES ASSUME SocInv PROVE DriversHitTheirRegisters
    OBVIOUS
  <2>1. HwOK
    BY DEF SocInv
  <2> DEFINE irq == TRUE
  <2>2. irq \in BOOLEAN
    OBVIOUS
  <2> HIDE DEF irq
  <2>3. \A t \in Transfers :
          LET d    == [dma EXCEPT !.src = t[1], !.dst = t[2], !.length = t[3]]
              code == soc_dma_start_code(Platform, t[1], t[2], t[3])
          IN  Does(dma_start(Hw, t[1], t[2], t[3], irq),
                   IF dma.busy \/ code # "OK" THEN Hw
                   ELSE [Hw EXCEPT !.dma = soc_dma_write_start(d, irq)])
    BY <2>1, <2>2, DmaDoes
  <2> QED BY <2>1, <2>3, TimerDoes, IntcDoes, UartDoes, DmaDoes
          DEF DriversHitTheirRegisters, irq
<1> QED BY <1>1, SocInvariance, PTL

-----------------------------------------------------------------------------
(* Every access.  Which addresses are words of a memory and which are      *)
(* registers is what the decoder makes of them.                            *)

(* The words of ROM and SRAM are those decoded to regions 0 and 1. *)
LEMMA MemWordsDecode ==
  ASSUME NEW i \in {0, 1}, NEW addr \in Uint32
  PROVE  addr \in MemWords(Platform.map[i + 1])
           <=> addr % WordBytes = 0 /\ Route[addr] = i
<1>1. i \in 0 .. 6 /\ i # None
  BY DEF None
<1>2. ASSUME addr \in MemWords(Platform.map[i + 1])
      PROVE  addr % WordBytes = 0 /\ Route[addr] = i
  BY <1>1, <1>2, RouteOfWord DEF MemWords
<1>3. ASSUME addr % WordBytes = 0, Route[addr] = i
      PROVE  addr \in MemWords(Platform.map[i + 1])
  BY <1>1, <1>3, RouteRange DEF MemWords
<1> QED BY <1>2, <1>3

(* The SoC's table of registers names those of the firmware's. *)
LEMMA OffsetsAgree ==
  ASSUME NEW i \in 1 .. 5
  PROVE  /\ Windows[i] \in DOMAIN VlabRegs
         /\ \A j \in DOMAIN Windows : Windows[j] = Windows[i] => j = i
         /\ "hole" \notin DOMAIN VlabRegs[Windows[i]]
         /\ \A k \in DOMAIN SocOffsets[Windows[i]] :
              LET g == SocOffsets[Windows[i]][k]
              IN  /\ g \in DOMAIN VlabRegs[Windows[i]]
                  /\ VlabRegs[Windows[i]][g] = k - 1
<1>1. /\ Windows[1] = "UART" /\ Windows[2] = "TIMER" /\ Windows[3] = "DMA"
      /\ Windows[4] = "INTC" /\ Windows[5] = "PERF" /\ DOMAIN Windows = 1 .. 5
  BY DEF Windows
<1>2. i \in {1, 2, 3, 4, 5}
  OBVIOUS
<1>3. \A j \in DOMAIN Windows : Windows[j] = Windows[i] => j = i
  BY <1>1, <1>2
<1>4. CASE i = 1
  BY <1>1, <1>3, <1>4 DEF SocOffsets, SOC_UART_OFF, VlabRegs
<1>5. CASE i = 2
  BY <1>1, <1>3, <1>5 DEF SocOffsets, SOC_TIMER_OFF, VlabRegs
<1>6. CASE i = 3
  BY <1>1, <1>3, <1>6 DEF SocOffsets, SOC_DMA_OFF, VlabRegs
<1>7. CASE i = 4
  BY <1>1, <1>3, <1>7 DEF SocOffsets, SOC_INTC_OFF, VlabRegs
<1>8. CASE i = 5
  BY <1>1, <1>3, <1>8 DEF SocOffsets, SOC_PERF_OFF, VlabRegs
<1> QED BY <1>2, <1>4, <1>5, <1>6, <1>7, <1>8

(* An aligned address in a window is one of its registers or a hole. *)
LEMMA WindowWord ==
  ASSUME NEW addr \in Uint32, addr % WordBytes = 0, Route[addr] \in 2 .. 6
  PROVE  LET w == WindowAt(addr)
             g == RegisterAt[addr]
         IN  /\ w \in DOMAIN VlabRegs
             /\ "hole" \notin DOMAIN VlabRegs[w]
             /\ \/ g = "hole"
                \/ g \in DOMAIN VlabRegs[w] /\ addr = Vlab(w, g)
<1> DEFINE i    == Route[addr] - 1
           w    == Windows[i]
           g    == RegisterAt[addr]
           b    == Platform.map[i + 2].base
           regs == SocOffsets[w]
           word == (addr - b) \div WordBytes + 1
<1>1. i \in 1 .. 5 /\ Route[addr] + 1 = i + 2 /\ i + 2 \in 1 .. 7 /\ Route[addr] > 1
  OBVIOUS
<1>2. WindowAt(addr) = w
  BY DEF WindowAt
<1>3. /\ b \in Nat /\ b % WordBytes = 0 /\ WordBytes \in Nat \ {0}
      /\ addr \in Nat /\ addr >= b
  <2>1. Route[addr] # None
    BY DEF None
  <2>2. memory_region_contains(Platform.map[Route[addr] + 1], addr, WordBytes)
    BY <2>1, RouteRange
  <2>3. addr >= b
    BY <1>1, <2>2 DEF memory_region_contains
  <2> QED BY <1>1, <2>3, RegionFacts, WidthAssumption DEF Uint32
<1>4. g = IF word \in DOMAIN regs THEN regs[word] ELSE "hole"
  BY <1>1 DEF RegisterAt
<1>5. addr = b + WordBytes * (word - 1)
  <2> DEFINE p == addr \div WordBytes
             q == b \div WordBytes
  <2>1. addr = WordBytes * p /\ b = WordBytes * q /\ p \in Nat /\ q \in Nat
    BY <1>3, Divides
  <2> HIDE DEF p, q
  <2>2. addr - b = WordBytes * (p - q)
    BY <1>3, <2>1
  <2>3. (addr - b) \div WordBytes = p - q
    BY <1>3, <2>1, <2>2
  <2>4. word - 1 = p - q
    BY <2>1, <2>3
  <2> HIDE DEF word, b
  <2> QED BY <1>3, <2>1, <2>2, <2>4
<1> HIDE DEF b, word
<1>6. /\ w \in DOMAIN VlabRegs /\ "hole" \notin DOMAIN VlabRegs[w]
      /\ \A j \in DOMAIN Windows : Windows[j] = w => j = i
      /\ word \in DOMAIN regs =>
           regs[word] \in DOMAIN VlabRegs[w] /\ VlabRegs[w][regs[word]] = word - 1
  BY <1>1, OffsetsAgree
<1>7. (CHOOSE j \in DOMAIN Windows : Windows[j] = w) = i
  BY <1>1, <1>6, WindowSizes
<1>8. ASSUME word \in DOMAIN regs
      PROVE  g \in DOMAIN VlabRegs[w] /\ addr = Vlab(w, g)
  <2>1. g = regs[word] /\ VlabRegs[w][g] = word - 1 /\ g \in DOMAIN VlabRegs[w]
    BY <1>4, <1>6, <1>8
  <2>2. Vlab(w, g) = b + WordBytes * (word - 1)
    BY <1>7, <2>1 DEF Vlab, b
  <2> QED BY <1>5, <2>1, <2>2
<1> QED BY <1>2, <1>4, <1>6, <1>8

(* The registers of the map outside a set R of them, as the decoder finds  *)
(* them.                                                                   *)
LEMMA RegWordsDecode ==
  ASSUME NEW addr \in Uint32, NEW R
  PROVE  addr \in {Vlab(x[1], x[2]) : x \in AllRegs \ R}
           <=> /\ addr % WordBytes = 0
               /\ Route[addr] \in 2 .. 6
               /\ RegisterAt[addr] # "hole"
               /\ <<WindowAt(addr), RegisterAt[addr]>> \notin R
<1>1. ASSUME NEW x \in AllRegs \ R, addr = Vlab(x[1], x[2])
      PROVE  /\ addr % WordBytes = 0
             /\ Route[addr] \in 2 .. 6
             /\ RegisterAt[addr] # "hole"
             /\ <<WindowAt(addr), RegisterAt[addr]>> \notin R
  <2>0. PICK w \in DOMAIN VlabRegs : \E r \in DOMAIN VlabRegs[w] : x = <<w, r>>
    BY DEF AllRegs
  <2>1. PICK g \in DOMAIN VlabRegs[w] : x = <<w, g>>
    BY <2>0
  <2>2. /\ addr % WordBytes = 0 /\ Route[addr] \in 2 .. 6
        /\ RegisterAt[addr] = g /\ WindowAt(addr) = w
    BY <1>1, <2>1, VlabDecodes
  <2>3. "hole" \notin DOMAIN VlabRegs[w]
    BY <2>2, WindowWord
  <2> QED BY <2>1, <2>2, <2>3
<1>2. ASSUME addr % WordBytes = 0, Route[addr] \in 2 .. 6,
             RegisterAt[addr] # "hole",
             <<WindowAt(addr), RegisterAt[addr]>> \notin R
      PROVE  \E x \in AllRegs \ R : addr = Vlab(x[1], x[2])
  <2> DEFINE w == WindowAt(addr)
             g == RegisterAt[addr]
  <2>1. w \in DOMAIN VlabRegs /\ g \in DOMAIN VlabRegs[w] /\ addr = Vlab(w, g)
    BY <1>2, WindowWord
  <2> HIDE DEF w, g
  <2>2. <<w, g>> \in AllRegs
    BY <2>1 DEF AllRegs
  <2>3. <<w, g>> \notin R
    BY <1>2 DEF w, g
  <2> QED BY <2>1, <2>2, <2>3
<1> QED BY <1>1, <1>2

(* Which accesses a window refuses (soc.c, the register reads and writes). *)
AccessWindows == {"UART", "TIMER", "DMA", "INTC", "PERF"}

RegOrHole(w) == DOMAIN VlabRegs[w] \cup {"hole"}

(* A window refuses the reads of its write-only registers and holes. *)
LEMMA WindowReads ==
  ASSUME NEW w \in AccessWindows, NEW g \in RegOrHole(w), NEW a
  PROVE  g \in DOMAIN Readable(a, w)
           <=> g # "hole" /\ <<w, g>> \notin WriteOnlyRegs
<1> USE DEF RegOrHole, VlabRegs, WriteOnlyRegs, Readable
<1>1. CASE w = "UART"
  BY <1>1 DEF soc_uart_read
<1>2. CASE w = "TIMER"
  BY <1>2 DEF soc_timer_read
<1>3. CASE w = "DMA"
  BY <1>3 DEF soc_dma_read
<1>4. CASE w = "INTC"
  BY <1>4 DEF soc_intc_read
<1>5. CASE w = "PERF"
  BY <1>5 DEF soc_perf_read, PerfCounters
<1> QED BY <1>1, <1>2, <1>3, <1>4, <1>5 DEF AccessWindows

(* What the bus makes of an answer. *)
LEMMA AnswerCodes ==
  ASSUME NEW a, NEW v
  PROVE  /\ OK(a, v).rc = "OK" /\ OK(a, v).hw = a
         /\ Fault(a).rc = "BUS" /\ Fault(a).hw = a
         /\ Answered(OK(a, v)) = OK(a, v)
         /\ Answered(Fault(a)) = Fault(Stalled(a))
BY DEF OK, Fault, Answered

(* A refused write is a fault and nothing else. *)
Refused(x, a, w, g) ==
  /\ x.rc # "BUS" <=> g # "hole" /\ <<w, g>> \notin ReadOnlyRegs
  /\ x.rc = "BUS" => x = Fault(a)

LEMMA UartWrites ==
  ASSUME NEW g \in RegOrHole("UART"), NEW a, NEW v
  PROVE  Refused(soc_uart_write(a, g, v), a, "UART", g)
<1> DEFINE x == soc_uart_write(a, g, v)
<1>1. g \in {"TXDATA", "RXDATA", "STATUS", "CTRL", "BAUDDIV", "hole"}
  BY DEF RegOrHole, VlabRegs
<1>2. <<"UART", g>> \notin ReadOnlyRegs <=> g \notin {"RXDATA", "STATUS"}
  BY <1>1 DEF ReadOnlyRegs
<1>3. g \in {"RXDATA", "STATUS", "hole"} => x = Fault(a)
  BY DEF soc_uart_write
<1>4. g = "TXDATA" /\ ~a.uart.enabled => x.rc = "DISABLED"
  BY DEF soc_uart_write
<1>5. g = "TXDATA" /\ a.uart.enabled => x.rc = "OK"
  BY DEF soc_uart_write, OK
<1>6. g \in {"CTRL", "BAUDDIV"} => x.rc = "OK"
  BY DEF soc_uart_write, OK
<1> HIDE DEF x
<1>7. Refused(x, a, "UART", g)
  BY <1>1, <1>2, <1>3, <1>4, <1>5, <1>6, AnswerCodes DEF Refused
<1> QED BY <1>7 DEF x

LEMMA TimerWrites ==
  ASSUME NEW g \in RegOrHole("TIMER"), NEW a, NEW v
  PROVE  Refused(soc_timer_write(a, g, v), a, "TIMER", g)
<1> DEFINE x == soc_timer_write(a, g, v)
<1>1. g \in {"CTRL", "LOAD", "VALUE", "IRQ_STATUS", "IRQ_CLEAR", "hole"}
  BY DEF RegOrHole, VlabRegs
<1>2. <<"TIMER", g>> \notin ReadOnlyRegs <=> g # "VALUE"
  BY <1>1 DEF ReadOnlyRegs
<1>3. g \in {"VALUE", "hole"} => x = Fault(a)
  BY DEF soc_timer_write
<1>4. g \in {"CTRL", "LOAD", "IRQ_STATUS", "IRQ_CLEAR"} => x.rc = "OK"
  BY DEF soc_timer_write, OK
<1> HIDE DEF x
<1>5. Refused(x, a, "TIMER", g)
  BY <1>1, <1>2, <1>3, <1>4, AnswerCodes DEF Refused
<1> QED BY <1>5 DEF x

LEMMA DmaWrites ==
  ASSUME NEW g \in RegOrHole("DMA"), NEW a, NEW v
  PROVE  Refused(soc_dma_write(a, g, v), a, "DMA", g)
<1> DEFINE x == soc_dma_write(a, g, v)
<1>1. g \in {"SRC", "DST", "LEN", "CTRL", "STATUS", "IRQ_CLEAR", "ERR_CODE", "hole"}
  BY DEF RegOrHole, VlabRegs
<1>2. <<"DMA", g>> \notin ReadOnlyRegs <=> g \notin {"STATUS", "ERR_CODE"}
  BY <1>1 DEF ReadOnlyRegs
<1>3. g \in {"STATUS", "ERR_CODE", "hole"} => x = Fault(a)
  BY DEF soc_dma_write
<1>4. g \in {"SRC", "DST", "LEN", "CTRL", "IRQ_CLEAR"} => x.rc = "OK"
  BY DEF soc_dma_write, OK
<1> HIDE DEF x
<1>5. Refused(x, a, "DMA", g)
  BY <1>1, <1>2, <1>3, <1>4, AnswerCodes DEF Refused
<1> QED BY <1>5 DEF x

LEMMA IntcWrites ==
  ASSUME NEW g \in RegOrHole("INTC"), NEW a, NEW v
  PROVE  Refused(soc_intc_write(a, g, v), a, "INTC", g)
<1> DEFINE x == soc_intc_write(a, g, v)
<1>1. g \in {"ENABLE", "PENDING", "ACK", "CLEAR", "ACTIVE", "hole"}
  BY DEF RegOrHole, VlabRegs
<1>2. <<"INTC", g>> \notin ReadOnlyRegs <=> g \notin {"PENDING", "ACK", "ACTIVE"}
  BY <1>1 DEF ReadOnlyRegs
<1>3. g \in {"PENDING", "ACK", "ACTIVE", "hole"} => x = Fault(a)
  BY DEF soc_intc_write
<1>4. g \in {"ENABLE", "CLEAR"} => x.rc = "OK"
  BY DEF soc_intc_write, OK
<1> HIDE DEF x
<1>5. Refused(x, a, "INTC", g)
  BY <1>1, <1>2, <1>3, <1>4, AnswerCodes DEF Refused
<1> QED BY <1>5 DEF x

LEMMA PerfWrites ==
  ASSUME NEW g \in RegOrHole("PERF"), NEW a, NEW v
  PROVE  Refused(soc_perf_write(a, g, v), a, "PERF", g)
<1> DEFINE x == soc_perf_write(a, g, v)
<1>1. g \in PerfCounters \cup {"CTRL", "hole"}
  BY DEF RegOrHole, VlabRegs, PerfCounters
<1>2. <<"PERF", g>> \notin ReadOnlyRegs
  BY DEF ReadOnlyRegs
<1>3. g = "hole" => x = Fault(a)
  BY DEF soc_perf_write, PerfCounters
<1>4. g \in PerfCounters \cup {"CTRL"} => x.rc = "OK" /\ g # "hole"
  BY DEF soc_perf_write, PerfCounters, OK
<1> HIDE DEF x
<1>5. Refused(x, a, "PERF", g)
  BY <1>1, <1>2, <1>3, <1>4, AnswerCodes DEF Refused
<1> QED BY <1>5 DEF x

(* Together: a window refuses the writes of its read-only registers and    *)
(* holes.                                                                  *)
LEMMA WindowWrites ==
  ASSUME NEW w \in AccessWindows, NEW g \in RegOrHole(w), NEW a, NEW v
  PROVE  Refused(soc_periph_write(a, w, g, v), a, w, g)
<1>1. CASE w = "UART"
  BY <1>1, UartWrites DEF soc_periph_write
<1>2. CASE w = "TIMER"
  BY <1>2, TimerWrites DEF soc_periph_write
<1>3. CASE w = "DMA"
  BY <1>3, DmaWrites DEF soc_periph_write
<1>4. CASE w = "INTC"
  BY <1>4, IntcWrites DEF soc_periph_write
<1>5. CASE w = "PERF"
  BY <1>5, PerfWrites DEF soc_periph_write
<1> QED BY <1>1, <1>2, <1>3, <1>4, <1>5 DEF AccessWindows

(* The stores of the bus, by what the decoder finds. *)
LEMMA WriteCases ==
  ASSUME NEW addr \in Uint32, NEW v
  PROVE  /\ addr % WordBytes # 0
              => soc_write(Hw, addr, v) = Fault(HwAt(Stall(perf)))
         /\ addr % WordBytes = 0 /\ Route[addr] \in {None, 0}
              => soc_write(Hw, addr, v) = Fault(HwAt(Stall(Acc(perf))))
         /\ addr % WordBytes = 0 /\ Route[addr] = 1
              => \E s : soc_write(Hw, addr, v) = OK(s, 0)
         /\ addr % WordBytes = 0 /\ Route[addr] \in 2 .. 6
              => soc_write(Hw, addr, v)
                   = Answered(soc_periph_write(HwAt(Acc(perf)), WindowAt(addr),
                                               RegisterAt[addr], v))
<1> DEFINE a == HwAt(Acc(perf))
           x == soc_periph_write(a, WindowAt(addr), RegisterAt[addr], v)
           m == [a EXCEPT !.sram = soc_mem_write_bytes(@, addr, v)]
<1>1. Counted(Hw) = a /\ Stalled(Hw) = HwAt(Stall(perf))
      /\ Stalled(a) = HwAt(Stall(Acc(perf)))
  BY HwAtParts
<1> HIDE DEF a
<1>2. Answered(OK(m, 0)) = OK(m, 0) /\ Answered(Fault(a)) = Fault(Stalled(a))
  BY AnswerCodes
<1> HIDE DEF x
<1>3. soc_write(Hw, addr, v)
        = IF addr % WordBytes # 0 THEN Fault(Stalled(Hw))
          ELSE Answered(
            CASE Route[addr] \in {None, 0} -> Fault(a)
              [] Route[addr] = 1 -> OK(m, 0)
              [] OTHER -> x)
  BY <1>1 DEF soc_write, x
<1> HIDE DEF m
<1>4. None = -1
  BY DEF None
<1> QED BY <1>1, <1>2, <1>3, <1>4 DEF a, x

(* What a refused access leaves, and what a quiet read does. *)
LEMMA StallFacts ==
  ASSUME HwOK
  PROVE  /\ StallsAdded(HwAt(Stall(perf)), 1)
         /\ StallsAdded(HwAt(Stall(Acc(perf))), 1)
         /\ StallsAdded(HwAt(Acc(perf)), 0)
         /\ Besides(HwAt(Stall(perf))) = Hw
         /\ Besides(HwAt(Stall(Acc(perf)))) = Hw
         /\ Besides(HwAt(Acc(perf))) = Hw
<1>1. /\ perf \in PerfType /\ Acc(perf) \in PerfType /\ "STALLS" \in PerfCounters
      /\ 1 \in Nat
  BY HwFacts DEF PerfCounters
<1>2. Acc(perf).STALLS = perf.STALLS /\ Acc(perf).enabled = perf.enabled
  BY <1>1, AccFacts
<1>3. ASSUME NEW p \in PerfType
      PROVE  Count(p, "STALLS", 1).STALLS
               = IF p.enabled THEN Bump(p.STALLS, 1) ELSE p.STALLS
  BY <1>1, CountFacts
<1>4. Stall(Acc(perf)).STALLS = Count(perf, "STALLS", 1).STALLS
  BY <1>1, <1>2, <1>3 DEF Stall
<1>5. Count(perf, "STALLS", 0).STALLS = perf.STALLS
  BY NoStall
<1>6. \A p : HwAt(p).perf = p /\ [HwAt(p) EXCEPT !.perf = perf] = Hw
  BY HwAtParts
<1> QED BY <1>2, <1>4, <1>5, <1>6 DEF StallsAdded, Besides, Stall

(* The legal addresses, in terms of the decoder. *)
LEMMA LegalAccess ==
  ASSUME NEW addr \in Uint32
  PROVE  /\ addr \in LegalReads
              <=> /\ addr % WordBytes = 0
                  /\ \/ Route[addr] \in {0, 1}
                     \/ /\ Route[addr] \in 2 .. 6
                        /\ RegisterAt[addr] # "hole"
                        /\ <<WindowAt(addr), RegisterAt[addr]>> \notin WriteOnlyRegs
         /\ addr \in LegalWrites
              <=> /\ addr % WordBytes = 0
                  /\ \/ Route[addr] = 1
                     \/ /\ Route[addr] \in 2 .. 6
                        /\ RegisterAt[addr] # "hole"
                        /\ <<WindowAt(addr), RegisterAt[addr]>> \notin ReadOnlyRegs
<1>1. 0 \in {0, 1} /\ 1 \in {0, 1} /\ 0 + 1 = 1 /\ 1 + 1 = 2
  OBVIOUS
<1>2. /\ addr \in MemWords(RomRegion) <=> addr % WordBytes = 0 /\ Route[addr] = 0
      /\ addr \in MemWords(SramRegion) <=> addr % WordBytes = 0 /\ Route[addr] = 1
  BY <1>1, MemWordsDecode DEF RomRegion, SramRegion
<1> DEFINE Regs(R) == {Vlab(x[1], x[2]) : x \in AllRegs \ R}
           At(R)   == /\ addr % WordBytes = 0
                      /\ Route[addr] \in 2 .. 6
                      /\ RegisterAt[addr] # "hole"
                      /\ <<WindowAt(addr), RegisterAt[addr]>> \notin R
<1>3. /\ addr \in Regs(WriteOnlyRegs) <=> At(WriteOnlyRegs)
      /\ addr \in Regs(ReadOnlyRegs) <=> At(ReadOnlyRegs)
  BY RegWordsDecode
<1>4. /\ LegalReads = MemWords(RomRegion) \cup MemWords(SramRegion)
                        \cup Regs(WriteOnlyRegs)
      /\ LegalWrites = MemWords(SramRegion) \cup Regs(ReadOnlyRegs)
  BY DEF LegalReads, LegalWrites
<1> HIDE DEF Regs
<1> QED BY <1>2, <1>3, <1>4

(* Reads (soc.c:87-113). *)
ReadRight(addr, r) ==
  /\ r.rc = "OK" <=> addr \in LegalReads
  /\ StallsAdded(r.hw, IF r.rc = "OK" THEN 0 ELSE 1)
  /\ addr \notin {RXDATA, Vlab("INTC", "ACK")} => Besides(r.hw) = Hw

(* Reads, by what the decoder finds. *)
LEMMA ReadRights ==
  ASSUME HwOK, NEW addr \in Uint32
  PROVE  ReadRight(addr, soc_read(Hw, addr))
<1> DEFINE r == soc_read(Hw, addr)
<1>1. ASSUME NEW a, NEW v
      PROVE  /\ OK(a, v).rc = "OK" /\ OK(a, v).hw = a
             /\ Fault(a).rc # "OK" /\ Fault(a).hw = a
  BY AnswerCodes
<1>2. CASE addr % WordBytes # 0
  <2>1. r = Fault(HwAt(Stall(perf))) /\ addr \notin LegalReads
    BY <1>2, ReadCases, LegalAccess
  <2> HIDE DEF r
  <2>2. ReadRight(addr, r)
    BY <1>1, <2>1, StallFacts DEF ReadRight
  <2> QED BY <2>2 DEF r
<1>3. CASE addr % WordBytes = 0 /\ Route[addr] = None
  <2>1. r = Fault(HwAt(Stall(Acc(perf))))
    BY <1>3, ReadCases
  <2>2. addr \notin LegalReads
    <3>1. Route[addr] \notin {0, 1} /\ Route[addr] \notin 2 .. 6
      BY <1>3 DEF None
    <3> QED BY <3>1, LegalAccess
  <2> HIDE DEF r
  <2>3. ReadRight(addr, r)
    BY <1>1, <2>1, <2>2, StallFacts DEF ReadRight
  <2> QED BY <2>3 DEF r
<1>4. CASE addr % WordBytes = 0 /\ Route[addr] \in {0, 1}
  <2>1. PICK v : r = OK(HwAt(Acc(perf)), v)
    BY <1>4, ReadCases
  <2>2. addr \in LegalReads
    BY <1>4, LegalAccess
  <2> HIDE DEF r
  <2>3. ReadRight(addr, r)
    BY <1>1, <2>1, <2>2, StallFacts DEF ReadRight
  <2> QED BY <2>3 DEF r
<1>5. CASE addr % WordBytes = 0 /\ Route[addr] \in 2 .. 6
  <2> DEFINE a == HwAt(Acc(perf))
             w == WindowAt(addr)
             g == RegisterAt[addr]
             x == soc_periph_read(a, w, g)
             u == soc_uart_read_rxdata(uart)
             k == soc_intc_ack(intc)
             q == Count(Acc(perf), "IRQ_COUNT", 1)
             b == Board(u, timer, dma, intc, Acc(perf), sram, rom)
             c == Board(uart, timer, dma, k, q, sram, rom)
  <2>1. r = Answered(x)
    BY <1>5, ReadCases
  <2>2. w \in AccessWindows
    BY <1>5, WindowIs DEF AccessWindows
  <2>3. /\ g \in RegOrHole(w)
        /\ g # "hole" => addr = Vlab(w, g)
    <3>1. w \in DOMAIN VlabRegs
          /\ (g = "hole" \/ (g \in DOMAIN VlabRegs[w] /\ addr = Vlab(w, g)))
      BY <1>5, WindowWord
    <3> HIDE DEF w, g
    <3> QED BY <3>1 DEF RegOrHole
  <2>4. g \in DOMAIN Readable(a, w) <=> addr \in LegalReads
    <3>1. g \in DOMAIN Readable(a, w)
            <=> g # "hole" /\ <<w, g>> \notin WriteOnlyRegs
      BY <2>2, <2>3, WindowReads
    <3>2. addr \in LegalReads <=> g # "hole" /\ <<w, g>> \notin WriteOnlyRegs
      BY <1>5, LegalAccess
    <3> QED BY <3>1, <3>2
  <2>5. /\ g \notin DOMAIN Readable(a, w) => x = Fault(a)
        /\ g \in DOMAIN Readable(a, w) => x.rc = "OK"
    <3>1. \A s, v : OK(s, v).rc = "OK"
      BY AnswerCodes
    <3> HIDE DEF a, w, g
    <3> QED BY <3>1 DEF soc_periph_read
  <2>6. \/ x = Fault(a)
        \/ \E v : x = OK(a, v)
        \/ w = "UART" /\ g = "RXDATA" /\ x = OK(b, uart.rxdata)
        \/ w = "INTC" /\ g = "ACK" /\ x = OK(c, soc_intc_highest(intc))
    BY <2>2, PeriphRead DEF AccessWindows
  <2>7. StallsAdded(b, 0) /\ StallsAdded(c, 0)
    <3>1. b.perf = Acc(perf) /\ c.perf = q
      <4> HIDE DEF u, k, q
      <4> QED BY BoardParts
    <3> HIDE DEF b, c
    <3> QED BY <3>1, QuietCounters, NoStall DEF StallsAdded
  <2>8. /\ StallsAdded(a, 0) /\ Besides(a) = Hw
        /\ StallsAdded(Stalled(a), 1) /\ Besides(Stalled(a)) = Hw
    BY StallFacts, HwAtParts
  <2>9. \A s, v : Answered(OK(s, v)) = OK(s, v)
    BY AnswerCodes
  <2>10. Answered(Fault(a)) = Fault(Stalled(a))
    BY AnswerCodes
  <2> HIDE DEF a, b, c, x, w, g, r
  <2>11. CASE x = Fault(a)
    <3>1. r = Fault(Stalled(a)) /\ addr \notin LegalReads
      BY <1>1, <2>1, <2>4, <2>5, <2>10, <2>11
    <3> QED BY <1>1, <2>8, <3>1 DEF ReadRight, r
  <2>12. CASE \E v : x = OK(a, v)
    <3>1. PICK v : x = OK(a, v)
      BY <2>12
    <3>2. r = OK(a, v) /\ addr \in LegalReads
      BY <1>1, <2>1, <2>4, <2>5, <2>9, <3>1
    <3>3. ReadRight(addr, r)
      BY <1>1, <2>8, <3>2 DEF ReadRight
    <3> QED BY <3>3 DEF r
  <2>13. CASE w = "UART" /\ g = "RXDATA" /\ x = OK(b, uart.rxdata)
    <3>1. r = OK(b, uart.rxdata) /\ addr \in LegalReads
      BY <1>1, <2>1, <2>4, <2>5, <2>9, <2>13
    <3>2. addr = RXDATA
      BY <2>3, <2>13, TxdataAt
    <3>3. ReadRight(addr, r)
      BY <1>1, <2>7, <3>1, <3>2 DEF ReadRight
    <3> QED BY <3>3 DEF r
  <2>14. CASE w = "INTC" /\ g = "ACK" /\ x = OK(c, soc_intc_highest(intc))
    <3>1. r = OK(c, soc_intc_highest(intc)) /\ addr \in LegalReads
      BY <1>1, <2>1, <2>4, <2>5, <2>9, <2>14
    <3>2. addr = Vlab("INTC", "ACK")
      BY <2>3, <2>14
    <3>3. ReadRight(addr, r)
      BY <1>1, <2>7, <3>1, <3>2 DEF ReadRight
    <3> QED BY <3>3 DEF r
  <2> QED BY <2>6, <2>11, <2>12, <2>13, <2>14
<1> QED BY <1>2, <1>3, <1>4, <1>5, RouteRange DEF None

(* Writes (soc.c:115-142), whatever the value. *)
WriteRight(addr, x) ==
  /\ x.rc # "BUS" <=> addr \in LegalWrites
  /\ x.rc = "BUS" => Besides(x.hw) = Hw /\ StallsAdded(x.hw, 1)

(* Writes, by what the decoder finds. *)
LEMMA WriteRights ==
  ASSUME HwOK, NEW addr \in Uint32, NEW v
  PROVE  WriteRight(addr, soc_write(Hw, addr, v))
<1> DEFINE r == soc_write(Hw, addr, v)
<1>1. CASE addr % WordBytes # 0
  <2>1. r = Fault(HwAt(Stall(perf))) /\ addr \notin LegalWrites
    BY <1>1, WriteCases, LegalAccess
  <2> HIDE DEF r
  <2>2. WriteRight(addr, r)
    BY <2>1, AnswerCodes, StallFacts DEF WriteRight
  <2> QED BY <2>2 DEF r
<1>2. CASE addr % WordBytes = 0 /\ Route[addr] \in {None, 0}
  <2>1. r = Fault(HwAt(Stall(Acc(perf))))
    BY <1>2, WriteCases
  <2>2. addr \notin LegalWrites
    <3>1. Route[addr] # 1 /\ Route[addr] \notin 2 .. 6
      BY <1>2 DEF None
    <3> QED BY <3>1, LegalAccess
  <2> HIDE DEF r
  <2>3. WriteRight(addr, r)
    BY <2>1, <2>2, AnswerCodes, StallFacts DEF WriteRight
  <2> QED BY <2>3 DEF r
<1>3. CASE addr % WordBytes = 0 /\ Route[addr] = 1
  <2>1. PICK s : r = OK(s, 0)
    BY <1>3, WriteCases
  <2>2. addr \in LegalWrites
    BY <1>3, LegalAccess
  <2> HIDE DEF r
  <2>3. WriteRight(addr, r)
    BY <2>1, <2>2, AnswerCodes DEF WriteRight
  <2> QED BY <2>3 DEF r
<1>4. CASE addr % WordBytes = 0 /\ Route[addr] \in 2 .. 6
  <2> DEFINE a == HwAt(Acc(perf))
             w == WindowAt(addr)
             g == RegisterAt[addr]
             x == soc_periph_write(a, w, g, v)
  <2>1. r = Answered(x)
    BY <1>4, WriteCases
  <2>2. w \in AccessWindows /\ g \in RegOrHole(w)
    <3>1. w \in AccessWindows
      BY <1>4, WindowIs DEF AccessWindows
    <3>2. g = "hole" \/ g \in DOMAIN VlabRegs[w]
      BY <1>4, WindowWord
    <3> HIDE DEF w, g
    <3> QED BY <3>1, <3>2 DEF RegOrHole
  <2>3. Refused(x, a, w, g)
    BY <2>2, WindowWrites
  <2>4. addr \in LegalWrites <=> g # "hole" /\ <<w, g>> \notin ReadOnlyRegs
    BY <1>4, LegalAccess
  <2>5. StallsAdded(Stalled(a), 1) /\ Besides(Stalled(a)) = Hw
    BY StallFacts, HwAtParts
  <2> HIDE DEF a, w, g, x, r
  <2>6. CASE x.rc = "BUS"
    <3>1. r = Fault(Stalled(a)) /\ addr \notin LegalWrites
      BY <2>1, <2>3, <2>4, <2>6, AnswerCodes DEF Refused
    <3>2. WriteRight(addr, r)
      BY <2>5, <3>1, AnswerCodes DEF WriteRight
    <3> QED BY <3>2 DEF r
  <2>7. CASE x.rc # "BUS"
    <3>1. r = x /\ addr \in LegalWrites
      BY <2>1, <2>3, <2>4, <2>7 DEF Answered, Refused
    <3>2. WriteRight(addr, r)
      BY <2>7, <3>1 DEF WriteRight
    <3> QED BY <3>2 DEF r
  <2> QED BY <2>6, <2>7
<1> QED BY <1>1, <1>2, <1>3, <1>4, RouteRange DEF None

(* Wherever the client may make an access, at every address, exactly those *)
(* of the register map succeed, and a refused one costs a stall and        *)
(* nothing else (soc.c:87-142).                                            *)
THEOREM SocAccessRights == MCSpec => []AccessRights
<1>1. SocInv => AccessRights
  <2> SUFFICES ASSUME SocInv, NEW addr \in Uint32
               PROVE  /\ ReadRight(addr, soc_read(Hw, addr))
                      /\ WriteRight(addr, soc_write(Hw, addr, ValueFor[addr]))
    BY DEF AccessRights, ReadRight, WriteRight
  <2>1. HwOK
    BY DEF SocInv
  <2> QED BY <2>1, ReadRights, WriteRights
<1> QED BY <1>1, SocInvariance, PTL

=============================================================================
