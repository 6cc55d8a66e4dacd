---------------------------- MODULE CommonProofs ----------------------------
(***************************************************************************)
(* What the other proofs share: the accesses of the interrupt controller,  *)
(* counters, memory maps and the two validations, for every map and        *)
(* configuration.                                                          *)
(***************************************************************************)
EXTENDS DmaCaps, Intc, U32, WellFoundedInduction, TLAPS

-----------------------------------------------------------------------------
(* The interrupt controller (soc_c/src/soc_intc.c). *)

(* soc_intc_highest picks the first line of kPriority that is pending and  *)
(* enabled, or none if there is none (soc_intc.c).                         *)
LEMMA HighestIsGated ==
  ASSUME NEW ic \in IntcType
  PROVE  /\ Gated(ic) = {} => soc_intc_highest(ic) = IRQ_NONE
         /\ Gated(ic) # {} =>
              /\ soc_intc_highest(ic) \in Gated(ic)
              /\ \A m \in Gated(ic) :
                   kPriority[soc_intc_highest(ic)] <= kPriority[m]
<1>1. Gated(ic) \subseteq Lines
  BY DEF Gated, IntcType
<1>2. ASSUME Gated(ic) # {}
      PROVE  \E l \in Gated(ic) : \A m \in Gated(ic) : kPriority[l] <= kPriority[m]
  <2>1. kPriority[TIMER] = 1 /\ kPriority[DMA] = 2 /\ kPriority[UART] = 3
    BY DEF kPriority, Lines, TIMER, DMA, UART
  <2>2. CASE TIMER \in Gated(ic)
    BY <2>1, <2>2, <1>1 DEF Lines
  <2>3. CASE TIMER \notin Gated(ic) /\ DMA \in Gated(ic)
    BY <2>1, <2>3, <1>1 DEF Lines
  <2>4. CASE TIMER \notin Gated(ic) /\ DMA \notin Gated(ic)
    BY <2>1, <2>4, <1>1, <1>2 DEF Lines
  <2> QED BY <2>2, <2>3, <2>4
<1> QED BY <1>2 DEF soc_intc_highest

(* Raising a line adds it to PENDING and nothing else. *)
LEMMA RaiseFacts ==
  ASSUME NEW ic \in IntcType, NEW l \in Lines
  PROVE  /\ soc_intc_raise(ic, l) \in IntcType
         /\ soc_intc_raise(ic, l).pending = ic.pending \cup {l}
         /\ soc_intc_raise(ic, l).active = ic.active
BY DEF soc_intc_raise, IntcType

(* Writing CLEAR takes a line out of ACTIVE and leaves PENDING alone,      *)
(* which is why clearing loses no interrupt.                               *)
LEMMA ClearFacts ==
  ASSUME NEW ic \in IntcType, NEW l
  PROVE  /\ soc_intc_write_clear(ic, l) \in IntcType
         /\ soc_intc_write_clear(ic, l).pending = ic.pending
         /\ soc_intc_write_clear(ic, l).active = ic.active \ {l}
BY DEF soc_intc_write_clear, IntcType

(* Writing ENABLE leaves PENDING alone: masking loses no interrupt. *)
LEMMA EnableFacts ==
  ASSUME NEW ic \in IntcType, NEW mask
  PROVE  /\ soc_intc_write_enable(ic, mask) \in IntcType
         /\ soc_intc_write_enable(ic, mask).pending = ic.pending
         /\ soc_intc_write_enable(ic, mask).active = ic.active
BY DEF soc_intc_write_enable, IntcType

(* ACK moves the line it returns from PENDING to ACTIVE, and no other. *)
LEMMA AckFacts ==
  ASSUME NEW ic \in IntcType
  PROVE  /\ soc_intc_ack(ic) \in IntcType
         /\ soc_intc_highest(ic) = IRQ_NONE => soc_intc_ack(ic) = ic
         /\ soc_intc_highest(ic) # IRQ_NONE
              => /\ soc_intc_highest(ic) \in Lines
                 /\ soc_intc_ack(ic).pending = ic.pending \ {soc_intc_highest(ic)}
                 /\ soc_intc_ack(ic).active = ic.active \cup {soc_intc_highest(ic)}
<1>1. soc_intc_highest(ic) # IRQ_NONE => soc_intc_highest(ic) \in Lines
  BY HighestIsGated DEF Gated, IntcType
<1> QED BY <1>1 DEF soc_intc_ack, IntcType

-----------------------------------------------------------------------------
(* The statistics counters. *)

(* A counter that wraps around stays a counter. *)
LEMMA BumpIsCounter ==
  ASSUME NEW c \in Counter
  PROVE  Bump(c, 1) \in Counter
BY CounterModAssumption DEF Bump, Counter

-----------------------------------------------------------------------------
(* Validation and memory maps. *)

(* In strict mode the driver's classification and the engine's are the     *)
(* same function under two vocabularies.                                   *)
LEMMA ClassifyMatches ==
  ASSUME NEW cfg, NEW addr, NEW len, cfg.strict
  PROVE  /\ classify(cfg, addr, len) = "EP_INVALID"
              <=> soc_endpoint_class(cfg, addr, len) = "invalid"
         /\ classify(cfg, addr, len) = "EP_INCAPABLE"
              <=> soc_endpoint_class(cfg, addr, len) = "incapable"
         /\ classify(cfg, addr, len) = "EP_MEM"
              <=> soc_endpoint_class(cfg, addr, len) = "mem"
         /\ classify(cfg, addr, len) = "EP_PERIPH"
              <=> soc_endpoint_class(cfg, addr, len) = "periph"
         /\ classify(cfg, addr, len) = "EP_PERIPH"
              <=> dma_periph_find(cfg, addr)
         /\ soc_endpoint_class(cfg, addr, len)
              \in {"invalid", "incapable", "mem", "periph"}
BY DEF classify, soc_endpoint_class, dma_periph_find

(* Without a FIFO table both take the type of the region. *)
LEMMA LegacyMatches ==
  ASSUME NEW cfg, NEW addr, NEW len, ~cfg.strict
  PROVE  /\ soc_endpoint_class(cfg, addr, len)
              = dma_endpoint_type(cfg.map, addr, len)
         /\ soc_endpoint_class(cfg, addr, len) # "incapable"
         /\ ~dma_periph_find(cfg, addr)
BY DEF soc_endpoint_class, dma_endpoint_type, dma_periph_find

(* The driver's validate and the engine's START-time validation give the   *)
(* same verdict on every request, whatever the configuration, provided     *)
(* both have the same one and it has a capability record                   *)
(* (firmware/drivers/dma.c:62-99 and soc_c/src/soc_dma.c:108-159).         *)
THEOREM ValidationAgrees ==
  ASSUME NEW cfg, NEW src, NEW dst, NEW len,
         cfg.hasCaps = TRUE, cfg.strict \in BOOLEAN
  PROVE  validate(cfg, FALSE, src, dst, len)
           = soc_dma_start_code(cfg, src, dst, len)
<1>1. CASE cfg.strict
  BY <1>1, ClassifyMatches DEF validate, soc_dma_start_code
<1>2. CASE ~cfg.strict
  BY <1>2, LegacyMatches DEF validate, soc_dma_start_code
<1> QED BY <1>1, <1>2

(* At most one region of a well-formed map holds a given range, so that    *)
(* the order of the table decides nothing (find_region, bus.c).            *)
THEOREM OwnerIsUnique ==
  ASSUME NEW map, WellFormedMap(map), NEW addr \in Uint32, NEW len \in Uint32,
         NEW i \in Containing(map, addr, len),
         NEW j \in Containing(map, addr, len)
  PROVE  i = j
<1> DEFINE r == map[i + 1]
           s == map[j + 1]
<1>1. /\ i + 1 \in 1 .. Len(map) /\ j + 1 \in 1 .. Len(map)
      /\ memory_region_contains(r, addr, len)
      /\ memory_region_contains(s, addr, len)
      /\ i \in Int /\ j \in Int
  BY DEF Containing, WellFormedMap
<1>2. r \in Regions /\ s \in Regions
  BY <1>1 DEF WellFormedMap
<1>3. /\ r.base \in Nat /\ r.size \in Nat /\ s.base \in Nat /\ s.size \in Nat
      /\ addr \in Nat /\ len \in Nat
  BY <1>2, WidthAssumption DEF Regions, Uint32
<1>4. /\ len # 0
      /\ addr >= r.base /\ addr + len <= r.base + r.size
      /\ addr >= s.base /\ addr + len <= s.base + s.size
  BY <1>1 DEF memory_region_contains
<1>5. memory_range_overlaps(r.base, r.size, s.base, s.size)
  <2> HIDE DEF r, s
  <2> QED BY <1>3, <1>4 DEF memory_range_overlaps
<1> QED BY <1>1, <1>5 DEF WellFormedMap

(* The length of a transfer is a positive integer, also where the unsigned *)
(* arithmetic of transfer_ticks wraps around (soc_dma.c).                  *)
LEMMA TicksAreInt ==
  ASSUME NEW len \in Nat, NEW latency \in Nat, NEW burst \in Nat \ {0}
  PROVE  /\ transfer_ticks(len, latency, burst) \in Int
         /\ transfer_ticks(len, latency, burst) >= 1
<1> DEFINE words  == ((len + WordBytes - 1) % U32Mod) \div WordBytes
           bursts == ((words + burst - 1) % U32Mod) \div burst
           n      == (words * latency + (bursts - 1)) % U32Mod
<1>1. words \in Int
  BY WidthAssumption
<1>2. bursts \in Int
  <2> HIDE DEF words
  <2> QED BY <1>1, WidthAssumption
<1>3. n \in Int
  <2> HIDE DEF words, bursts
  <2>1. words * latency \in Int
    BY <1>1
  <2> QED BY <1>2, <2>1, WidthAssumption
<1>4. AsInt32(n) \in Int
  <2> HIDE DEF n
  <2> QED BY <1>3, WidthAssumption DEF AsInt32
<1> QED
  <2> HIDE DEF n
  <2> QED BY <1>4 DEF transfer_ticks, n

(* A START ends with one of the error codes or begins a transfer. *)
LEMMA StartCodeType ==
  ASSUME NEW cfg, NEW src, NEW dst, NEW len
  PROVE  soc_dma_start_code(cfg, src, dst, len) \in ErrCodes \cup {"OK"}
BY DEF soc_dma_start_code, ErrCodes

-----------------------------------------------------------------------------
(* The address decoder. *)

(* A set of numbers that is not empty has a least element. *)
LEMMA LeastExists ==
  ASSUME NEW S, S \subseteq Nat, S # {}
  PROVE  \E i \in S : \A j \in S : i <= j
<1> DEFINE R == OpToRel(<, Nat)
<1>1. IsWellFoundedOn(R, Nat)
  BY NatLessThanWellFounded
<1>2. \A x, y \in Nat : <<y, x>> \in R <=> y < x
  BY DEF OpToRel
<1> HIDE DEF R
<1>3. PICK x \in S : \A y \in S : ~ (<<y, x>> \in R)
  BY <1>1, WFMin
<1>4. ASSUME NEW y \in S PROVE x <= y
  <2>1. x \in Nat /\ y \in Nat
    OBVIOUS
  <2>2. ~(y < x)
    BY <1>2, <1>3, <2>1, Zenon
  <2> QED BY <2>1, <2>2
<1> QED BY <1>4

(* First returns the least element of its argument, None for none. *)
LEMMA FirstFacts ==
  ASSUME NEW S, S \subseteq Nat
  PROVE  /\ S = {} => First(S) = None
         /\ S # {} => First(S) \in S /\ \A j \in S : First(S) <= j
BY LeastExists DEF First

(* Multiples of the word size: what they are, their sums, and the gap      *)
(* between two of them.                                                    *)
LEMMA Divides ==
  ASSUME NEW a \in Nat, NEW w \in Nat \ {0}, a % w = 0
  PROVE  a = w * (a \div w) /\ a \div w \in Nat
OBVIOUS

(* The sum of two multiples is a multiple. *)
LEMMA SumOfMultiples ==
  ASSUME NEW a \in Nat, NEW b \in Nat, NEW w \in Nat \ {0},
         a % w = 0, b % w = 0
  PROVE  (a + b) % w = 0
<1> DEFINE p == a \div w
           q == b \div w
<1>1. a = w * p /\ b = w * q /\ p \in Nat /\ q \in Nat
  BY Divides
<1> HIDE DEF p, q
<1>2. a + b = w * (p + q)
  BY <1>1
<1> QED BY <1>1, <1>2

(* Two different multiples are at least one word apart. *)
LEMMA NextMultiple ==
  ASSUME NEW a \in Nat, NEW b \in Nat, NEW w \in Nat \ {0},
         a % w = 0, b % w = 0, a < b
  PROVE  a + w <= b
<1> DEFINE p == a \div w
           q == b \div w
<1>1. a = w * p /\ b = w * q /\ p \in Nat /\ q \in Nat
  BY Divides
<1> HIDE DEF p, q
<1>2. p + 1 <= q
  BY <1>1
<1>3. w * (p + 1) <= w * q
  BY <1>1, <1>2
<1>4. w * (p + 1) = w * p + w
  BY <1>1
<1> QED BY <1>1, <1>3, <1>4

(* A region of whole words holds the word at an aligned address as soon as *)
(* it holds its first byte.                                                *)
LEMMA ByteIsWord ==
  ASSUME NEW r \in Regions, r.base + r.size <= U32Mod,
         r.base % WordBytes = 0, r.size % WordBytes = 0,
         NEW addr \in Nat, addr % WordBytes = 0
  PROVE  memory_region_contains(r, addr, 1)
           <=> memory_region_contains(r, addr, WordBytes)
<1> DEFINE end == r.base + r.size
<1>1. /\ r.base \in Nat /\ r.size \in Nat /\ end \in Nat
      /\ WordBytes \in Nat \ {0} /\ U32Mod \in Nat
  BY WidthAssumption DEF Regions, Uint32
<1>2. end % WordBytes = 0
  BY <1>1, SumOfMultiples
<1> HIDE DEF end
<1>3. ASSUME addr < end PROVE addr + WordBytes <= end
  BY <1>1, <1>2, <1>3, NextMultiple, Zenon
<1> QED BY <1>1, <1>3 DEF memory_region_contains, end

(* On a well-formed map of whole words the bus decodes an aligned address  *)
(* to the region that owns the word at it, although it probes memories by  *)
(* words and the windows of peripherals by bytes (bus.c:9-25 and           *)
(* mem_regions.h).                                                         *)
THEOREM RouteFindsOwner ==
  ASSUME NEW map, WellFormedMap(map), WordAlignedMap(map),
         NEW addr \in Nat, addr % WordBytes = 0
  PROVE  soc_bus_route(map, addr) = find_region(map, addr, WordBytes)
<1> DEFINE words == Containing(map, addr, WordBytes)
           bytes == Containing(map, addr, 1)
           upper == {i \in bytes : i >= 2}
<1>1. words = bytes
  <2>1. ASSUME NEW i \in 0 .. Len(map) - 1
        PROVE  memory_region_contains(map[i + 1], addr, 1)
                 <=> memory_region_contains(map[i + 1], addr, WordBytes)
    <3>1. Len(map) \in Nat /\ i + 1 \in 1 .. Len(map)
      BY DEF WellFormedMap
    <3>2. /\ map[i + 1] \in Regions
          /\ map[i + 1].base + map[i + 1].size <= U32Mod
          /\ map[i + 1].base % WordBytes = 0 /\ map[i + 1].size % WordBytes = 0
      BY <3>1 DEF WellFormedMap, WordAlignedMap
    <3> HIDE DEF WellFormedMap
    <3> QED BY <3>2, ByteIsWord
  <2> QED BY <2>1 DEF Containing
<1>2. bytes \subseteq Nat /\ upper \subseteq Nat
  BY DEF Containing, WellFormedMap
<1> HIDE DEF words, bytes
<1>3. CASE First(words) \in {0, 1}
  BY <1>3 DEF soc_bus_route, find_region, words
<1>4. CASE First(words) \notin {0, 1}
  <2>1. soc_bus_route(map, addr) = First(upper)
    BY <1>4 DEF soc_bus_route, find_region, words, bytes
  <2>2. upper = bytes
    <3>1. ASSUME NEW i \in bytes PROVE i >= 2
      <4>1. First(bytes) \in bytes /\ First(bytes) <= i
        BY <1>2, FirstFacts
      <4>2. First(bytes) \in Nat /\ i \in Nat
        BY <1>2, <4>1
      <4> QED BY <1>1, <1>4, <4>1, <4>2
    <3> QED BY <3>1
  <2> QED BY <1>1, <2>1, <2>2 DEF find_region, words
<1> QED BY <1>3, <1>4

=============================================================================
