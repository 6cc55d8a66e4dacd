-------------------------- MODULE MCDmaCapsProofs ---------------------------
(***************************************************************************)
(* The driver, the engine and the bus on one request, for every set of     *)
(* platforms and every width of addresses: the general theorems of         *)
(* CommonProofs applied to the three parties, and the transfer time.      *)
(***************************************************************************)
EXTENDS MCDmaCaps, CommonProofs

-----------------------------------------------------------------------------
(* The transfer time. *)

(* CeilDiv is the rounded-up division that transfer_ticks computes with    *)
(* the div of C.                                                           *)
LEMMA CeilDivFacts ==
  ASSUME NEW a \in Nat, NEW b \in Nat \ {0}
  PROVE  /\ CeilDiv(a, b) = (a + b - 1) \div b
         /\ CeilDiv(a, b) \in Nat
         /\ a # 0 => CeilDiv(a, b) # 0
<1> DEFINE q == (a + b - 1) \div b
<1>1. q \in Nat /\ b * q <= a + b - 1 /\ a + b - 1 < b * q + b
  OBVIOUS
<1> HIDE DEF q
<1>2. q * b >= a /\ (q - 1) * b < a
  BY <1>1
<1>3. q \in 0 .. a
  BY <1>1, <1>2
<1>4. ASSUME NEW p \in 0 .. a, p * b >= a, (p - 1) * b < a
      PROVE  p = q
  BY <1>1, <1>2, <1>4
<1>5. CeilDiv(a, b) = q
  BY <1>2, <1>3, <1>4 DEF CeilDiv
<1>6. a # 0 => q # 0
  BY <1>1, <1>2
<1> QED BY <1>1, <1>5, <1>6 DEF q

(* The engine counts words*latency + (bursts-1) ticks (soc_dma.c:160-165)  *)
(* wherever the rounding up of the two divisions does not wrap and the     *)
(* result fits in int32_t.                                                 *)
LEMMA TicksFormula ==
  ASSUME NEW len \in Nat \ {0}, NEW latency \in Nat \ {0},
         NEW burst \in Nat \ {0}, len + WordBytes <= U32Mod,
         CeilDiv(len, WordBytes) + burst <= U32Mod,
         2 * (CeilDiv(len, WordBytes) * latency
              + CeilDiv(CeilDiv(len, WordBytes), burst) - 1) < U32Mod
  PROVE  transfer_ticks(len, latency, burst)
           = CeilDiv(len, WordBytes) * latency
             + CeilDiv(CeilDiv(len, WordBytes), burst) - 1
<1> DEFINE words  == CeilDiv(len, WordBytes)
           bursts == CeilDiv(words, burst)
           total  == words * latency + (bursts - 1)
<1>1. /\ words = (len + WordBytes - 1) \div WordBytes
      /\ words \in Nat \ {0}
  BY CeilDivFacts, WidthAssumption
<1>2. (len + WordBytes - 1) % U32Mod = len + WordBytes - 1
  BY WidthAssumption
<1> HIDE DEF words
<1>3. bursts = (words + burst - 1) \div burst /\ bursts \in Nat \ {0}
  BY <1>1, CeilDivFacts
<1>4. (words + burst - 1) % U32Mod = words + burst - 1
  BY <1>1, WidthAssumption DEF words
<1> HIDE DEF bursts
<1>5. words * latency \in Nat \ {0}
  BY <1>1
<1>6. total \in Nat \ {0} /\ 2 * total < U32Mod
  BY <1>3, <1>5 DEF words, bursts
<1>7. transfer_ticks(len, latency, burst) =
        IF AsInt32(total % U32Mod) < 1 THEN 1 ELSE AsInt32(total % U32Mod)
  BY <1>1, <1>2, <1>3, <1>4 DEF transfer_ticks
<1>8. total = words * latency + bursts - 1
  BY <1>3, <1>5
<1> HIDE DEF total
<1>9. total % U32Mod = total /\ AsInt32(total) = total
  BY <1>6, WidthAssumption DEF AsInt32
<1> QED BY <1>6, <1>7, <1>8, <1>9 DEF words, bursts

(* A remainder is never more than what it is the remainder of. *)
LEMMA ModShrinks ==
  ASSUME NEW x \in Nat
  PROVE  x % U32Mod \in Nat /\ x % U32Mod <= x
BY WidthAssumption

(* Wherever one of the sums wraps the count is too small: it is never more *)
(* than specified, and at least one tick.                                  *)
LEMMA TicksBounded ==
  ASSUME NEW len \in Nat \ {0}, NEW latency \in Nat \ {0},
         NEW burst \in Nat \ {0}
  PROVE  /\ 1 <= transfer_ticks(len, latency, burst)
         /\ transfer_ticks(len, latency, burst)
              <= CeilDiv(len, WordBytes) * latency
                 + CeilDiv(CeilDiv(len, WordBytes), burst) - 1
<1> DEFINE words   == CeilDiv(len, WordBytes)
           bursts  == CeilDiv(words, burst)
           words2  == ((len + WordBytes - 1) % U32Mod) \div WordBytes
           bursts2 == ((words2 + burst - 1) % U32Mod) \div burst
           total   == words2 * latency + (bursts2 - 1)
<1>1. /\ words = (len + WordBytes - 1) \div WordBytes
      /\ words \in Nat \ {0}
  BY CeilDivFacts, WidthAssumption
<1>2. words2 \in Nat /\ words2 <= words
  <2> DEFINE x == len + WordBytes - 1
             y == x % U32Mod
  <2>1. x \in Nat /\ y \in Nat /\ y <= x
    BY ModShrinks, WidthAssumption
  <2> HIDE DEF x, y
  <2>2. y \div WordBytes \in Nat /\ y \div WordBytes <= x \div WordBytes
    BY <2>1, WidthAssumption
  <2> QED BY <1>1, <2>2 DEF x, y
<1> HIDE DEF words, words2
<1>3. bursts = (words + burst - 1) \div burst /\ bursts \in Nat \ {0}
  BY <1>1, CeilDivFacts
<1>4. bursts2 \in Nat /\ bursts2 <= bursts
  <2> DEFINE x == words2 + burst - 1
             y == x % U32Mod
             z == words + burst - 1
  <2>1. x \in Nat /\ z \in Nat /\ y \in Nat /\ y <= x /\ x <= z
    BY <1>1, <1>2, ModShrinks
  <2> HIDE DEF x, y, z
  <2>2. y \div burst \in Nat /\ y \div burst <= z \div burst
    BY <2>1
  <2> QED BY <1>3, <2>2 DEF x, y, z
<1> HIDE DEF bursts, bursts2
<1>5. /\ words2 * latency \in Nat /\ words * latency \in Nat \ {0}
      /\ words2 * latency <= words * latency
  BY <1>1, <1>2
<1>6. total \in Int /\ total >= -1 /\ total <= words * latency + bursts - 1
  BY <1>3, <1>4, <1>5
<1>7. 1 <= words * latency + bursts - 1
  BY <1>3, <1>5
<1>8. transfer_ticks(len, latency, burst) =
        IF AsInt32(total % U32Mod) < 1 THEN 1 ELSE AsInt32(total % U32Mod)
  BY DEF transfer_ticks, words2, bursts2
<1>9. words * latency + bursts - 1 \in Int
  BY <1>3, <1>5
<1> HIDE DEF total
<1>10. CASE total >= 0
  <2>1. total % U32Mod \in Nat /\ total % U32Mod <= total
    BY <1>6, <1>10, ModShrinks
  <2>2. AsInt32(total % U32Mod) \in Int /\ AsInt32(total % U32Mod) <= total
    BY <1>6, <2>1, WidthAssumption DEF AsInt32
  <2> QED BY <1>6, <1>7, <1>8, <1>9, <2>2 DEF words, bursts
<1>11. CASE total = -1
  <2>1. total % U32Mod = U32Mod - 1
    BY <1>11, WidthAssumption
  <2>2. AsInt32(total % U32Mod) < 1
    BY <2>1, WidthAssumption DEF AsInt32
  <2> QED BY <1>7, <1>8, <1>9, <2>2 DEF words, bursts
<1> QED BY <1>6, <1>10, <1>11

-----------------------------------------------------------------------------
(* The three parties. *)

(* The requests that are made. *)
RequestOK ==
  /\ req.cfg \in Configs
  /\ req.src \in Nat
  /\ req.len \in Nat
  /\ req.latency \in Nat \ {0}
  /\ req.burst \in Nat \ {0}

(* What has been answered is what the three parties compute; the engine is *)
(* asked last.                                                             *)
AnswersOK ==
  /\ ans = [driver |-> ans.driver, engine |-> ans.engine,
            route |-> ans.route, ticks |-> ans.ticks]
  /\ ans.driver # Unanswered =>
       ans.driver = validate(req.cfg, FALSE, req.src, req.dst, req.len)
  /\ ans.engine # Unanswered =>
       /\ ans.driver # Unanswered
       /\ ans.engine = soc_dma_start_code(req.cfg, req.src, req.dst, req.len)
       /\ ans.route = soc_bus_route(req.cfg.map, req.src)
       /\ ans.ticks = transfer_ticks(req.len, req.latency, req.burst)

(* A behaviour answers one request that is made. *)
LEMMA AnswersInvariant == Spec => [](RequestOK /\ AnswersOK)
<1>1. Init => RequestOK /\ AnswersOK
  <2> SUFFICES ASSUME Init PROVE RequestOK /\ AnswersOK
    OBVIOUS
  <2>1. AnswersOK
    BY DEF Init, AnswersOK
  <2>2. CASE req \in Requests
    <3>1. /\ req.cfg \in Configs /\ req.src \in Uint32 /\ req.len \in Lengths
          /\ req.latency = 1 /\ req.burst = 1
      BY <2>2 DEF Requests
    <3>2. Uint32 \subseteq Nat /\ 1 \in Nat \ {0}
      BY WidthAssumption DEF Uint32
    <3> QED BY <2>1, <3>1, <3>2, RequestAssumption DEF RequestOK
  <2>3. CASE req \in TimedRequests
    <3>1. PICK cfg \in Configs, len \in Lengths, lat \in Latencies, burst \in Bursts :
            req = [cfg |-> cfg, src |-> 2, dst |-> 2, len |-> len, latency |-> lat,
                   burst |-> burst]
      BY <2>3 DEF TimedRequests
    <3>2. len \in Nat /\ lat \in Nat \ {0} /\ burst \in Nat \ {0}
      BY RequestAssumption
    <3> QED BY <2>1, <3>1, <3>2 DEF RequestOK
  <2> QED BY <2>2, <2>3 DEF Init
<1>2. RequestOK /\ AnswersOK /\ [Next]_vars => (RequestOK /\ AnswersOK)'
  <2> SUFFICES ASSUME RequestOK, AnswersOK, [Next]_vars
               PROVE  (RequestOK /\ AnswersOK)'
    OBVIOUS
  <2>1. CASE DriverValidates
    BY <2>1 DEF DriverValidates, RequestOK, AnswersOK
  <2>2. CASE EngineStarts
    BY <2>2 DEF EngineStarts, RequestOK, AnswersOK
  <2>3. CASE UNCHANGED vars
    BY <2>3 DEF vars, RequestOK, AnswersOK
  <2> QED BY <2>1, <2>2, <2>3 DEF Next
<1> QED BY <1>1, <1>2, PTL DEF Spec

(* The driver gives every request the verdict the engine gives it          *)
(* (dma.c:62-99 and soc_dma.c:108-159), on every platform.                 *)
THEOREM VerdictsAgree == Spec => []SameVerdict
<1>1. ASSUME NEW cfg \in Configs, NEW src, NEW dst, NEW len
      PROVE  validate(cfg, FALSE, src, dst, len)
               = soc_dma_start_code(cfg, src, dst, len)
  <2>1. cfg.hasCaps = TRUE /\ cfg.strict \in BOOLEAN
    BY RequestAssumption
  <2> QED BY <2>1, ValidationAgrees
<1>2. RequestOK /\ AnswersOK => SameVerdict
  <2> SUFFICES ASSUME RequestOK, AnswersOK PROVE SameVerdict
    OBVIOUS
  <2>1. validate(req.cfg, FALSE, req.src, req.dst, req.len)
          = soc_dma_start_code(req.cfg, req.src, req.dst, req.len)
    BY <1>1 DEF RequestOK
  <2> QED BY <2>1 DEF AnswersOK, SameVerdict
<1> QED BY <1>2, AnswersInvariant, PTL

(* The bus sends an aligned access to the region the DMA finds for the     *)
(* word (bus.c:9-25 and mem_regions.h), on every platform of whole words.  *)
THEOREM BusAndDmaAgree == Spec => []RouteIsOwner
<1>1. RequestOK /\ AnswersOK => RouteIsOwner
  BY RouteFindsOwner, RequestAssumption DEF RequestOK, AnswersOK, RouteIsOwner
<1> QED BY <1>1, AnswersInvariant, PTL

(* The engine counts the ticks that soc-spec.md specifies, for every       *)
(* latency and burst length for which nothing wraps, and at least one and  *)
(* at most as many where something does (soc_dma.c:160-165).               *)
THEOREM TicksCorrect == Spec => []TicksAsSpecified
<1>1. ASSUME RequestOK, AnswersOK PROVE TicksAsSpecified
  <2> SUFFICES ASSUME ans.engine = "OK"
               PROVE  /\ 1 <= ans.ticks
                      /\ ans.ticks <= SpecifiedTicks
                      /\ NothingWraps => ans.ticks = SpecifiedTicks
    BY DEF TicksAsSpecified
  <2>1. ans.ticks = transfer_ticks(req.len, req.latency, req.burst)
    BY <1>1 DEF AnswersOK, Unanswered
  <2>2. soc_dma_start_code(req.cfg, req.src, req.dst, req.len) = "OK"
    BY <1>1 DEF AnswersOK, Unanswered
  <2>3. req.len # 0
    BY <2>2 DEF soc_dma_start_code
  <2>4. /\ req.len \in Nat \ {0} /\ req.latency \in Nat \ {0}
        /\ req.burst \in Nat \ {0}
    BY <1>1, <2>3 DEF RequestOK
  <2>5. 1 <= ans.ticks /\ ans.ticks <= SpecifiedTicks
    BY <2>1, <2>4, TicksBounded DEF SpecifiedTicks
  <2>6. NothingWraps => ans.ticks = SpecifiedTicks
    BY <2>1, <2>4, TicksFormula DEF NothingWraps, SpecifiedTicks
  <2> QED BY <2>5, <2>6
<1> QED BY <1>1, AnswersInvariant, PTL

=============================================================================
