----------------------------- MODULE MCDmaCaps ------------------------------
(***************************************************************************)
(* Checks the two validations, the address decoder and the transfer time   *)
(* against each other and against reference definitions, for every request *)
(* of a scaled-down address space.  A behaviour is one request: the driver *)
(* validates it, the engine validates and times it, the bus decodes its    *)
(* source address.                                                         *)
(***************************************************************************)
EXTENDS DmaCaps, TLC

CONSTANTS Configs,                     \* the platforms requests are made on
          Lengths, Latencies, Bursts

(* What a platform owes the two validations and the decoder: a capability  *)
(* record, and a map of whole words without overlaps.                      *)
ASSUME RequestAssumption ==
  /\ \A cfg \in Configs : /\ cfg.hasCaps = TRUE
                           /\ cfg.strict \in BOOLEAN
                           /\ WellFormedMap(cfg.map)
                           /\ WordAlignedMap(cfg.map)
  /\ Lengths \subseteq Nat
  /\ Latencies \subseteq Nat \ {0}
  /\ Bursts \subseteq Nat \ {0}

VARIABLES req,  \* the request, and the platform it is made on
          ans   \* what each party has answered so far

vars == <<req, ans>>

-----------------------------------------------------------------------------
(* Two platforms with memory map entries 0 and 1 for ROM and SRAM, as in   *)
(* platform_vlab.c; the second ends at the end of the address space.       *)
Region(base, size, type) == [base |-> base, size |-> size, type |-> type]

VlabMap == << Region(0, 2, "ROM"), Region(2, 6, "SRAM"),
              Region(8, 4, "MMIO"), Region(12, 2, "MMIO") >>

OtherMap == << Region(6, 2, "ROM"), Region(0, 4, "SRAM"),
               Region(8, 4, "DRAM"), Region(14, 2, "PERIPHERAL") >>

CapsChoices ==
  {[alignment |-> a, max_transfer |-> m, supports_ram_to_ram |-> r,
    supports_mem_to_periph |-> TRUE, supports_periph_to_mem |-> p] :
      a \in {0, 2}, m \in {0, 4}, r \in BOOLEAN, p \in BOOLEAN}

MCConfigs ==
  {[map |-> map, hasCaps |-> TRUE, caps |-> c, strict |-> s,
    fifo |-> (8 :> {"dst"} @@ 10 :> {"src"} @@ 12 :> {})] :
      map \in {VlabMap, OtherMap}, c \in CapsChoices, s \in BOOLEAN}

Requests == [cfg : Configs, src : Uint32, dst : Uint32, len : Lengths,
             latency : {1}, burst : {1}]

TimedRequests ==
  {[cfg |-> cfg, src |-> 2, dst |-> 2, len |-> len, latency |-> lat,
    burst |-> burst] :
      cfg \in {c \in Configs : c.caps.max_transfer = 0},
      len \in Lengths, lat \in Latencies, burst \in Bursts}

Unanswered == "unanswered"

Init ==
  /\ req \in Requests \cup TimedRequests
  /\ ans = [driver |-> Unanswered, engine |-> Unanswered,
            route |-> Unanswered, ticks |-> Unanswered]

DriverValidates ==
  /\ ans.driver = Unanswered
  /\ ans' = [ans EXCEPT !.driver =
               validate(req.cfg, FALSE, req.src, req.dst, req.len)]
  /\ UNCHANGED req

EngineStarts ==
  /\ ans.driver # Unanswered
  /\ ans.engine = Unanswered
  /\ ans' = [ans EXCEPT
       !.engine = soc_dma_start_code(req.cfg, req.src, req.dst, req.len),
       !.route  = soc_bus_route(req.cfg.map, req.src),
       !.ticks  = transfer_ticks(req.len, req.latency, req.burst)]
  /\ UNCHANGED req

Next == DriverValidates \/ EngineStarts

Spec == Init /\ [][Next]_vars

-----------------------------------------------------------------------------
(* The driver accepts exactly the requests the engine accepts, and rejects *)
(* the others with the engine's code (dma.c:55-57, "same order as the      *)
(* soc_c model"), whether or not a FIFO table is installed.                *)
SameVerdict == ans.engine # Unanswered => ans.driver = ans.engine

(* The bus and the DMA agree on who owns a word: on a map of whole words   *)
(* an aligned address is decoded to the region that find_region gives for  *)
(* the word at it, although the decoder probes peripherals bytewise.       *)
RouteIsOwner ==
  (ans.engine # Unanswered /\ req.src % WordBytes = 0) =>
    ans.route = find_region(req.cfg.map, req.src, WordBytes)

(* The specified transfer time, words*latency + (bursts-1), is what the    *)
(* engine counts as long as it fits in int32_t and the rounding up of the  *)
(* burst count does not wrap.  Where something wraps the transfer is too   *)
(* short, but an accepted one still takes a tick and never longer than     *)
(* specified: no request makes an engine that hangs or runs for ages.      *)
CeilDiv(a, b) == CHOOSE q \in 0 .. a : q * b >= a /\ (q - 1) * b < a

SpecifiedTicks ==
  LET words == CeilDiv(req.len, WordBytes)
  IN  words * req.latency + CeilDiv(words, req.burst) - 1

NothingWraps ==
  /\ req.len + WordBytes <= U32Mod
  /\ CeilDiv(req.len, WordBytes) + req.burst <= U32Mod
  /\ 2 * SpecifiedTicks < U32Mod

TicksAsSpecified ==
  ans.engine = "OK" =>
    /\ 1 <= ans.ticks
    /\ ans.ticks <= SpecifiedTicks
    /\ NothingWraps => ans.ticks = SpecifiedTicks

=============================================================================
