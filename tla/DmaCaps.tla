------------------------------ MODULE DmaCaps -------------------------------
(***************************************************************************)
(* What the DMA may do on a platform, and the two places that decide it.   *)
(* firmware/include/dma_caps.h defines capabilities and classification.    *)
(* The engine validates at START (soc_c/src/soc_dma.c) and the driver      *)
(* validates before it programs the engine (firmware/drivers/dma.c); the   *)
(* two are written separately and are translated separately here, so that  *)
(* their agreement is a theorem and not a definition.                      *)
(*                                                                         *)
(* A configuration is a record                                             *)
(*   map     the memory map (<<>> for a NULL table)                        *)
(*   hasCaps whether a capability record is installed (the driver's s_caps *)
(*           is NULL before dma_init; the engine always has one)           *)
(*   caps    the capability record                                         *)
(*   strict  whether a table of DMA-capable FIFOs is installed             *)
(*   fifo    that table: the roles of each FIFO register address           *)
(***************************************************************************)
EXTENDS MemRegions

Roles == {"src", "dst"}

Caps == [alignment : Uint32, max_transfer : Uint32, supports_ram_to_ram : BOOLEAN,
         supports_mem_to_periph : BOOLEAN, supports_periph_to_mem : BOOLEAN]

(* Error codes, of the ERR_CODE register and of the driver's results. *)
ErrCodes == {"ADDR", "LEN", "ALIGN", "UNSUPPORTED"}

dma_periph_find(cfg, addr) == cfg.strict /\ addr \in DOMAIN cfg.fifo

IsMem(r) == r.type \in {"SRAM", "DRAM"}

dma_endpoint_type(map, addr, len) ==
  LET i == find_region(map, addr, len)
  IN  IF i = None THEN "invalid"
      ELSE IF IsMem(map[i + 1]) THEN "mem"
      ELSE IF map[i + 1].type \in {"MMIO", "PERIPHERAL"} THEN "periph"
      ELSE "device"

dma_direction_supported(caps, src_type, dst_type) ==
  \/ src_type = "mem" /\ dst_type = "mem" /\ caps.supports_ram_to_ram
  \/ /\ src_type = "mem" /\ dst_type \in {"periph", "device"}
     /\ caps.supports_mem_to_periph
  \/ /\ src_type \in {"periph", "device"} /\ dst_type = "mem"
     /\ caps.supports_periph_to_mem

-----------------------------------------------------------------------------
(* The engine: the code with which a START ends, "OK" if it begins. *)

soc_endpoint_class(cfg, addr, len) ==
  IF ~cfg.strict THEN dma_endpoint_type(cfg.map, addr, len)
  ELSE IF dma_periph_find(cfg, addr) THEN "periph"
  ELSE LET i == find_region(cfg.map, addr, len)
       IN  IF i = None THEN "invalid"
           ELSE IF IsMem(cfg.map[i + 1]) THEN "mem" ELSE "incapable"

soc_dma_start_code(cfg, src, dst, len) ==
  LET align == IF cfg.caps.alignment > 1 THEN cfg.caps.alignment ELSE 1
      s     == soc_endpoint_class(cfg, src, len)
      d     == soc_endpoint_class(cfg, dst, len)
      RoleMissing(addr, role) ==
        dma_periph_find(cfg, addr) /\ role \notin cfg.fifo[addr]
  IN  IF len = 0 \/ (align > 1 /\ len % align # 0) THEN "LEN"
      ELSE IF align > 1 /\ (src % align # 0 \/ dst % align # 0) THEN "ALIGN"
      ELSE IF cfg.caps.max_transfer # 0 /\ len > cfg.caps.max_transfer
           THEN "UNSUPPORTED"
      ELSE IF "invalid" \in {s, d} THEN "ADDR"
      ELSE IF "incapable" \in {s, d} THEN "UNSUPPORTED"
      ELSE IF RoleMissing(src, "src") \/ RoleMissing(dst, "dst")
           THEN "UNSUPPORTED"
      ELSE IF ~dma_direction_supported(cfg.caps, s, d) THEN "UNSUPPORTED"
      ELSE "OK"

(* Mutant: one tick per burst instead of one between bursts. *)
Mutant_ticks_per_burst(len, latency_per_word, burst) ==
  LET words  == ((len + WordBytes - 1) % U32Mod) \div WordBytes
      bursts == ((words + burst - 1) % U32Mod) \div burst
      total  == AsInt32((words * latency_per_word + bursts) % U32Mod)
  IN  IF total < 1 THEN 1 ELSE total

(* The ticks a transfer takes.  Products and sums are uint32_t and wrap,   *)
(* the result is cast to int32_t and is at least 1.                        *)
transfer_ticks(len, latency_per_word, burst) ==
  LET words  == ((len + WordBytes - 1) % U32Mod) \div WordBytes
      bursts == ((words + burst - 1) % U32Mod) \div burst
      total  == AsInt32((words * latency_per_word + (bursts - 1)) % U32Mod)
  IN  IF total < 1 THEN 1 ELSE total

-----------------------------------------------------------------------------
(* The driver: classify and validate. *)

(* Mutant: a mapped address without a FIFO is taken for an unmapped one. *)
Mutant_classify_unmapped(cfg, addr, len) ==
  LET i == find_region(cfg.map, addr, len)
  IN  IF dma_periph_find(cfg, addr) THEN "EP_PERIPH"
      ELSE IF i # None /\ IsMem(cfg.map[i + 1]) THEN "EP_MEM" ELSE "EP_INVALID"

classify(cfg, addr, len) ==
  IF dma_periph_find(cfg, addr) THEN "EP_PERIPH"
  ELSE LET i == find_region(cfg.map, addr, len)
       IN  IF i = None THEN "EP_INVALID"
           ELSE IF IsMem(cfg.map[i + 1]) THEN "EP_MEM" ELSE "EP_INCAPABLE"

validate(cfg, busy, src, dst, len) ==
  LET align  == IF cfg.hasCaps /\ cfg.caps.alignment > 1
                THEN cfg.caps.alignment ELSE 1
      s_kind == classify(cfg, src, len)
      d_kind == classify(cfg, dst, len)
      TypeOf(kind) == IF kind = "EP_MEM" THEN "mem" ELSE "periph"
      s_type == IF cfg.strict THEN TypeOf(s_kind)
                ELSE dma_endpoint_type(cfg.map, src, len)
      d_type == IF cfg.strict THEN TypeOf(d_kind)
                ELSE dma_endpoint_type(cfg.map, dst, len)
      endpoints ==
        IF cfg.strict
        THEN IF "EP_INVALID" \in {s_kind, d_kind} THEN "ADDR"
             ELSE IF "EP_INCAPABLE" \in {s_kind, d_kind} THEN "UNSUPPORTED"
             ELSE IF s_kind = "EP_PERIPH" /\ "src" \notin cfg.fifo[src]
                  THEN "UNSUPPORTED"
             ELSE IF d_kind = "EP_PERIPH" /\ "dst" \notin cfg.fifo[dst]
                  THEN "UNSUPPORTED"
             ELSE "OK"
        ELSE IF "invalid" \in {s_type, d_type} THEN "ADDR" ELSE "OK"
  IN  IF busy THEN "BUSY"
      ELSE IF len = 0 \/ (align > 1 /\ len % align # 0) THEN "LEN"
      ELSE IF align > 1 /\ (src % align # 0 \/ dst % align # 0) THEN "ALIGN"
      ELSE IF cfg.hasCaps /\ cfg.caps.max_transfer # 0
              /\ len > cfg.caps.max_transfer THEN "UNSUPPORTED"
      ELSE IF endpoints # "OK" THEN endpoints
      ELSE IF cfg.hasCaps /\ ~dma_direction_supported(cfg.caps, s_type, d_type)
           THEN "UNSUPPORTED"
      ELSE "OK"

=============================================================================
