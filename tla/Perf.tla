-------------------------------- MODULE Perf --------------------------------
(***************************************************************************)
(* The performance counters (soc_c/src/soc_perf.c).  Each field of the     *)
(* record is the register of that name; enabled repeats the ENABLE bit of  *)
(* CTRL.  Every count is gated by enabled and wraps with the width of the  *)
(* counter.                                                                *)
(***************************************************************************)
EXTENDS U32

VARIABLE perf

PerfCounters == {"CYCLES", "MEM_ACC", "DMA_BYTES", "IRQ_COUNT", "STALLS"}

PerfType == [CYCLES : Counter, MEM_ACC : Counter, DMA_BYTES : Counter,
             IRQ_COUNT : Counter, STALLS : Counter,
             enabled : BOOLEAN, CTRL : SUBSET {"ENABLE", "RESET"}]

soc_perf_init ==
  [CYCLES |-> 0, MEM_ACC |-> 0, DMA_BYTES |-> 0, IRQ_COUNT |-> 0,
   STALLS |-> 0, enabled |-> FALSE, CTRL |-> {}]

soc_perf_reset_counters(p) ==
  [r \in DOMAIN p |-> IF r \in PerfCounters THEN 0 ELSE p[r]]

(* soc_perf_tick and the four soc_perf_count functions. *)
Count(p, counter, n) ==
  IF p.enabled THEN [p EXCEPT ![counter] = Bump(@, n)] ELSE p

(* A write of CTRL stores the value as it is, the RESET bit included. *)
soc_perf_write_ctrl(p, bits) ==
  LET q == [p EXCEPT !.CTRL = bits, !.enabled = "ENABLE" \in bits]
  IN  IF "RESET" \in bits THEN soc_perf_reset_counters(q) ELSE q

=============================================================================
