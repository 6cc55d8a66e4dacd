---------------------------- MODULE MCDmaDriver -----------------------------
(***************************************************************************)
(* Model-checking instances of the DMA driver on a scaled-down platform:   *)
(* two-byte words, two bytes of ROM, four of SRAM, a UART window with the  *)
(* two FIFO registers, and unmapped addresses above it.                    *)
(***************************************************************************)
EXTENDS DmaDriver, TLC

MCPlatform ==
  [map |-> << [base |-> 0, size |-> 2, type |-> "ROM"],
              [base |-> 2, size |-> 4, type |-> "SRAM"],
              [base |-> 6, size |-> 4, type |-> "MMIO"] >>,
   hasCaps |-> TRUE,
   caps |-> [alignment |-> 2, max_transfer |-> 4,
             supports_ram_to_ram |-> TRUE, supports_mem_to_periph |-> TRUE,
             supports_periph_to_mem |-> TRUE],
   strict |-> TRUE,
   fifo |-> (6 :> {"dst"} @@ 8 :> {"src"})]

(* A configuration for another platform: no alignment, no limit.  With it  *)
(* the driver accepts transfers that the engine refuses.                   *)
LaxCaps == {[MCPlatform.caps EXCEPT !.alignment = 1, !.max_transfer = 0]}

SameMap == {MCPlatform.map}

AllLines == {Lines}
DmaMasks == {{}, {DMA}, Lines}
NoChoice == {}

=============================================================================
