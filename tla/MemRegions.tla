----------------------------- MODULE MemRegions -----------------------------
(***************************************************************************)
(* Memory maps and address decoding: firmware/include/mem_regions.h and    *)
(* soc_c/src/bus.c.  A map is a sequence of regions [base, size, type] in  *)
(* the order of the platform's table; names and permissions decide nothing *)
(* and are left out.  Addresses and lengths are uint32_t, so both are      *)
(* below U32Mod (2^32); sums are taken in uint64_t and do not wrap.        *)
(* Region numbers are those of the C table, from 0; None stands for NULL   *)
(* and for the decoder's -1.                                               *)
(***************************************************************************)
EXTENDS Integers, Sequences

CONSTANTS U32Mod,    \* 2^32 in the code
          WordBytes  \* bytes of a bus word, 4 in the code

ASSUME WidthAssumption ==
  /\ U32Mod \in Nat \ {0}
  /\ WordBytes \in Nat \ {0}

Uint32 == 0 .. U32Mod - 1

(* The cast of a uint32_t to int32_t. *)
AsInt32(n) == IF 2 * n >= U32Mod THEN n - U32Mod ELSE n

None == -1

MemTypes == {"ROM", "SRAM", "DRAM", "MMIO", "PERIPHERAL"}

Regions == [base : Uint32, size : Uint32, type : MemTypes]

memory_region_contains(r, addr, len) ==
  /\ len # 0
  /\ addr + len <= U32Mod
  /\ addr >= r.base
  /\ addr + len <= r.base + r.size

memory_range_overlaps(a_base, a_len, b_base, b_len) ==
  /\ a_len # 0
  /\ b_len # 0
  /\ a_base < b_base + b_len
  /\ b_base < a_base + a_len

(* The regions that hold all of addr .. addr+len-1, and the first of them. *)
Containing(map, addr, len) ==
  {i \in 0 .. Len(map) - 1 : memory_region_contains(map[i + 1], addr, len)}

First(S) ==
  IF S = {} THEN None ELSE CHOOSE i \in S : \A j \in S : i <= j

find_region(map, addr, len) == First(Containing(map, addr, len))

(* Mutant: the decoder forgets the first peripheral window. *)
Mutant_route_skips_window(map, addr) ==
  LET first == find_region(map, addr, WordBytes)
  IN  IF first \in {0, 1} THEN first
      ELSE First({i \in Containing(map, addr, 1) : i >= 3})

(* The decoder probes the two memories with the width of a word and the    *)
(* windows of the peripherals with the width of a byte.                    *)
soc_bus_route(map, addr) ==
  LET first == find_region(map, addr, WordBytes)
  IN  IF first \in {0, 1} THEN first
      ELSE First({i \in Containing(map, addr, 1) : i >= 2})

-----------------------------------------------------------------------------
(* A map a platform may install: no two regions overlap, none passes the   *)
(* end of the address space.                                               *)
WellFormedMap(map) ==
  /\ map \in Seq(Regions)
  /\ \A i \in 1 .. Len(map) : map[i].base + map[i].size <= U32Mod
  /\ \A i, j \in 1 .. Len(map) :
       i # j => ~memory_range_overlaps(map[i].base, map[i].size,
                                       map[j].base, map[j].size)

(* A map whose regions are whole words, as those of the platform are. *)
WordAlignedMap(map) ==
  \A i \in 1 .. Len(map) :
    map[i].base % WordBytes = 0 /\ map[i].size % WordBytes = 0

=============================================================================
