-------------------------------- MODULE U32 ---------------------------------
(***************************************************************************)
(* The statistics counters of the program are uint32_t and wrap.  They     *)
(* wrap at CounterMod, which is 2^32 in the code and small in the          *)
(* model-checking instances (1 switches the counting off).                 *)
(***************************************************************************)
EXTENDS Integers

CONSTANT CounterMod

ASSUME CounterModAssumption == CounterMod \in Nat \ {0}

Counter == 0 .. CounterMod - 1

Bump(c, n) == (c + n) % CounterMod

=============================================================================
