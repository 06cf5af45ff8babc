----------------------------- MODULE MCGlobals -----------------------------
(* Every address of a small address space: 8 low parts, 4 high ones.       *)
EXTENDS RV32IGlobals

EveryAddress == 0 .. 31
SmallOffsets == {0, 1, 4}
=============================================================================
