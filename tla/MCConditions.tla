---------------------------- MODULE MCConditions ----------------------------
(* 3-bit words: four negative and four non-negative ones, so that every    *)
(* signed and unsigned order of two words occurs.                          *)
EXTENDS RV32IConditions

PatternCodes == {"SETLT", "SETULT"}
=============================================================================
