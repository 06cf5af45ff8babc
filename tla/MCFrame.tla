------------------------------ MODULE MCFrame ------------------------------
(* Small frames: lists of at most two objects out of a scalar, a byte, an  *)
(* odd-sized buffer and an over-aligned one, so that every placement needs *)
(* rounding; argument counts on both sides of the eight registers.         *)
EXTENDS RV32IFrame

Obj(s, a) == [size |-> s, align |-> a]
SmallObjects == {Obj(4, 4), Obj(1, 1), Obj(10, 2), Obj(8, 16), Obj(4, 32)}
MCNewObjects == {<<o>> : o \in SmallObjects}
                \cup {<<o, Obj(4, 4)>> : o \in SmallObjects}
BigObjects == {<<Obj(4, 4)>>, <<Obj(2100, 4)>>}
MCArgCounts == {0, 8, 9, 11}
MCCSCounts == {0, 1, 3, 13}
=============================================================================
