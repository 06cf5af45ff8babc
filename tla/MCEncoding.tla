----------------------------- MODULE MCEncoding -----------------------------
(* Every instruction of RV32I, its registers and immediate at values that  *)
(* tell their bits apart: each single bit of the field, both ends of the   *)
(* signed range, and alternating bits; two instructions in a row.          *)
EXTENDS RV32IEncoding

Inst(op, rd, rs1, rs2, imm) ==
    [op |-> op, rd |-> rd, rs1 |-> rs1, rs2 |-> rs2, imm |-> imm]

(* Immediates of a signed field of width bits, multiples of 2^low.         *)
Signed(width, low) ==
    {2^k : k \in low .. width - 2}
    \cup {0, -(2^(width - 1)), 2^(width - 1) - 2^low, -(2^low)}
Registers == {0, 1, 2, 4, 8, 16, 31}
SomeInsts(op) ==
    LET f == InstrInfo[op].format
    IN  CASE f = "RVInstR" -> {Inst(op, r, s, t, 0) : r \in {1, 30}, s \in {2, 16},
                                                    t \in Registers}
          [] f = "RVInstI" -> {Inst(op, r, s, 0, i) : r \in {5}, s \in {26},
                                                    i \in Signed(12, 0)}
          [] f = "RVInstIShift" -> {Inst(op, r, 12, 0, i) : r \in {3, 28},
                                                    i \in {0, 1, 2, 4, 8, 16, 31}}
          [] f = "RVInstS" -> {Inst(op, 0, 21, 10, i) : i \in Signed(12, 0)}
          [] f = "RVInstB" -> {Inst(op, 0, 13, 18, i) : i \in Signed(13, 1)}
          [] f = "RVInstU" -> {Inst(op, 17, 0, 0, i) :
                               i \in {2^k : k \in 0 .. 19} \cup {0, 2^20 - 1}}
          [] f = "RVInstJ" -> {Inst(op, 1, 0, 0, i) : i \in Signed(21, 1)}
EveryInst == UNION {SomeInsts(op) : op \in DOMAIN InstrInfo}
             \cup {Inst("PseudoBR", 0, 0, 0, i) : i \in Signed(21, 1)}
MCStreams == {<<i, Inst("SW", 0, 2, 1, -4)>> : i \in EveryInst}
=============================================================================
