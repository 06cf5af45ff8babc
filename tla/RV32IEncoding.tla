---------------------------- MODULE RV32IEncoding ----------------------------
(***************************************************************************)
(* RV32IMCCodeEmitter appends the encoding of one MCInst after another to  *)
(* a buffer of bytes; a machine reads the buffer back as instructions.     *)
(*                                                                         *)
(* An MCInst is [op, rd, rs1, rs2, imm] with registers as encodings, 0 for *)
(* an operand the instruction does not have.  A word is a function from    *)
(* the bits 0 .. 31 of `field bits<32> Inst' to 0 or 1.  Branch and jump   *)
(* targets are displacements here: for a target that is still a label,     *)
(* getBranchTargetOpValue encodes 0.                                       *)
(***************************************************************************)
EXTENDS Integers, Sequences

CONSTANTS
    Streams     \* the sequences of MCInsts to emit

VARIABLES
    insts,      \* the MCInsts the emitter is given
    emitted,    \* how many of them are in the buffer
    CB,         \* the buffer
    decoded     \* the instructions the machine has read

vars == <<insts, emitted, CB, decoded>>
-----------------------------------------------------------------------------
(* Instruction formats: bit b of the word for the operands and fields v of *)
(* an instruction.  Where a format says nothing else its word is laid out  *)
(* as that of RVInstR.                                                     *)

(* Bit k of a number.  A negative immediate is taken in two's complement;  *)
(* the bits outside the operand's field are lost.                          *)
Bit(x, k) ==
    LET shifted[j \in 0 .. 31] == IF j = 0 THEN x ELSE shifted[j - 1] \div 2
    IN  shifted[k] % 2

RV32IInst(v, b) == Bit(v.opcode, b)
RVInstR(v, b) ==
    CASE b \in 25 .. 31 -> Bit(v.funct7, b - 25)
      [] b \in 20 .. 24 -> Bit(v.rs2, b - 20)
      [] b \in 15 .. 19 -> Bit(v.rs1, b - 15)
      [] b \in 12 .. 14 -> Bit(v.funct3, b - 12)
      [] b \in 7 .. 11 -> Bit(v.rd, b - 7)
      [] b \in 0 .. 6 -> RV32IInst(v, b)
RVInstI(v, b) == IF b >= 20 THEN Bit(v.imm, b - 20) ELSE RVInstR(v, b)
RVInstIShift(v, b) ==
    IF b \in 20 .. 24 THEN Bit(v.imm, b - 20) ELSE RVInstR(v, b)
RVInstS(v, b) ==
    CASE b \in 25 .. 31 -> Bit(v.imm, b - 20)
      [] b \in 7 .. 11 -> Bit(v.imm, b - 7)
      [] OTHER -> RVInstR(v, b)
RVInstB_swapped(v, b) ==    \* mutant: bits 11 and 12 of imm13 exchanged
    CASE b = 31 -> Bit(v.imm, 11)
      [] b \in 25 .. 30 -> Bit(v.imm, b - 20)
      [] b \in 8 .. 11 -> Bit(v.imm, b - 7)
      [] b = 7 -> Bit(v.imm, 12)
      [] OTHER -> RVInstR(v, b)
RVInstB(v, b) ==
    CASE b = 31 -> Bit(v.imm, 12)
      [] b \in 25 .. 30 -> Bit(v.imm, b - 20)
      [] b \in 8 .. 11 -> Bit(v.imm, b - 7)
      [] b = 7 -> Bit(v.imm, 11)
      [] OTHER -> RVInstR(v, b)
RVInstU(v, b) == IF b >= 12 THEN Bit(v.imm, b - 12) ELSE RVInstR(v, b)
RVInstJ(v, b) ==
    CASE b = 31 -> Bit(v.imm, 20)
      [] b \in 21 .. 30 -> Bit(v.imm, b - 20)
      [] b = 20 -> Bit(v.imm, 11)
      [] b \in 12 .. 19 -> Bit(v.imm, b)
      [] OTHER -> RVInstR(v, b)

(* Instructions: format, opcode, funct3 and funct7 of each.                *)
Def(format, opcode, funct3, funct7) ==
    [format |-> format, opcode |-> opcode, funct3 |-> funct3,
     funct7 |-> funct7]
ALU(funct3, funct7) == Def("RVInstR", 51, funct3, funct7)
ALUImm(funct3) == Def("RVInstI", 19, funct3, 0)
Shift(funct3, imm11_5) == Def("RVInstIShift", 19, funct3, imm11_5)
Branch(funct3) == Def("RVInstB", 99, funct3, 0)
LoadInst(funct3) == Def("RVInstI", 3, funct3, 0)
StoreInst(funct3) == Def("RVInstS", 35, funct3, 0)

InstrInfo ==
    [ADD |-> ALU(0, 0), SUB |-> ALU(0, 32), SLL |-> ALU(1, 0),
     SLT |-> ALU(2, 0), SLTU |-> ALU(3, 0), XOR |-> ALU(4, 0),
     SRL |-> ALU(5, 0), SRA |-> ALU(5, 32), OR |-> ALU(6, 0),
     AND |-> ALU(7, 0),
     ADDI |-> ALUImm(0), SLTI |-> ALUImm(2), SLTIU |-> ALUImm(3),
     XORI |-> ALUImm(4), ORI |-> ALUImm(6), ANDI |-> ALUImm(7),
     SLLI |-> Shift(1, 0), SRLI |-> Shift(5, 0), SRAI |-> Shift(5, 32),
     LUI |-> Def("RVInstU", 55, 0, 0), AUIPC |-> Def("RVInstU", 23, 0, 0),
     BEQ |-> Branch(0), BNE |-> Branch(1), BLT |-> Branch(4),
     BGE |-> Branch(5), BLTU |-> Branch(6), BGEU |-> Branch(7),
     JAL |-> Def("RVInstJ", 111, 0, 0), JALR |-> Def("RVInstI", 103, 0, 0),
     LB |-> LoadInst(0), LH |-> LoadInst(1), LW |-> LoadInst(2),
     LBU |-> LoadInst(4), LHU |-> LoadInst(5),
     SB |-> StoreInst(0), SH |-> StoreInst(1), SW |-> StoreInst(2)]

(* The operands each format has and the values their classes admit; the    *)
(* displacements of branches and jumps are even.                           *)
GPR == 0 .. 31
simm12(imm) == -2048 <= imm /\ imm <= 2047
shamt(imm) == 0 <= imm /\ imm <= 31
uimm20(imm) == 0 <= imm /\ imm <= 1048575
brtarget(imm) == -4096 <= imm /\ imm <= 4095 /\ imm % 2 = 0
jmptarget(imm) == -1048576 <= imm /\ imm <= 1048575 /\ imm % 2 = 0

Operands == [op : DOMAIN InstrInfo, rd : GPR, rs1 : GPR, rs2 : GPR, imm : Int]
MCInst(mi) ==
    LET format == InstrInfo[mi.op].format
    IN  \/ format = "RVInstR" /\ mi.imm = 0
        \/ format = "RVInstI" /\ mi.rs2 = 0 /\ simm12(mi.imm)
        \/ format = "RVInstIShift" /\ mi.rs2 = 0 /\ shamt(mi.imm)
        \/ format = "RVInstS" /\ mi.rd = 0 /\ simm12(mi.imm)
        \/ format = "RVInstB" /\ mi.rd = 0 /\ brtarget(mi.imm)
        \/ /\ format = "RVInstU" /\ mi.rs1 = 0 /\ mi.rs2 = 0
           /\ uimm20(mi.imm)
        \/ /\ format = "RVInstJ" /\ mi.rs1 = 0 /\ mi.rs2 = 0
           /\ jmptarget(mi.imm)

(* PseudoBR is laid out and encoded as JAL with rd = x0, `let rd = 0'.      *)
PseudoBR_linksRA(mi) ==    \* mutant: the jump leaves a return address
    IF mi.op = "PseudoBR" THEN [mi EXCEPT !.op = "JAL", !.rd = 1] ELSE mi
PseudoBR(mi) ==
    IF mi.op = "PseudoBR" THEN [mi EXCEPT !.op = "JAL", !.rd = 0] ELSE mi

Emittable == [op : DOMAIN InstrInfo \cup {"PseudoBR"},
              rd : GPR, rs1 : GPR, rs2 : GPR, imm : Int]

ASSUME StreamsAssumption ==
    \A s \in Streams :
      /\ s \in Seq(Emittable)
      /\ \A k \in DOMAIN s :
           MCInst(PseudoBR(s[k])) /\ (s[k].op = "PseudoBR" => s[k].rd = 0)

getBinaryCodeForInstr(mi) ==
    LET info == InstrInfo[mi.op]
        v == [opcode |-> info.opcode, funct3 |-> info.funct3,
              funct7 |-> info.funct7, rd |-> mi.rd, rs1 |-> mi.rs1,
              rs2 |-> mi.rs2, imm |-> mi.imm]
    IN  [b \in 0 .. 31 |->
           CASE info.format = "RVInstR" -> RVInstR(v, b)
             [] info.format = "RVInstI" -> RVInstI(v, b)
             [] info.format = "RVInstIShift" -> RVInstIShift(v, b)
             [] info.format = "RVInstS" -> RVInstS(v, b)
             [] info.format = "RVInstB" -> RVInstB(v, b)
             [] info.format = "RVInstU" -> RVInstU(v, b)
             [] info.format = "RVInstJ" -> RVInstJ(v, b)]

(* The number in the bits hi .. lo of w.                                   *)
Bits(w, hi, lo) ==
    LET value[b \in 0 .. 32] == IF b > hi THEN 0 ELSE w[b] + 2 * value[b + 1]
    IN  value[lo]

(* support::endian::write of the word, lowest byte first.                  *)
LittleEndian_half(w) == [k \in 1 .. 2 |-> Bits(w, 8 * k - 1, 8 * k - 8)]    \* mutant
LittleEndian(w) == [k \in 1 .. 4 |-> Bits(w, 8 * k - 1, 8 * k - 8)]
-----------------------------------------------------------------------------
(* The machine: RV32I as its manual describes it.                          *)

(* Four bytes are a word again.                                            *)
WordAt(a) == [b \in 0 .. 31 |-> Bit(CB[a + b \div 8], b % 8)]

(* The immediate of a word in each format; shuffled in B and J.            *)
ImmI(w) == Bits(w, 30, 20) - w[31] * 2048
ImmS(w) == Bits(w, 30, 25) * 32 + Bits(w, 11, 7) - w[31] * 2048
ImmB(w) == w[7] * 2048 + Bits(w, 30, 25) * 32 + Bits(w, 11, 8) * 2
           - w[31] * 4096
ImmU(w) == Bits(w, 31, 12)
ImmJ(w) == Bits(w, 19, 12) * 4096 + w[20] * 2048 + Bits(w, 30, 21) * 2
           - w[31] * 2^20

(* How an instruction is laid out, told from its opcode and funct3.        *)
Layout(opcode, funct3) ==
    CASE opcode = 51 -> "register"
      [] opcode = 19 /\ funct3 \in {1, 5} -> "shift"
      [] opcode = 19 /\ funct3 \notin {1, 5} -> "immediate"
      [] opcode \in {3, 103} -> "immediate"
      [] opcode = 35 -> "store"
      [] opcode = 99 -> "branch"
      [] opcode \in {23, 55} -> "upper"
      [] opcode = 111 -> "jump"

(* The instructions a word can stand for: exactly one if all is well.      *)
Matches(w, op) ==
    LET info == InstrInfo[op]
        layout == Layout(info.opcode, info.funct3)
    IN  /\ Bits(w, 6, 0) = info.opcode
        /\ layout \in {"upper", "jump"} \/ Bits(w, 14, 12) = info.funct3
        /\ layout \in {"register", "shift"} => Bits(w, 31, 25) = info.funct7

Decodings(w) ==
    LET rd == Bits(w, 11, 7)
        rs1 == Bits(w, 19, 15)
        rs2 == Bits(w, 24, 20)
        Inst(op, d, s, t, i) ==
          [op |-> op, rd |-> d, rs1 |-> s, rs2 |-> t, imm |-> i]
        Decoding(op) ==
          LET layout == Layout(InstrInfo[op].opcode, InstrInfo[op].funct3)
          IN  CASE layout = "register" -> Inst(op, rd, rs1, rs2, 0)
                [] layout = "shift" -> Inst(op, rd, rs1, 0, rs2)
                [] layout = "immediate" -> Inst(op, rd, rs1, 0, ImmI(w))
                [] layout = "store" -> Inst(op, 0, rs1, rs2, ImmS(w))
                [] layout = "branch" -> Inst(op, 0, rs1, rs2, ImmB(w))
                [] layout = "upper" -> Inst(op, rd, 0, 0, ImmU(w))
                [] layout = "jump" -> Inst(op, rd, 0, 0, ImmJ(w))
    IN  {Decoding(op) : op \in {op \in DOMAIN InstrInfo : Matches(w, op)}}
-----------------------------------------------------------------------------
Init ==
    /\ insts \in Streams
    /\ emitted = 0 /\ CB = <<>> /\ decoded = <<>>

encodeInstruction ==
    /\ emitted < Len(insts)
    /\ CB' = CB \o LittleEndian(
                     getBinaryCodeForInstr(PseudoBR(insts[emitted + 1])))
    /\ emitted' = emitted + 1
    /\ UNCHANGED <<insts, decoded>>

(* The machine reads the next word once it is complete.                    *)
FetchInstruction ==
    /\ 4 * Len(decoded) + 4 <= Len(CB)
    /\ decoded' = Append(decoded, Decodings(WordAt(4 * Len(decoded) + 1)))
    /\ UNCHANGED <<insts, emitted, CB>>

(* All instructions went through.                                          *)
AllDecoded == Len(decoded) = Len(insts) /\ UNCHANGED vars

Next == encodeInstruction \/ FetchInstruction \/ AllDecoded

Spec == Init /\ [][Next]_vars
-----------------------------------------------------------------------------
(* The buffer holds whole words of bytes, one for each emitted MCInst.     *)
EncodingTypeOK ==
    /\ insts \in Streams
    /\ emitted \in 0 .. Len(insts)
    /\ Len(CB) = 4 * emitted
    /\ \A k \in DOMAIN CB : CB[k] \in 0 .. 255
    /\ Len(decoded) <= emitted

(* The machine reads back exactly what was emitted, in order: the pieces   *)
(* of every format tile the word, the shuffled immediates of stores,       *)
(* branches and jumps arrive with their sign, an unconditional branch is a *)
(* jump that links nothing, and no word could be read as a second          *)
(* instruction.                                                            *)
DecodedAsEmitted ==
    \A k \in DOMAIN decoded :
      decoded[k] = {IF insts[k].op = "PseudoBR"
                    THEN [insts[k] EXCEPT !.op = "JAL"] ELSE insts[k]}
=============================================================================
