-------------------------- MODULE RV32IExec_proofs --------------------------
(***************************************************************************)
(* What a procedure owes its caller, for every program the verifier lets   *)
(* through that has neither variable-sized arrays nor calls marked tail    *)
(* (the two exceptions are disagreements RV32IExec's runs show), every     *)
(* order of allocation and every choice of spills:                         *)
(*   - ControlInv, next to CodegenInv, follows the operands and the        *)
(*     control flow of a function through the passes;                      *)
(*   - LayoutInv says what both leave in the emitted code: where SP is     *)
(*     moved, which registers are saved in which word, that no jump leads  *)
(*     into the prologue or past a restore;                                *)
(*   - MachineInv says what the machine keeps while it runs such code:     *)
(*     which words and registers hold what the procedure and the suspended *)
(*     callers were entered with.                                          *)
(* A program can destroy its own stack through a pointer; that it does not *)
(* is the hypothesis PointersMissSaves of the theorems.                    *)
(***************************************************************************)
EXTENDS RV32IExec, RV32ICodegen_proofs, SequenceTheorems
-----------------------------------------------------------------------------
(* Statements and control flow during selection.                           *)

PlainStatement(fns) ==
    {s \in Statement : /\ s.op # "alloca"
                       /\ s.op = "call" => ~s.tail /\ s.fn \in fns}

(* The programs the theorems are about.                                    *)
PlainProgram ==
    \A f \in DOMAIN prog : \A k \in DOMAIN prog[f].body :
      /\ prog[f].body[k].op # "alloca"
      /\ prog[f].body[k].op = "call" => ~prog[f].body[k].tail

LabelsOf(c) == {c[p].sym : p \in {p \in DOMAIN c : c[p].op = "LABEL"}}
BlocksOf(t) == {t[k].block : k \in {k \in DOMAIN t : t[k].op = "label"}}

JumpsWithin(c, blocks) == \A p \in DOMAIN c : IsJump(c[p]) => c[p].sym \in blocks
BranchesWithin(t, blocks) ==
    \A k \in DOMAIN t : /\ t[k].op \in {"br", "br_cc"} => t[k].to \in blocks
                        /\ t[k].op = "br_cc" => t[k].else \in blocks
EndsBlock(i) == i.op \in {"PseudoRET", "PseudoBR"}

(* Code that control leaves by a return only.                              *)
Closed(c) == /\ c # <<>> /\ EndsBlock(c[Len(c)])
             /\ JumpsWithin(c, LabelsOf(c))

KnownBlocks == LabelsOf(code) \cup BlocksOf(todo)
SelectionInv ==
    pass \in {"args", "isel"} =>
      /\ todo \in Seq(PlainStatement(DOMAIN prog))
      /\ BranchesWithin(todo, KnownBlocks)
      /\ JumpsWithin(code, KnownBlocks)
      /\ todo # <<>> => todo[Len(todo)].op \in Terminators
      /\ todo = <<>> => code # <<>> /\ EndsBlock(code[Len(code)])

(* Operands: registers of the set rs, where an instruction does not refer  *)
(* to a frame index, and only functions of fns are called.                 *)
Operands(rs, fns) ==
    {i \in Instruction :
       /\ i.op \in {"ADDI", "LW", "SW", "COPY"} => i.rs1 \in rs \/ i.fi # 0
       /\ i.op \in {"ADD", "SUB"} => i.rs1 \in rs
       /\ i.op \in {"ADD", "SUB", "SW"} => i.rs2 \in rs
       /\ i.op = "PseudoCALL" => i.sym \in fns}

(* Before frame indices are replaced: stores go through a pointer or to an *)
(* object.                                                                 *)
Unresolved(rs, fns) ==
    {i \in Operands(rs, fns) :
       /\ i.fi # 0 => i.imm = 0
       /\ i.op = "SW" => IF i.fi = 0 THEN i.rs1 # X2 ELSE i.fi > 0
       /\ EndsBlock(i) => i.rd = NoReg}

Callees == IF adjustsStack THEN DOMAIN prog ELSE {}

(* Afterwards every store relative to SP goes to an object, and to the     *)
(* slot of a saved register only among the saves.                          *)
StoresToObjects(c, pre) ==
    \A p \in DOMAIN c : c[p].op = "SW" /\ c[p].rs1 = X2 =>
      \E fi \in DOMAIN objs :
        /\ c[p].imm = Resolved(fi)
        /\ fi >= minCS => p \in pre + 1 .. pre + NumSaves

SavesCSR(c, pre) == \A k \in 1 .. NumSaves : c[pre + k].rs2 \in CSR_RV32I

ShapeInv ==
    /\ pass \in {"isel", "regalloc"} => code \in Seq(Unresolved(Nat, Callees))
    /\ pass \in {"callframes", "csr", "layout", "prologue", "epilogue",
                 "frameindex"} => code \in Seq(Unresolved(GPR, Callees))
    /\ pass \in {"copies", "emit"} =>
         /\ code \in Seq(Operands(GPR, Callees))
         /\ StoresToObjects(code, PrologueLen)
    /\ pass \in {"regalloc", "callframes", "csr", "layout", "prologue",
                 "epilogue", "frameindex", "copies", "emit"} => Closed(code)
    /\ pass \in {"layout", "prologue"} => SavesCSR(code, 0)
    /\ pass \in {"epilogue", "frameindex", "copies", "emit"} =>
         SavesCSR(code, PrologueLen)
-----------------------------------------------------------------------------
(* The emitted code b of a function with frame l.                          *)

MCInst == [op : Opcode, rd : Int, rs1 : Int, rs2 : Int, imm : Int, sym : Int]
Frame == [size : Nat, pre : {0, 1}, post : {0, 1}, saves : Nat]

SaveReg(b, l, k) == b[l.pre + k].rs2
Slot(b, l, k) == b[l.pre + k].imm

(* The registers of CSR_RV32I the function keeps in its frame.             *)
Kept(b, l) == {SaveReg(b, l, k) : k \in 1 .. l.saves}

SavesFirst(b, l) ==
    /\ l.pre + l.saves <= Len(b)
    /\ \A k \in 1 .. l.saves :
         /\ b[l.pre + k].op = "SW" /\ b[l.pre + k].rs1 = X2
         /\ SaveReg(b, l, k) \in CSR_RV32I
         /\ 0 <= Slot(b, l, k) /\ Slot(b, l, k) < l.size
         /\ \A j \in 1 .. l.saves : j # k => Slot(b, l, j) # Slot(b, l, k)

RestoresLast(b, l) ==
    \A p \in DOMAIN b : IsReturn(b[p]) =>
      \A k \in 1 .. l.saves :
        /\ (p - l.post) - k \in DOMAIN b
        /\ b[(p - l.post) - k].op = "LW"
        /\ b[(p - l.post) - k].rd = SaveReg(b, l, k)
        /\ b[(p - l.post) - k].rs1 = X2
        /\ b[(p - l.post) - k].imm = Slot(b, l, k)

ClobbersKept(b, l) ==
    \A p \in DOMAIN b : Clobbers(b[p]) \cap CSR_RV32I \subseteq Kept(b, l)

IsAdjustment(i, n) == i.op = "ADDI" /\ i.rd = X2 /\ i.rs1 = X2 /\ i.imm = n
MovesSP(b, l) ==
    /\ l.size # 0 => l.pre = 1 /\ l.post = 1
    /\ l.pre = 1 => b[1] \in MCInst /\ IsAdjustment(b[1], -l.size)
    /\ l.post = 1 => \A p \in DOMAIN b : IsReturn(b[p]) =>
         p - 1 \in DOMAIN b /\ IsAdjustment(b[p - 1], l.size)
    /\ \A p \in DOMAIN b : b[p].rd = X2 =>
         \/ l.pre = 1 /\ p = 1
         \/ l.post = 1 /\ p + 1 \in DOMAIN b /\ IsReturn(b[p + 1])

StoresInside(b, l) ==
    \A p \in DOMAIN b : b[p].op = "SW" /\ b[p].rs1 = X2 =>
      \/ p \in l.pre + 1 .. l.pre + l.saves
      \/ /\ 0 <= b[p].imm /\ b[p].imm < l.size
         /\ \A k \in 1 .. l.saves : b[p].imm # Slot(b, l, k)

(* Jumps lead behind the saves, and not between a restore and its return.  *)
JumpsBetween(b, l) ==
    \A p \in DOMAIN b : IsJump(b[p]) =>
      /\ b[p].sym \in DOMAIN b /\ b[p].sym > l.pre + l.saves
      /\ \A r \in DOMAIN b : IsReturn(b[r]) =>
           ~(r - (l.post + l.saves) < b[p].sym /\ b[p].sym <= r)

OperandsFit(b, l, fns) ==
    \A p \in DOMAIN b :
      /\ b[p].op \in {"ADDI", "LW", "SW", "ADD", "SUB"} => b[p].rs1 \in GPR
      /\ b[p].op \in {"ADD", "SUB", "SW"} => b[p].rs2 \in GPR
      /\ b[p].op = "PseudoCALL" => b[p].sym \in fns /\ l.size % StackAlign = 0

LaidOut(b, l, fns) ==
    /\ b \in Seq(MCInst) /\ l \in Frame
    /\ b # <<>> /\ EndsBlock(b[Len(b)])
    /\ SavesFirst(b, l) /\ RestoresLast(b, l) /\ ClobbersKept(b, l)
    /\ MovesSP(b, l) /\ StoresInside(b, l) /\ JumpsBetween(b, l)
    /\ OperandsFit(b, l, fns)

LayoutInv ==
    /\ binary \in Seq(Seq(MCInst))
    /\ Len(binary) + 1 = cur
    /\ pass = "done" => cur = Len(prog) + 1
    /\ \A f \in DOMAIN binary : \E l : LaidOut(binary[f], l, DOMAIN prog)

ControlInv ==
    /\ PlainProgram /\ ~varSized
    /\ SelectionInv /\ ShapeInv /\ LayoutInv
-----------------------------------------------------------------------------
(* The machine.                                                            *)

(* What register r of CSR_RV32I held when a was entered, and the word in   *)
(* which a, a procedure of code b with frame l, keeps the k-th register.   *)
EntryVal(a, r) == IF r = X1 THEN a.ra ELSE a.saved[r]
Word(b, l, a, k) == (a.sp - l.size) + Slot(b, l, k)
Holds(b, l, a, m, k) == /\ Word(b, l, a, k) \in Addresses
                        /\ m[Word(b, l, a, k)] = EntryVal(a, SaveReg(b, l, k))

(* How far SP is below its value at the entry when instruction i is next.  *)
Lowered(b, l, i) == IF l.size = 0 \/ i = 1 \/ IsReturn(b[i]) THEN 0 ELSE l.size

Restored(b, l, i, a, rs) ==
    \A p \in DOMAIN b : IsReturn(b[p]) =>
      \A k \in 1 .. l.saves :
        (p - l.post) - k < i /\ i <= p =>
          rs[SaveReg(b, l, k)] = EntryVal(a, SaveReg(b, l, k))

(* The procedure a is about to execute its instruction i, with registers   *)
(* rs and stack m.                                                         *)
Active(b, l, i, a, rs, m) ==
    /\ rs[X2] = a.sp - Lowered(b, l, i)
    /\ \A k \in 1 .. l.saves : l.pre + k < i => Holds(b, l, a, m, k)
    /\ \A r \in CSR_RV32I : r \notin Kept(b, l) => rs[r] = EntryVal(a, r)
    /\ i <= l.pre + l.saves => \A r \in CSR_RV32I : rs[r] = EntryVal(a, r)
    /\ Restored(b, l, i, a, rs)

(* The procedure c waits for d, which it called, to return.                *)
Suspended(b, l, c, d, m) ==
    /\ \E q \in DOMAIN b : /\ b[q].op = "PseudoCALL"
                           /\ d.ra = FunctionSpace * c.fn + (q + 1)
    /\ d.sp = c.sp - l.size
    /\ \A k \in 1 .. l.saves : Holds(b, l, c, m, k)
    /\ \A r \in PreservedRegs : r \notin Kept(b, l) => d.saved[r] = EntryVal(c, r)

(* The code and the frame of an activation.                                *)
LayoutOf(b, fns) == CHOOSE l : LaidOut(b, l, fns)
Code(a) == binary[a.fn]
Lay(a) == LayoutOf(Code(a), DOMAIN prog)

IsActivation(a) ==
    \E fn, done, ra, sp, saved, args :
      a = [fn |-> fn, done |-> done, ra |-> ra, sp |-> sp, saved |-> saved,
           args |-> args]

(* The frames of the activations lie below each other.                     *)
StackInv ==
    /\ \E S : shadow \in Seq(S)
    /\ shadow # <<>> /\ shadow[1].ra = Halt
    /\ \A j \in DOMAIN shadow :
         /\ IsActivation(shadow[j]) /\ shadow[j].fn \in DOMAIN binary
         /\ shadow[j].sp \in Int /\ shadow[j].sp % StackAlign = 0
         /\ \A k \in DOMAIN shadow :
              j < k => shadow[k].sp <= shadow[j].sp - Lay(shadow[j]).size
         /\ j + 1 \in DOMAIN shadow =>
              Suspended(Code(shadow[j]), Lay(shadow[j]), shadow[j],
                        shadow[j + 1], mem)

Top == shadow[Len(shadow)]
TopInv ==
    \E i \in DOMAIN Code(Top) :
      /\ pc = FunctionSpace * Top.fn + i
      /\ Active(Code(Top), Lay(Top), i, Top, regs, mem)

RegsInv == regs \in [GPR -> Int] /\ regs[X0] = 0 /\ mem \in [Addresses -> Int]

AtBoot ==
    /\ pc = Entry(1) /\ regs = BootRegs /\ mem = BootMem
    /\ shadow = <<Activated(1, BootRegs, BootMem)>>

MachineInv ==
    /\ CodeFits /\ RegsInv
    /\ pass # "done" => AtBoot
    /\ pass = "done" /\ pc # Halt => StackInv /\ TopInv
-----------------------------------------------------------------------------
(* Operands.                                                               *)

(* Every constructor gives operands of the kind its registers are of.      *)
LEMMA UnresolvedInstr ==
    ASSUME NEW rs, NEW fns, NEW op \in Opcode, NEW rd \in Int, NEW rs1 \in Int,
           NEW rs2 \in Int, NEW imm \in Int,
           op \in {"ADDI", "LW", "SW", "COPY", "ADD", "SUB"} => rs1 \in rs,
           op \in {"ADD", "SUB", "SW"} => rs2 \in rs,
           op = "SW" => rs1 # X2, op # "PseudoCALL",
           op \in {"PseudoRET", "PseudoBR"} => rd = NoReg
    PROVE  Instr(op, rd, rs1, rs2, imm) \in Unresolved(rs, fns)
<1> DEFINE i == Instr(op, rd, rs1, rs2, imm)
<1>1. /\ i \in Instruction /\ i.op = op /\ i.rd = rd /\ i.rs1 = rs1
      /\ i.rs2 = rs2 /\ i.fi = 0
  BY InstrLemma DEF Instr
<1> HIDE DEF i
<1>2. i \in Operands(rs, fns)
  BY <1>1 DEF Operands
<1>3. i \in Unresolved(rs, fns)
  BY <1>1, <1>2 DEF Unresolved, EndsBlock
<1> QED BY <1>3 DEF i

(* Naming a block or registers read implicitly changes no operand.         *)
LEMMA UnresolvedSym ==
    ASSUME NEW rs, NEW fns, NEW i \in Unresolved(rs, fns), NEW s \in Int,
           i.op # "PseudoCALL"
    PROVE  [i EXCEPT !.sym = s] \in Unresolved(rs, fns)
<1> DEFINE j == [i EXCEPT !.sym = s]
<1>1. i \in Instruction
  BY DEF Unresolved, Operands
<1>2. /\ j \in Instruction /\ j.op = i.op /\ j.rd = i.rd /\ j.rs1 = i.rs1
      /\ j.rs2 = i.rs2 /\ j.fi = i.fi /\ j.imm = i.imm
  BY <1>1 DEF Instruction
<1> HIDE DEF j
<1>3. j \in Operands(rs, fns)
  BY <1>2 DEF Operands, Unresolved
<1>4. j \in Unresolved(rs, fns)
  BY <1>2, <1>3 DEF Unresolved, EndsBlock
<1> QED BY <1>4 DEF j

(* Naming the registers read implicitly changes no operand.                *)
LEMMA UnresolvedImplicit ==
    ASSUME NEW rs, NEW fns, NEW i \in Unresolved(rs, fns), NEW uses \in SUBSET Int
    PROVE  [i EXCEPT !.implicit = uses] \in Unresolved(rs, fns)
<1> DEFINE j == [i EXCEPT !.implicit = uses]
<1>1. i \in Instruction
  BY DEF Unresolved, Operands
<1>2. /\ j \in Instruction /\ j.op = i.op /\ j.rd = i.rd /\ j.rs1 = i.rs1
      /\ j.rs2 = i.rs2 /\ j.fi = i.fi /\ j.imm = i.imm /\ j.sym = i.sym
  BY <1>1 DEF Instruction
<1> HIDE DEF j
<1>3. j \in Operands(rs, fns)
  BY <1>2 DEF Operands, Unresolved
<1>4. j \in Unresolved(rs, fns)
  BY <1>2, <1>3 DEF Unresolved, EndsBlock
<1> QED BY <1>4 DEF j

(* An address or a load through a frame index, or a store to an object.    *)
LEMMA UnresolvedFI ==
    ASSUME NEW rs, NEW fns, NEW op \in {"ADDI", "LW", "SW"}, NEW rd \in Int,
           NEW rs2 \in Int, NEW fi \in Int \ {0},
           op = "SW" => rs2 \in rs /\ fi > 0
    PROVE  WithFI(Instr(op, rd, NoReg, rs2, 0), fi) \in Unresolved(rs, fns)
<1> DEFINE i == Instr(op, rd, NoReg, rs2, 0)
           j == WithFI(i, fi)
<1>1. NoReg \in Int /\ op \in Opcode
  BY OpcodeLemma DEF NoReg
<1>2. /\ i \in Instruction /\ i.op = op /\ i.rs2 = rs2 /\ i.imm = 0
  BY <1>1, InstrLemma DEF Instr
<1> HIDE DEF i
<1>3. j \in Instruction /\ j.fi = fi /\ j.op = op /\ j.rs2 = rs2 /\ j.imm = 0
  BY <1>2 DEF WithFI, Instruction
<1> HIDE DEF j
<1>4. j \in Operands(rs, fns)
  BY <1>3 DEF Operands
<1>5. j \in Unresolved(rs, fns)
  BY <1>3, <1>4 DEF Unresolved, EndsBlock
<1> QED BY <1>5 DEF i, j

(* More registers and functions are allowed later.                         *)
LEMMA UnresolvedGrows ==
    ASSUME NEW rs, NEW fns, NEW ss, NEW gns, rs \subseteq ss, fns \subseteq gns,
           NEW c \in Seq(Unresolved(rs, fns))
    PROVE  c \in Seq(Unresolved(ss, gns))
<1>1. Unresolved(rs, fns) \subseteq Unresolved(ss, gns)
  BY DEF Unresolved, Operands
<1> QED BY <1>1

(* Instructions not yet resolved are instructions.                         *)
LEMMA UnresolvedInstruction ==
    ASSUME NEW rs, NEW fns
    PROVE  /\ Unresolved(rs, fns) \subseteq Instruction
           /\ \A c \in Seq(Unresolved(rs, fns)) : c \in Seq(Instruction)
BY DEF Unresolved, Operands
-----------------------------------------------------------------------------
(* Control flow.                                                           *)

(* What stands for instruction i, one of them or several, marks the same   *)
(* block and jumps where i jumps.                                          *)
PartOf(i, s) ==
    /\ i.op = "LABEL" =>
         \E j \in 1 .. Len(s) : s[j].op = "LABEL" /\ s[j].sym = i.sym
    /\ \A j \in 1 .. Len(s) : IsJump(s[j]) => IsJump(i) /\ s[j].sym = i.sym
    /\ EndsBlock(i) => Len(s) # 0 /\ EndsBlock(s[Len(s)])

(* The opcodes that are no conditional branch.                             *)
LEMMA JumpOpLemma ==
    /\ "LABEL" \notin Branches /\ "ADDI" \notin Branches /\ "LW" \notin Branches
    /\ "SW" \notin Branches /\ "COPY" \notin Branches
    /\ "PseudoRET" \notin Branches /\ "PseudoCALL" \notin Branches
    /\ "PseudoBR" \notin Branches
    /\ "ADD" \notin Branches /\ "SUB" \notin Branches
    /\ "ADJCALLSTACKDOWN" \notin Branches /\ "ADJCALLSTACKUP" \notin Branches
BY DEF Branches, BranchOpcode

(* An instruction stands for itself, also with other registers and behind  *)
(* instructions that do not jump.                                          *)
LEMMA PartLemma ==
    ASSUME NEW i \in Instruction, NEW j \in Instruction, j.op = i.op, j.sym = i.sym,
           NEW x \in Seq(Instruction), \A k \in 1 .. Len(x) : ~IsJump(x[k])
    PROVE  PartOf(i, x \o <<j>>)
<1> DEFINE s == x \o <<j>>
<1>1. /\ Len(s) = Len(x) + 1 /\ s[Len(x) + 1] = j /\ Len(x) \in Nat
      /\ \A k \in 1 .. Len(x) : s[k] = x[k]
  <2>1. <<j>> \in Seq(Instruction) /\ Len(<<j>>) = 1 /\ <<j>>[1] = j
    OBVIOUS
  <2>2. Len(x) \in Nat /\ 1 \in 1 .. Len(<<j>>)
    OBVIOUS
  <2> HIDE DEF s
  <2> QED BY <2>1, <2>2, Concatenation DEF s
<1> HIDE DEF s
<1>2. \A k \in 1 .. Len(s) : k \in 1 .. Len(x) \/ k = Len(x) + 1
  BY <1>1
<1>3. Len(x) + 1 \in 1 .. Len(s)
  BY <1>1
<1>4. PartOf(i, s)
  BY <1>1, <1>2, <1>3 DEF PartOf, IsJump, EndsBlock
<1> QED BY <1>4 DEF s

(* An instruction of the same opcode and label may stand for another.      *)
LEMMA PartSelf ==
    ASSUME NEW i \in Instruction, NEW j \in Instruction, j.op = i.op, j.sym = i.sym
    PROVE  PartOf(i, <<j>>)
BY DEF PartOf, IsJump, EndsBlock

(* An instruction that neither jumps, returns nor marks a block may become *)
(* whatever does not jump.                                                 *)
LEMMA PartOther ==
    ASSUME NEW i, i.op # "LABEL", ~EndsBlock(i), NEW s,
           \A k \in 1 .. Len(s) : ~IsJump(s[k])
    PROVE  PartOf(i, s)
BY DEF PartOf

(* A pass that replaces each instruction by what stands for it leaves      *)
(* closed code closed.                                                     *)
LEMMA PartsClosed ==
    ASSUME NEW c \in Seq(Instruction), Closed(c),
           NEW f \in [1 .. Len(c) -> Seq(Instruction)],
           \A p \in 1 .. Len(c) : PartOf(c[p], f[p])
    PROVE  Closed(FlattenSeq(f))
<1> DEFINE n == Len(c)
           d == FlattenSeq(f)
<1>1. n \in Nat /\ DOMAIN c = 1 .. n /\ n # 0
  BY DEF Closed
<1> HIDE DEF n, d
<1>2. /\ d \in Seq(Instruction)
      /\ \A q \in DOMAIN d : \E p \in 1 .. n :
           \E j \in 1 .. Len(f[p]) : d[q] = f[p][j]
      /\ \A p \in 1 .. n : \A j \in 1 .. Len(f[p]) :
           \E q \in DOMAIN d : d[q] = f[p][j]
      /\ n # 0 /\ Len(f[n]) # 0 => d # <<>> /\ d[Len(d)] = f[n][Len(f[n])]
  BY <1>1, Parts, ZenonT(60) DEF n, d
<1>3. d # <<>> /\ EndsBlock(d[Len(d)])
  <2>1. EndsBlock(c[n])
    BY DEF Closed, n
  <2>2. Len(f[n]) # 0 /\ EndsBlock(f[n][Len(f[n])])
    BY <1>1, <2>1 DEF PartOf, n
  <2> QED BY <1>1, <1>2, <2>2
<1>4. ASSUME NEW b \in LabelsOf(c) PROVE b \in LabelsOf(d)
  <2>1. PICK p \in 1 .. n : c[p].op = "LABEL" /\ c[p].sym = b
    BY <1>1, <1>4 DEF LabelsOf
  <2>2. PICK j \in 1 .. Len(f[p]) : f[p][j].op = "LABEL" /\ f[p][j].sym = b
    BY <2>1 DEF PartOf, n
  <2>3. PICK q \in DOMAIN d : d[q] = f[p][j]
    BY <1>2
  <2> QED BY <2>2, <2>3 DEF LabelsOf
<1>5. ASSUME NEW q \in DOMAIN d, IsJump(d[q]) PROVE d[q].sym \in LabelsOf(d)
  <2>1. PICK p \in 1 .. n : \E j \in 1 .. Len(f[p]) : d[q] = f[p][j]
    BY <1>2
  <2>2. IsJump(c[p]) /\ d[q].sym = c[p].sym
    BY <1>5, <2>1 DEF PartOf, n
  <2>3. c[p].sym \in LabelsOf(c)
    BY <1>1, <2>2 DEF Closed, JumpsWithin
  <2> QED BY <1>4, <2>2, <2>3
<1>6. Closed(d)
  BY <1>3, <1>5 DEF Closed, JumpsWithin
<1> QED BY <1>6 DEF d

(* So does one that changes no operation and no label in place.            *)
LEMMA PointwiseClosed ==
    ASSUME NEW c \in Seq(Instruction), Closed(c), NEW d \in Seq(Instruction),
           Len(d) = Len(c),
           \A p \in 1 .. Len(c) : d[p].op = c[p].op /\ d[p].sym = c[p].sym
    PROVE  Closed(d)
<1>1. DOMAIN c = 1 .. Len(c) /\ DOMAIN d = 1 .. Len(c) /\ Len(c) \in Nat
      /\ Len(c) # 0
  BY DEF Closed
<1>2. EndsBlock(d[Len(d)]) /\ d # <<>>
  BY <1>1 DEF Closed, EndsBlock
<1>3. LabelsOf(c) \subseteq LabelsOf(d)
  BY <1>1 DEF LabelsOf
<1>4. ASSUME NEW p \in DOMAIN d, IsJump(d[p]) PROVE d[p].sym \in LabelsOf(d)
  BY <1>1, <1>3, <1>4 DEF Closed, JumpsWithin, IsJump
<1> QED BY <1>2, <1>4 DEF Closed, JumpsWithin

(* And one that puts instructions that do not jump in front.               *)
LEMMA FrontClosed ==
    ASSUME NEW c \in Seq(Instruction), Closed(c), NEW x \in Seq(Instruction),
           \A p \in 1 .. Len(x) : ~IsJump(x[p])
    PROVE  Closed(x \o c)
<1> DEFINE d == x \o c
<1>1. /\ d \in Seq(Instruction) /\ Len(d) = Len(x) + Len(c)
      /\ \A p \in 1 .. Len(x) : d[p] = x[p]
      /\ \A p \in 1 .. Len(c) : d[Len(x) + p] = c[p]
  BY Concatenation
<1> HIDE DEF d
<1>2. /\ DOMAIN c = 1 .. Len(c) /\ Len(c) \in Nat /\ Len(c) # 0
      /\ DOMAIN d = 1 .. Len(d) /\ Len(x) \in Nat
  BY <1>1 DEF Closed
<1>3. d[Len(d)] = c[Len(c)] /\ d # <<>>
  <2>1. Len(c) \in 1 .. Len(c)
    BY <1>2
  <2>2. Len(d) # 0
    BY <1>1, <1>2
  <2> QED BY <1>1, <2>1, <2>2
<1>4. \A p \in 1 .. Len(c) : Len(x) + p \in DOMAIN d
  BY <1>1, <1>2
<1>5. ASSUME NEW b \in LabelsOf(c) PROVE b \in LabelsOf(d)
  <2>1. PICK p \in 1 .. Len(c) : c[p].op = "LABEL" /\ c[p].sym = b
    BY <1>2, <1>5 DEF LabelsOf
  <2>2. Len(x) + p \in DOMAIN d /\ d[Len(x) + p] = c[p]
    BY <1>1, <1>4
  <2> QED BY <2>1, <2>2 DEF LabelsOf
<1>6. ASSUME NEW q \in DOMAIN d, IsJump(d[q]) PROVE d[q].sym \in LabelsOf(d)
  <2>1. q \notin 1 .. Len(x)
    BY <1>1, <1>6
  <2>2. q - Len(x) \in 1 .. Len(c) /\ Len(x) + (q - Len(x)) = q
    BY <1>1, <1>2, <2>1
  <2>3. d[q] = c[q - Len(x)]
    BY <1>1, <2>2
  <2> QED BY <1>2, <1>5, <1>6, <2>2, <2>3 DEF Closed, JumpsWithin
<1>7. Closed(d)
  BY <1>3, <1>6 DEF Closed, JumpsWithin, EndsBlock
<1> QED BY <1>7 DEF d
-----------------------------------------------------------------------------
(* Selection.                                                              *)

(* A statement selected as instrs: the blocks named so far stay known.     *)
LEMMA SelectionKept ==
    ASSUME SelectionInv, ShapeInv, pass = "isel", pass' = "isel", todo # <<>>,
           NEW instrs, instrs \in Seq(Unresolved(Nat, Callees')),
           Callees \subseteq Callees', UNCHANGED prog,
           code' = code \o instrs, todo' = Tail(todo),
           Head(todo).op = "label" =>
             \E j \in 1 .. Len(instrs) : /\ instrs[j].op = "LABEL"
                                         /\ instrs[j].sym = Head(todo).block,
           \A j \in 1 .. Len(instrs) :
             IsJump(instrs[j]) => instrs[j].sym \in KnownBlocks,
           Head(todo).op \in Terminators /\ Len(todo) = 1 =>
             Len(instrs) # 0 /\ EndsBlock(instrs[Len(instrs)])
    PROVE  SelectionInv' /\ ShapeInv'
<1> DEFINE U == Unresolved(Nat, Callees')
           P == PlainStatement(DOMAIN prog)
           m == Len(code)
<1>1. todo \in Seq(P) /\ code \in Seq(U)
  <2>1. code \in Seq(Unresolved(Nat, Callees))
    BY DEF ShapeInv
  <2> QED BY <2>1, UnresolvedGrows DEF SelectionInv
<1> HIDE DEF U, P
<1>2. /\ code' \in Seq(U) /\ Len(code') = m + Len(instrs)
      /\ \A p \in 1 .. m : code'[p] = code[p]
      /\ \A p \in 1 .. Len(instrs) : code'[m + p] = instrs[p]
  <2>1. instrs \in Seq(U)
    BY DEF U
  <2> QED BY <1>1, <2>1, Concatenation
<1>3. /\ m \in Nat /\ Len(instrs) \in Nat /\ DOMAIN code = 1 .. m
      /\ DOMAIN code' = 1 .. m + Len(instrs)
  <2>1. instrs \in Seq(U)
    BY DEF U
  <2> QED BY <1>1, <1>2, <2>1
<1> HIDE DEF m
<1>4. /\ \A p \in 1 .. m : p \in DOMAIN code'
      /\ \A p \in 1 .. Len(instrs) : m + p \in DOMAIN code'
      /\ \A q \in DOMAIN code' :
           \/ q \in 1 .. m
           \/ q - m \in 1 .. Len(instrs) /\ m + (q - m) = q
  <2>1. PICK n \in Nat : n = Len(instrs)
    BY <1>3
  <2>2. DOMAIN code' = 1 .. m + n /\ m \in Nat
    BY <1>3, <2>1
  <2>3. \A p \in 1 .. m : p \in 1 .. m + n
    BY <2>2
  <2>4. \A p \in 1 .. n : m + p \in 1 .. m + n
    BY <2>2
  <2>5. \A q \in 1 .. m + n : \/ q \in 1 .. m
                              \/ q - m \in 1 .. n /\ m + (q - m) = q
    BY <2>2
  <2> QED BY <2>1, <2>2, <2>3, <2>4, <2>5
<1>5. /\ DOMAIN todo = 1 .. Len(todo) /\ Len(todo) \in Nat /\ Len(todo) # 0
      /\ Len(todo') = Len(todo) - 1 /\ DOMAIN todo' = 1 .. Len(todo) - 1
      /\ \A k \in 1 .. Len(todo) - 1 : todo'[k] = todo[k + 1]
      /\ Head(todo) = todo[1] /\ todo' \in Seq(P)
  BY <1>1
<1>13. todo' = <<>> <=> Len(todo) = 1
  <2>1. \A t \in Seq(P) : t = <<>> <=> Len(t) = 0
    OBVIOUS
  <2>2. todo' = <<>> <=> Len(todo') = 0
    BY ONLY <1>5, <2>1
  <2> QED BY <1>5, <2>2
<1>6. ASSUME NEW b \in KnownBlocks PROVE b \in KnownBlocks'
  <2>1. CASE b \in LabelsOf(code)
    <3>1. PICK p \in 1 .. m : code[p].op = "LABEL" /\ code[p].sym = b
      BY <1>3, <2>1 DEF LabelsOf
    <3>2. b \in LabelsOf(code')
      BY <1>2, <1>4, <3>1 DEF LabelsOf
    <3> QED BY <3>2 DEF KnownBlocks
  <2>2. CASE b \in BlocksOf(todo)
    <3>1. PICK k \in 1 .. Len(todo) : todo[k].op = "label" /\ todo[k].block = b
      BY <1>5, <2>2 DEF BlocksOf
    <3>2. CASE k = 1
      <4>1. PICK j \in 1 .. Len(instrs) : instrs[j].op = "LABEL" /\ instrs[j].sym = b
        BY <1>5, <3>1, <3>2
      <4>2. b \in LabelsOf(code')
        BY <1>2, <1>4, <4>1 DEF LabelsOf
      <4> QED BY <4>2 DEF KnownBlocks
    <3>3. CASE k # 1
      <4>1. k - 1 \in 1 .. Len(todo) - 1 /\ (k - 1) + 1 = k
        BY <1>5, <3>3
      <4>2. todo'[k - 1] = todo[k] /\ k - 1 \in DOMAIN todo'
        BY <1>5, <4>1
      <4>3. b \in BlocksOf(todo')
        BY <3>1, <4>2 DEF BlocksOf
      <4> QED BY <4>3 DEF KnownBlocks
    <3> QED BY <3>2, <3>3
  <2> QED BY <2>1, <2>2 DEF KnownBlocks
<1>7. BranchesWithin(todo', KnownBlocks')
  <2>1. BranchesWithin(todo, KnownBlocks)
    BY DEF SelectionInv
  <2>2. \A k \in DOMAIN todo' : k + 1 \in DOMAIN todo /\ todo'[k] = todo[k + 1]
    BY <1>5
  <2> QED BY <1>6, <2>1, <2>2 DEF BranchesWithin
<1>8. ASSUME NEW q \in DOMAIN code', IsJump(code'[q])
      PROVE  code'[q].sym \in KnownBlocks'
  <2>1. CASE q \in 1 .. m
    <3>1. JumpsWithin(code, KnownBlocks)
      BY DEF SelectionInv
    <3> QED BY <1>2, <1>3, <1>6, <1>8, <2>1, <3>1 DEF JumpsWithin
  <2>2. CASE q - m \in 1 .. Len(instrs) /\ m + (q - m) = q
    BY <1>2, <1>6, <1>8, <2>2
  <2> QED BY <1>4, <2>1, <2>2
<1>9. todo' # <<>> => todo'[Len(todo')].op \in Terminators
  <2> SUFFICES ASSUME todo' # <<>> PROVE todo'[Len(todo')].op \in Terminators
    OBVIOUS
  <2>1. Len(todo) # 1
    BY <1>13
  <2>2. Len(todo) - 1 \in 1 .. Len(todo) - 1 /\ (Len(todo) - 1) + 1 = Len(todo)
    BY <1>5, <2>1
  <2>3. todo'[Len(todo')] = todo[Len(todo)]
    BY <1>5, <2>2
  <2>4. todo[Len(todo)].op \in Terminators
    BY DEF SelectionInv
  <2> QED BY <2>3, <2>4
<1>10. todo' = <<>> => code' # <<>> /\ EndsBlock(code'[Len(code')])
  <2> SUFFICES ASSUME todo' = <<>> PROVE code' # <<>> /\ EndsBlock(code'[Len(code')])
    OBVIOUS
  <2>1. Len(todo) = 1
    BY <1>13
  <2>2. Head(todo).op \in Terminators
    BY <1>5, <2>1 DEF SelectionInv
  <2>3. Len(instrs) # 0 /\ EndsBlock(instrs[Len(instrs)])
    BY <2>1, <2>2
  <2>4. Len(instrs) \in 1 .. Len(instrs) /\ Len(code') # 0
    BY <1>2, <1>3, <2>3
  <2> QED BY <1>2, <2>3, <2>4
<1>11. SelectionInv'
  BY <1>5, <1>7, <1>8, <1>9, <1>10 DEF SelectionInv, JumpsWithin, P
<1>12. ShapeInv'
  BY <1>2 DEF ShapeInv, U
<1> QED BY <1>11, <1>12

(* The next statement, of a program without variable-sized arrays.         *)
LEMMA NextStatement ==
    ASSUME SelectionInv, pass = "isel", todo # <<>>
    PROVE  /\ Head(todo) \in Statement /\ Head(todo) = todo[1]
           /\ Head(todo).op # "alloca"
           /\ Head(todo).op = "call" => /\ ~Head(todo).tail
                                        /\ Head(todo).fn \in DOMAIN prog
           /\ 1 \in DOMAIN todo /\ DOMAIN todo = 1 .. Len(todo)
<1>1. todo \in Seq(PlainStatement(DOMAIN prog))
  BY DEF SelectionInv
<1>2. /\ Head(todo) \in PlainStatement(DOMAIN prog) /\ Head(todo) = todo[1]
      /\ 1 \in DOMAIN todo /\ DOMAIN todo = 1 .. Len(todo)
  BY <1>1
<1> QED BY <1>2 DEF PlainStatement

(* A statement that ends no block is selected as one instruction.          *)
LEMMA SelectOne ==
    ASSUME SelectionInv, ShapeInv, pass = "isel", todo # <<>>, NEW i,
           i \in Unresolved(Nat, Callees), Select(<<i>>), UNCHANGED frameVars,
           Head(todo).op \notin Terminators, ~IsJump(i),
           Head(todo).op = "label" => i.op = "LABEL" /\ i.sym = Head(todo).block
    PROVE  SelectionInv' /\ ShapeInv'
<1>1. /\ code' = code \o <<i>> /\ todo' = Tail(todo) /\ pass' = "isel"
      /\ UNCHANGED prog
  BY DEF Select
<1>2. Callees' = Callees
  BY <1>1 DEF Callees, frameVars
<1>3. <<i>> \in Seq(Unresolved(Nat, Callees')) /\ Len(<<i>>) = 1 /\ <<i>>[1] = i
  BY <1>2
<1>4. \A j \in 1 .. Len(<<i>>) : <<i>>[j] = i
  BY <1>3
<1>5. 1 \in 1 .. Len(<<i>>)
  BY <1>3
<1> QED BY <1>1, <1>2, <1>3, <1>4, <1>5, SelectionKept

(* Registers of values are natural numbers.                                *)
LEMMA VRegNat ==
    ASSUME NEW v \in SSAValue
    PROVE  VReg(v) \in Nat /\ VReg(v) \in Int /\ VReg(v) # X2
BY DEF SSAValue, VReg, X2

(* A constant is selected as code without jumps or stores.                 *)
LEMMA SelectConstantKept ==
    ASSUME SelectionInv, ShapeInv, SelectConstant PROVE SelectionInv' /\ ShapeInv'
<1> DEFINE s == Head(todo)
           i == ADDI(VReg(s.dst), X0, s.imm)
<1>1. /\ pass = "isel" /\ todo # <<>> /\ s.op = "const" /\ Select(<<i>>)
      /\ UNCHANGED frameVars
  BY DEF SelectConstant, Selecting
<1>2. s.dst \in SSAValue /\ s.imm \in Int
  <2>1. s \in Statement
    BY <1>1, NextStatement
  <2> QED BY <1>1, <2>1 DEF Statement
<1>3. i \in Unresolved(Nat, Callees) /\ i.op = "ADDI"
  <2>1. VReg(s.dst) \in Int /\ X0 \in Nat /\ X0 \in Int /\ NoReg \in Int
    BY <1>2, VRegNat DEF X0, NoReg
  <2> HIDE DEF s
  <2>2. i \in Unresolved(Nat, Callees)
    BY <1>2, <2>1, OpcodeLemma, UnresolvedInstr DEF ADDI
  <2>3. i.op = "ADDI"
    BY DEF ADDI, Instr
  <2> QED BY <2>2, <2>3
<1> HIDE DEF i
<1> QED BY <1>1, <1>3, SelectOne, JumpOpLemma DEF Terminators, IsJump

(* So is a sum.                                                            *)
LEMMA SelectAddKept ==
    ASSUME SelectionInv, ShapeInv, SelectAdd PROVE SelectionInv' /\ ShapeInv'
<1> DEFINE s == Head(todo)
           i == ADD(VReg(s.dst), VReg(s.a), VReg(s.b))
<1>1. /\ pass = "isel" /\ todo # <<>> /\ s.op = "add" /\ Select(<<i>>)
      /\ UNCHANGED frameVars
  BY DEF SelectAdd, Selecting
<1>2. s.dst \in SSAValue /\ s.a \in SSAValue /\ s.b \in SSAValue
  <2>1. s \in Statement
    BY <1>1, NextStatement
  <2> QED BY <1>1, <2>1 DEF Statement
<1>3. i \in Unresolved(Nat, Callees) /\ i.op = "ADD"
  <2>1. VReg(s.dst) \in Int /\ VReg(s.a) \in Nat /\ VReg(s.a) \in Int
        /\ VReg(s.b) \in Nat /\ VReg(s.b) \in Int /\ 0 \in Int
    BY <1>2, VRegNat
  <2> HIDE DEF s
  <2>2. i \in Unresolved(Nat, Callees)
    BY <2>1, OpcodeLemma, UnresolvedInstr DEF ADD
  <2>3. i.op = "ADD"
    BY DEF ADD, Instr
  <2> QED BY <2>2, <2>3
<1> HIDE DEF i
<1> QED BY <1>1, <1>3, SelectOne, JumpOpLemma DEF Terminators, IsJump

(* The address of a local refers to a frame index at offset 0.             *)
LEMMA SelectFrameIndexKept ==
    ASSUME SelectedInv, FrameTypeOK, SelectionInv, ShapeInv, SelectFrameIndex
    PROVE  SelectionInv' /\ ShapeInv'
<1> DEFINE s == Head(todo)
           i == WithFI(ADDI(VReg(s.dst), NoReg, 0), s.slot)
<1>1. /\ pass = "isel" /\ todo # <<>> /\ s.op = "addr" /\ Select(<<i>>)
      /\ UNCHANGED frameVars
  BY DEF SelectFrameIndex, Selecting
<1>2. s.dst \in SSAValue /\ s.slot \in Int \ {0}
  <2>1. s \in Statement /\ s.slot \in DOMAIN objs
    BY <1>1, TodoLemma DEF SelectedInv
  <2>2. DOMAIN objs = 1 .. Len(objs)
    BY FrameIndicesLemma
  <2> QED BY <1>1, <2>1, <2>2 DEF Statement
<1>3. i \in Unresolved(Nat, Callees) /\ i.op = "ADDI"
  <2>1. VReg(s.dst) \in Int /\ NoReg \in Int
    BY <1>2, VRegNat DEF NoReg
  <2> HIDE DEF s
  <2>2. i \in Unresolved(Nat, Callees)
    BY <1>2, <2>1, UnresolvedFI DEF ADDI
  <2>3. i.op = "ADDI"
    BY DEF ADDI, Instr, WithFI
  <2> QED BY <2>2, <2>3
<1> HIDE DEF i
<1> QED BY <1>1, <1>3, SelectOne, JumpOpLemma DEF Terminators, IsJump

(* A load goes through a register.                                         *)
LEMMA SelectLoadKept ==
    ASSUME SelectionInv, ShapeInv, SelectLoad PROVE SelectionInv' /\ ShapeInv'
<1> DEFINE s == Head(todo)
           i == LW(VReg(s.dst), VReg(s.ptr))
<1>1. /\ pass = "isel" /\ todo # <<>> /\ s.op = "load" /\ Select(<<i>>)
      /\ UNCHANGED frameVars
  BY DEF SelectLoad, Selecting
<1>2. s.dst \in SSAValue /\ s.ptr \in SSAValue
  <2>1. s \in Statement
    BY <1>1, NextStatement
  <2> QED BY <1>1, <2>1 DEF Statement
<1>3. i \in Unresolved(Nat, Callees) /\ i.op = "LW"
  <2>1. VReg(s.dst) \in Int /\ VReg(s.ptr) \in Nat /\ VReg(s.ptr) \in Int
        /\ NoReg \in Int /\ 0 \in Int
    BY <1>2, VRegNat DEF NoReg
  <2> HIDE DEF s
  <2>2. i \in Unresolved(Nat, Callees)
    BY <2>1, OpcodeLemma, UnresolvedInstr DEF LW
  <2>3. i.op = "LW"
    BY DEF LW, Instr
  <2> QED BY <2>2, <2>3
<1> HIDE DEF i
<1> QED BY <1>1, <1>3, SelectOne, JumpOpLemma DEF Terminators, IsJump

(* A store goes through a pointer, which is not SP.                        *)
LEMMA SelectStoreKept ==
    ASSUME SelectionInv, ShapeInv, SelectStore PROVE SelectionInv' /\ ShapeInv'
<1> DEFINE s == Head(todo)
           i == SW(VReg(s.val), VReg(s.ptr))
<1>1. /\ pass = "isel" /\ todo # <<>> /\ s.op = "store" /\ Select(<<i>>)
      /\ UNCHANGED frameVars
  BY DEF SelectStore, Selecting
<1>2. s.val \in SSAValue /\ s.ptr \in SSAValue
  <2>1. s \in Statement
    BY <1>1, NextStatement
  <2> QED BY <1>1, <2>1 DEF Statement
<1>3. i \in Unresolved(Nat, Callees) /\ i.op = "SW"
  <2>1. /\ VReg(s.val) \in Int /\ VReg(s.ptr) \in Nat /\ VReg(s.ptr) \in Int
        /\ VReg(s.val) \in Nat /\ VReg(s.ptr) # X2 /\ NoReg \in Int /\ 0 \in Int
    BY <1>2, VRegNat DEF NoReg
  <2> HIDE DEF s
  <2>2. i \in Unresolved(Nat, Callees)
    BY <2>1, OpcodeLemma, UnresolvedInstr DEF SW
  <2>3. i.op = "SW"
    BY DEF SW, Instr
  <2> QED BY <2>2, <2>3
<1> HIDE DEF i
<1> QED BY <1>1, <1>3, SelectOne, JumpOpLemma DEF Terminators, IsJump

(* A conditional branch names the block it goes to.                        *)
LEMMA UnresolvedJumps ==
    ASSUME NEW fns, NEW opc \in Branches,
           NEW x \in Int, NEW y \in Int, NEW blk \in Int
    PROVE  /\ Branch(opc, x, y, blk) \in Unresolved(Nat, fns)
           /\ Branch(opc, x, y, blk).op = opc /\ Branch(opc, x, y, blk).sym = blk
<1> DEFINE b == Instr(opc, NoReg, x, y, 0)
<1>1. NoReg \in Int /\ opc \in Opcode
  BY OpcodeLemma DEF NoReg
<1>2. opc \notin {"ADDI", "LW", "SW", "COPY", "ADD", "SUB", "PseudoCALL"}
  BY JumpOpLemma
<1>3. b \in Unresolved(Nat, fns)
  BY <1>1, <1>2, UnresolvedInstr
<1>4. b.op = opc /\ b \in Instruction
  BY <1>1, InstrLemma
<1> HIDE DEF b
<1>5. [b EXCEPT !.sym = blk] \in Unresolved(Nat, fns)
  BY <1>2, <1>3, <1>4, UnresolvedSym
<1>6. [b EXCEPT !.sym = blk].op = opc /\ [b EXCEPT !.sym = blk].sym = blk
  BY <1>4 DEF Instruction
<1> QED BY <1>5, <1>6 DEF Branch, b

(* A label and an unconditional branch.                                    *)
LEMMA UnresolvedBlocks ==
    ASSUME NEW fns, NEW blk \in Int
    PROVE  /\ LABEL(blk) \in Unresolved(Nat, fns)
           /\ LABEL(blk).op = "LABEL" /\ LABEL(blk).sym = blk
           /\ PseudoBR(blk) \in Unresolved(Nat, fns)
           /\ PseudoBR(blk).op = "PseudoBR" /\ PseudoBR(blk).sym = blk
<1>1. ASSUME NEW op \in {"LABEL", "PseudoBR"}
      PROVE  /\ Branch(op, NoReg, NoReg, blk) \in Unresolved(Nat, fns)
             /\ Branch(op, NoReg, NoReg, blk).op = op
             /\ Branch(op, NoReg, NoReg, blk).sym = blk
  <2> DEFINE b == Instr(op, NoReg, NoReg, NoReg, 0)
  <2>1. NoReg \in Int /\ op \in Opcode
    BY OpcodeLemma DEF NoReg
  <2>2. b \in Unresolved(Nat, fns)
    BY <2>1, UnresolvedInstr DEF NoReg
  <2>3. b.op = op /\ b \in Instruction
    <3>1. b \in Instruction
      BY <2>2 DEF Unresolved, Operands
    <3> QED BY <3>1 DEF Instr
  <2> HIDE DEF b
  <2>4. [b EXCEPT !.sym = blk] \in Unresolved(Nat, fns)
    BY <2>2, <2>3, UnresolvedSym
  <2>5. [b EXCEPT !.sym = blk].op = op /\ [b EXCEPT !.sym = blk].sym = blk
    BY <2>3 DEF Instruction
  <2> QED BY <2>4, <2>5 DEF Branch, b
<1>2. LABEL(blk) = Branch("LABEL", NoReg, NoReg, blk)
  BY DEF LABEL, Branch
<1>3. PseudoBR(blk) = Branch("PseudoBR", NoReg, NoReg, blk)
  BY DEF PseudoBR, Branch
<1>4. "LABEL" \in {"LABEL", "PseudoBR"} /\ "PseudoBR" \in {"LABEL", "PseudoBR"}
  OBVIOUS
<1>5. /\ LABEL(blk) \in Unresolved(Nat, fns)
      /\ LABEL(blk).op = "LABEL" /\ LABEL(blk).sym = blk
  BY <1>1, <1>2, <1>4
<1> QED BY <1>1, <1>3, <1>4, <1>5

(* A block that is begun is known from then on.                            *)
LEMMA StartBlockKept ==
    ASSUME SelectionInv, ShapeInv, StartBlock PROVE SelectionInv' /\ ShapeInv'
<1> DEFINE s == Head(todo)
           i == LABEL(s.block)
<1>1. /\ pass = "isel" /\ todo # <<>> /\ s.op = "label" /\ Select(<<i>>)
      /\ UNCHANGED frameVars
  BY DEF StartBlock, Selecting
<1>2. s.block \in Int
  <2>1. s \in Statement
    BY <1>1, NextStatement
  <2> QED BY <1>1, <2>1 DEF Statement, Block
<1>3. i \in Unresolved(Nat, Callees) /\ i.op = "LABEL" /\ i.sym = s.block
  BY <1>2, UnresolvedBlocks
<1> HIDE DEF i
<1> QED BY <1>1, <1>3, SelectOne, JumpOpLemma DEF Terminators, IsJump

(* A branch that is left out leads to the block that follows, so that      *)
(* something is left to select.                                            *)
LEMMA SelectBRKept ==
    ASSUME SelectionInv, ShapeInv, SelectBR PROVE SelectionInv' /\ ShapeInv'
<1> DEFINE s == Head(todo)
           i == PseudoBR(s.to)
           instrs == IF Follows(s.to) THEN <<>> ELSE <<i>>
<1>1. /\ pass = "isel" /\ todo # <<>> /\ s.op = "br" /\ Select(instrs)
      /\ UNCHANGED frameVars
  BY DEF SelectBR, Selecting
<1>2. s.to \in Int
  <2>1. s \in Statement
    BY <1>1, NextStatement
  <2> QED BY <1>1, <2>1 DEF Statement, Block
<1>3. s.to \in KnownBlocks
  BY <1>1, NextStatement DEF SelectionInv, BranchesWithin
<1>5. i \in Unresolved(Nat, Callees) /\ i.op = "PseudoBR" /\ i.sym = s.to
  BY <1>2, UnresolvedBlocks
<1>6. /\ code' = code \o instrs /\ todo' = Tail(todo) /\ pass' = "isel"
      /\ UNCHANGED prog /\ Callees' = Callees
  BY <1>1 DEF Select, Callees, frameVars
<1>7. Len(todo) = 1 => instrs = <<i>>
  BY DEF Follows
<1>8. instrs = <<>> \/ instrs = <<i>>
  OBVIOUS
<1>12. Len(<<i>>) = 1 /\ <<i>>[1] = i /\ \A j \in 1 .. Len(<<i>>) : <<i>>[j] = i
  OBVIOUS
<1>13. <<i>> \in Seq(Unresolved(Nat, Callees'))
  BY <1>5, <1>6
<1> HIDE DEF i, instrs
<1>9. \A j \in 1 .. Len(instrs) : instrs[j] = i
  <2>1. instrs = <<>> => Len(instrs) = 0
    OBVIOUS
  <2> QED BY <1>8, <1>12, <2>1
<1>10. Len(todo) = 1 => Len(instrs) # 0 /\ instrs[Len(instrs)] = i
  BY <1>7, <1>12
<1>11. instrs \in Seq(Unresolved(Nat, Callees'))
  <2>1. <<>> \in Seq(Unresolved(Nat, Callees'))
    OBVIOUS
  <2> QED BY <1>8, <1>13, <2>1
<1> QED BY <1>1, <1>3, <1>5, <1>6, <1>9, <1>10, <1>11, SelectionKept
        DEF EndsBlock

(* A conditional branch names two known blocks.                            *)
LEMMA SelectBR_CCKept ==
    ASSUME SelectionInv, ShapeInv, SelectBR_CC PROVE SelectionInv' /\ ShapeInv'
<1> DEFINE s == Head(todo)
           cc == IF Follows(s.to) THEN Inverted[s.cc] ELSE s.cc
           n == LoweredBR_CC(cc, VReg(s.a), VReg(s.b))
           dests == IF Follows(s.to) THEN <<s.else, s.to>> ELSE <<s.to, s.else>>
           i == Branch(BranchOpcode[n.cc], n.lhs, n.rhs, dests[1])
           j == PseudoBR(dests[2])
<1>1. /\ pass = "isel" /\ todo # <<>> /\ s.op = "br_cc" /\ Select(<<i, j>>)
      /\ n.cc \in DOMAIN BranchOpcode
      /\ UNCHANGED frameVars
  BY DEF SelectBR_CC, Selecting
<1>2. s.a \in SSAValue /\ s.b \in SSAValue /\ s.to \in Int /\ s.else \in Int
  <2>1. s \in Statement
    BY <1>1, NextStatement
  <2> QED BY <1>1, <2>1 DEF Statement, Block
<1>3. s.to \in KnownBlocks /\ s.else \in KnownBlocks
  BY <1>1, NextStatement DEF SelectionInv, BranchesWithin
<1>4. /\ dests[1] \in Int /\ dests[2] \in Int
      /\ dests[1] \in KnownBlocks /\ dests[2] \in KnownBlocks
  BY <1>2, <1>3
<1>5. n.lhs \in Int /\ n.rhs \in Int
  BY <1>2, VRegNat DEF LoweredBR_CC, Node
<1>6. BranchOpcode[n.cc] \in Branches
  BY <1>1 DEF Branches
<1>8. /\ code' = code \o <<i, j>> /\ todo' = Tail(todo) /\ pass' = "isel"
      /\ UNCHANGED prog /\ Callees' = Callees
  BY <1>1 DEF Select, Callees, frameVars
<1> HIDE DEF n, dests, s
<1>7. i \in Unresolved(Nat, Callees) /\ i.sym = dests[1]
  BY <1>4, <1>5, <1>6, UnresolvedJumps
<1>9. j \in Unresolved(Nat, Callees) /\ j.sym = dests[2] /\ j.op = "PseudoBR"
  BY <1>4, UnresolvedBlocks
<1> HIDE DEF i, j
<1>10. /\ <<i, j>> \in Seq(Unresolved(Nat, Callees')) /\ Len(<<i, j>>) = 2
       /\ <<i, j>>[1] = i /\ <<i, j>>[2] = j
  BY <1>7, <1>8, <1>9
<1>11. \A k \in 1 .. Len(<<i, j>>) : <<i, j>>[k] = i \/ <<i, j>>[k] = j
  BY <1>10
<1> DEFINE instrs == <<i, j>>
<1> HIDE DEF instrs
<1>12. /\ instrs \in Seq(Unresolved(Nat, Callees')) /\ code' = code \o instrs
       /\ \A k \in 1 .. Len(instrs) :
            IsJump(instrs[k]) => instrs[k].sym \in KnownBlocks
       /\ Len(instrs) # 0 /\ EndsBlock(instrs[Len(instrs)])
  BY <1>4, <1>7, <1>8, <1>9, <1>10, <1>11 DEF EndsBlock, instrs
<1> QED BY <1>1, <1>8, <1>12, SelectionKept DEF s

(* Instructions that do not jump.                                          *)
Straight(fns) == {i \in Unresolved(Nat, fns) : ~IsJump(i)}

(* A list of them is a list of operands, and has no jump.                  *)
LEMMA StraightLemma ==
    ASSUME NEW fns, NEW c \in Seq(Straight(fns))
    PROVE  c \in Seq(Unresolved(Nat, fns)) /\ \A j \in 1 .. Len(c) : ~IsJump(c[j])
BY DEF Straight

(* What calls and returns are built of is straight.                        *)
LEMMA StraightInstr ==
    ASSUME NEW fns, NEW rd \in Int, NEW r \in Nat, NEW n \in Int
    PROVE  /\ COPY(rd, r) \in Straight(fns)
           /\ ADDI(rd, r, n) \in Straight(fns)
           /\ LW(rd, r) \in Straight(fns)
           /\ rd \in Nat /\ r # X2 => SW(rd, r) \in Straight(fns)
           /\ ADJCALLSTACKDOWN(n) \in Straight(fns)
           /\ ADJCALLSTACKUP(n) \in Straight(fns)
<1>1. NoReg \in Int /\ r \in Int /\ 0 \in Int
  BY DEF NoReg
<1>3. COPY(rd, r) \in Unresolved(Nat, fns) /\ COPY(rd, r).op = "COPY"
  BY <1>1, OpcodeLemma, UnresolvedInstr DEF COPY, Instr
<1>4. ADDI(rd, r, n) \in Unresolved(Nat, fns) /\ ADDI(rd, r, n).op = "ADDI"
  BY <1>1, OpcodeLemma, UnresolvedInstr DEF ADDI, Instr
<1>5. LW(rd, r) \in Unresolved(Nat, fns) /\ LW(rd, r).op = "LW"
  BY <1>1, OpcodeLemma, UnresolvedInstr DEF LW, Instr
<1>6. rd \in Nat /\ r # X2 => SW(rd, r) \in Unresolved(Nat, fns) /\ SW(rd, r).op = "SW"
  BY <1>1, OpcodeLemma, UnresolvedInstr DEF SW, Instr
<1>7. /\ ADJCALLSTACKDOWN(n) \in Unresolved(Nat, fns)
      /\ ADJCALLSTACKDOWN(n).op = "ADJCALLSTACKDOWN"
  BY <1>1, OpcodeLemma, UnresolvedInstr DEF ADJCALLSTACKDOWN, Instr
<1>8. /\ ADJCALLSTACKUP(n) \in Unresolved(Nat, fns)
      /\ ADJCALLSTACKUP(n).op = "ADJCALLSTACKUP"
  BY <1>1, OpcodeLemma, UnresolvedInstr DEF ADJCALLSTACKUP, Instr
<1> QED BY <1>3, <1>4, <1>5, <1>6, <1>7, <1>8, JumpOpLemma DEF Straight, IsJump

(* LowerReturn ends the block with PseudoRET.                              *)
LEMMA LowerReturnKept ==
    ASSUME SelectionInv, ShapeInv, LowerReturn PROVE SelectionInv' /\ ShapeInv'
<1> DEFINE s == Head(todo)
           vals == s.vals
           uses == {X1} \cup {RetCC_RV32I(k) : k \in 1 .. Len(vals)}
           c == [k \in 1 .. Len(vals) |-> COPY(RetCC_RV32I(k), VReg(vals[k]))]
           r == PseudoRET(uses)
           A == Straight(Callees)
<1>1. /\ pass = "isel" /\ todo # <<>> /\ s.op = "ret" /\ Select(c \o <<r>>)
      /\ UNCHANGED frameVars
  BY DEF LowerReturn, Selecting
<1>2. vals \in Seq(SSAValue)
  <2>1. s \in Statement
    BY <1>1, NextStatement
  <2> QED BY <1>1, <2>1 DEF Statement
<1>3. /\ code' = code \o (c \o <<r>>) /\ todo' = Tail(todo) /\ pass' = "isel"
      /\ UNCHANGED prog /\ Callees' = Callees
  BY <1>1 DEF Select, Callees, frameVars
<1> HIDE DEF s, vals
<1>4. Len(vals) \in Nat /\ \A k \in 1 .. Len(vals) : vals[k] \in SSAValue
  BY <1>2
<1>5. \A k \in 1 .. Len(vals) : RetCC_RV32I(k) \in Int
  BY <1>4 DEF RetCC_RV32I, X10
<1>6. ASSUME NEW k \in 1 .. Len(vals)
      PROVE  COPY(RetCC_RV32I(k), VReg(vals[k])) \in A
  <2>1. VReg(vals[k]) \in Nat
    BY <1>4, VRegNat
  <2> QED BY <1>5, <2>1, StraightInstr
<1>7. c \in Seq(A)
  <2> HIDE DEF A
  <2> QED BY <1>4, <1>6
<1>8. r \in A /\ r.op = "PseudoRET"
  <2> DEFINE b == Instr("PseudoRET", NoReg, NoReg, NoReg, 0)
  <2>1. b \in Unresolved(Nat, Callees)
    BY OpcodeLemma, UnresolvedInstr DEF NoReg
  <2>2. uses \in SUBSET Int
    BY <1>5 DEF X1
  <2>3. b.op = "PseudoRET" /\ b \in Instruction
    BY <2>1 DEF Instr, Unresolved, Operands
  <2> HIDE DEF b, uses
  <2>4. [b EXCEPT !.implicit = uses] \in Unresolved(Nat, Callees)
    BY <2>1, <2>2, UnresolvedImplicit
  <2>5. [b EXCEPT !.implicit = uses].op = "PseudoRET"
    BY <2>3 DEF Instruction
  <2>6. r = [b EXCEPT !.implicit = uses]
    BY DEF PseudoRET, b
  <2> QED BY <2>4, <2>5, <2>6, JumpOpLemma DEF Straight, IsJump
<1> HIDE DEF c, r, A
<1>9. <<r>> \in Seq(A) /\ Len(<<r>>) = 1 /\ <<r>>[1] = r /\ 1 \in 1 .. Len(<<r>>)
  BY <1>8
<1> DEFINE instrs == c \o <<r>>
<1>10. /\ instrs \in Seq(A) /\ Len(instrs) = Len(c) + 1
       /\ instrs[Len(c) + 1] = r /\ Len(c) \in Nat
  BY <1>7, <1>9, Concatenation
<1> HIDE DEF instrs
<1>11. /\ instrs \in Seq(Unresolved(Nat, Callees'))
       /\ \A j \in 1 .. Len(instrs) : ~IsJump(instrs[j])
  BY <1>3, <1>10, StraightLemma DEF A
<1>12. Len(instrs) # 0 /\ EndsBlock(instrs[Len(instrs)])
  BY <1>8, <1>10 DEF EndsBlock
<1>13. code' = code \o instrs
  BY <1>3 DEF instrs
<1> QED BY <1>1, <1>3, <1>11, <1>12, <1>13, SelectionKept DEF s

(* A call sets adjustsStack, and it calls a function of the program.       *)
LEMMA LowerCallKept ==
    ASSUME SelectionInv, ShapeInv, LowerCall PROVE SelectionInv' /\ ShapeInv'
<1> DEFINE s == Head(todo)
           n == Len(s.args)
           Loc(i) == CC_RV32I(i).loc
           InReg == {i \in 1 .. n : CC_RV32I(i).isReg}
           Stored(i) == <<COPY(Temp(2 * i), X2),
                          ADDI(Temp(2 * i + 1), Temp(2 * i), Loc(i)),
                          SW(VReg(s.args[i]), Temp(2 * i + 1))>>
           Passed(i) == <<COPY(Loc(i), VReg(s.args[i]))>>
           Result(k) == COPY(VReg(s.dsts[k]), RetCC_RV32I(k))
           down == ADJCALLSTACKDOWN(StackBytes(n))
           stored == [i \in 1 .. n |-> IF i \in InReg THEN <<>> ELSE Stored(i)]
           passed == [i \in 1 .. n |-> IF i \in InReg THEN Passed(i) ELSE <<>>]
           uses == {Loc(i) : i \in InReg}
           call == PseudoCALL(s.fn, uses)
           up == ADJCALLSTACKUP(StackBytes(n))
           results == [k \in 1 .. Len(s.dsts) |-> Result(k)]
           B == Straight(Callees')
<1>1. /\ pass = "isel" /\ todo # <<>> /\ s.op = "call"
      /\ adjustsStack' = TRUE /\ pass' = "isel" /\ UNCHANGED prog
  BY DEF LowerCall, Selecting, NoteCallFrame
<1>2. /\ ~s.tail /\ s.fn \in DOMAIN prog /\ s \in Statement
  BY <1>1, NextStatement
<1>3. /\ code' = code \o <<down>> \o FlattenSeq(stored) \o FlattenSeq(passed)
                    \o <<call, up>> \o results
      /\ todo' = Tail(todo)
  BY <1>2 DEF LowerCall
<1>4. /\ s.args \in Seq(SSAValue) /\ s.dsts \in Seq(SSAValue)
      /\ s.fn \in Int
  BY <1>1, <1>2 DEF Statement
<1>5. /\ n \in Nat /\ \A i \in 1 .. n : s.args[i] \in SSAValue
      /\ Len(s.dsts) \in Nat /\ \A k \in 1 .. Len(s.dsts) : s.dsts[k] \in SSAValue
  BY <1>4
<1>6. /\ Callees' = DOMAIN prog /\ Callees \subseteq Callees'
  BY <1>1 DEF Callees
<1>7. code \in Seq(Unresolved(Nat, Callees))
  BY <1>1 DEF ShapeInv
<1>8. \A i \in 1 .. n : Loc(i) \in Int
  BY <1>5 DEF CC_RV32I, RegLoc, MemLoc, NumArgRegs, X10
<1> HIDE DEF s
<1>9. \A i \in 1 .. n : stored[i] \in Seq(B)
  <2> SUFFICES ASSUME NEW i \in 1 .. n PROVE Stored(i) \in Seq(B)
    OBVIOUS
  <2>1. 2 * i \in Nat /\ 2 * i + 1 \in Nat
    BY <1>5
  <2>2. /\ Temp(2 * i) \in Int /\ Temp(2 * i) >= 32
        /\ Temp(2 * i + 1) \in Int /\ Temp(2 * i + 1) >= 32
        /\ Temp(2 * i + 1) # X2
    BY <1>7, <2>1, TempLemma
  <2>3. /\ VReg(s.args[i]) \in Int /\ VReg(s.args[i]) \in Nat /\ Loc(i) \in Int
        /\ X2 \in Nat /\ Temp(2 * i) \in Nat /\ Temp(2 * i + 1) \in Nat
    <3>1. VReg(s.args[i]) \in Int /\ VReg(s.args[i]) \in Nat
      BY <1>5, VRegNat
    <3>2. \A x \in Int : x >= 32 => x \in Nat
      OBVIOUS
    <3> QED BY <1>8, <2>2, <3>1, <3>2 DEF X2
  <2> HIDE DEF Loc
  <2>4. /\ COPY(Temp(2 * i), X2) \in B
        /\ ADDI(Temp(2 * i + 1), Temp(2 * i), Loc(i)) \in B
        /\ SW(VReg(s.args[i]), Temp(2 * i + 1)) \in B
    BY <2>2, <2>3, StraightInstr
  <2> HIDE DEF B
  <2> QED BY <2>4
<1>10. \A i \in 1 .. n : passed[i] \in Seq(B)
  <2> SUFFICES ASSUME NEW i \in InReg PROVE Passed(i) \in Seq(B)
    OBVIOUS
  <2>1. VReg(s.args[i]) \in Nat /\ Loc(i) \in Int
    BY <1>5, <1>8, VRegNat
  <2> HIDE DEF Loc
  <2>2. COPY(Loc(i), VReg(s.args[i])) \in B
    BY <2>1, StraightInstr
  <2> HIDE DEF B
  <2> QED BY <2>2
<1>11. down \in B /\ up \in B
  <2>1. StackBytes(n) \in Int
    <3>1. n \in Nat
      BY <1>5
    <3> HIDE DEF n
    <3>2. StackBytes(n) \in Nat
      BY <3>1, StackBytesLemma
    <3> QED BY <3>2
  <2>2. 0 \in Int /\ 0 \in Nat
    OBVIOUS
  <2> QED BY <2>1, <2>2, StraightInstr
<1>12. call \in B
  <2> DEFINE b == Instr("PseudoCALL", NoReg, NoReg, NoReg, 0)
             c == [[b EXCEPT !.sym = s.fn] EXCEPT !.implicit = uses]
  <2>1. /\ b \in Instruction /\ b.op = "PseudoCALL" /\ b.fi = 0 /\ b.rd = NoReg
    BY OpcodeLemma, InstrLemma DEF NoReg
  <2>2. uses \in SUBSET Int
    BY <1>8
  <2>3. call = c
    BY DEF PseudoCALL
  <2> HIDE DEF b, uses, call
  <2>4. /\ c \in Instruction /\ c.op = "PseudoCALL" /\ c.fi = 0 /\ c.rd = NoReg
        /\ c.sym = s.fn
    BY <1>4, <2>1, <2>2 DEF Instruction
  <2> HIDE DEF c
  <2>5. c \in Operands(Nat, Callees')
    BY <1>2, <1>6, <2>4 DEF Operands, s
  <2>6. c \in Unresolved(Nat, Callees')
    BY <2>4, <2>5 DEF Unresolved
  <2> QED BY <2>3, <2>4, <2>6, JumpOpLemma DEF Straight, IsJump
<1>13. results \in Seq(B)
  <2>1. ASSUME NEW k \in 1 .. Len(s.dsts) PROVE Result(k) \in B
    <3>1. RetCC_RV32I(k) \in Nat
      BY <1>5 DEF RetCC_RV32I, X10
    <3>2. VReg(s.dsts[k]) \in Int
      BY <1>5, VRegNat
    <3> QED BY <3>1, <3>2, StraightInstr
  <2> HIDE DEF Result, B
  <2> QED BY <1>5, <2>1
<1> HIDE DEF B, n, call, down, up, stored, passed, results
<1>14. stored \in [1 .. n -> Seq(B)] /\ passed \in [1 .. n -> Seq(B)]
  BY <1>9, <1>10 DEF stored, passed
<1>15. FlattenSeq(stored) \in Seq(B) /\ FlattenSeq(passed) \in Seq(B)
  BY <1>5, <1>14, Flattened
<1> DEFINE fs == FlattenSeq(stored)
           fp == FlattenSeq(passed)
           U == Unresolved(Nat, Callees')
<1>16. <<down>> \in Seq(B) /\ <<call, up>> \in Seq(B)
  BY <1>11, <1>12
<1>17. PICK instrs \in Seq(B) : code' = code \o instrs
  <2>1. \A x \in Seq(B) : x \in Seq(U)
    BY StraightLemma DEF B
  <2>2. code \in Seq(U)
    BY <1>6, <1>7, UnresolvedGrows
  <2> HIDE DEF fs, fp, U
  <2>3. \A x \in Seq(U), y, z \in Seq(B) : (x \o y) \o z = x \o (y \o z)
                                          /\ y \o z \in Seq(B)
    BY <2>1, ConcatAssociative, Concatenation
  <2>4. /\ code \o <<down>> \o fs = code \o (<<down>> \o fs)
        /\ <<down>> \o fs \in Seq(B)
    BY <1>15, <1>16, <2>2, <2>3 DEF fs
  <2>5. PICK x \in Seq(B) : code \o <<down>> \o fs \o fp = code \o x
    <3> DEFINE z == <<down>> \o fs
    <3>1. z \in Seq(B) /\ fp \in Seq(B)
      BY <1>15, <2>4 DEF fp
    <3> HIDE DEF z
    <3>2. (code \o z) \o fp = code \o (z \o fp) /\ z \o fp \in Seq(B)
      BY <2>2, <2>3, <3>1
    <3> QED BY <2>4, <3>2 DEF z
  <2>6. PICK y \in Seq(B) : code \o <<down>> \o fs \o fp \o <<call, up>> = code \o y
    <3> DEFINE z == <<call, up>>
    <3>1. z \in Seq(B)
      BY <1>16
    <3> HIDE DEF z
    <3>2. (code \o x) \o z = code \o (x \o z) /\ x \o z \in Seq(B)
      BY <2>2, <2>3, <3>1
    <3> QED BY <2>5, <3>2 DEF z
  <2>7. PICK w \in Seq(B) :
          code \o <<down>> \o fs \o fp \o <<call, up>> \o results = code \o w
    <3>1. (code \o y) \o results = code \o (y \o results)
          /\ y \o results \in Seq(B)
      BY <1>13, <2>2, <2>3
    <3> QED BY <2>6, <3>1
  <2> QED BY <1>3, <2>7 DEF fs, fp
<1>18. /\ instrs \in Seq(U) /\ \A j \in 1 .. Len(instrs) : ~IsJump(instrs[j])
  BY <1>17, StraightLemma DEF B
<1> QED BY <1>1, <1>3, <1>6, <1>17, <1>18, SelectionKept DEF s, Terminators

(* The code starts with the copies of the arguments.                       *)
LEMMA LowerFormalArgumentsKept ==
    ASSUME SelectedInv, SelectionInv, ShapeInv, LowerFormalArguments
    PROVE  SelectionInv' /\ ShapeInv'
<1> DEFINE n == Fn.args
           Addr(i) == WithFI(ADDI(Temp(i), NoReg, 0),
                             -(CC_RV32I(i).loc \div 4 + 1))
           Incoming(i) == IF CC_RV32I(i).isReg
                          THEN <<COPY(VReg(i), CC_RV32I(i).loc)>>
                          ELSE <<Addr(i), LW(VReg(i), Temp(i))>>
           f == [i \in 1 .. n |-> Incoming(i)]
           B == Straight(Callees')
<1>1. /\ pass = "args" /\ n \in ArgCounts /\ pass' = "isel"
      /\ UNCHANGED <<prog, cur, todo>>
  BY DEF LowerFormalArguments, CreateFixedObjects
<1>2. code' = FlattenSeq(f)
  BY Zenon DEF LowerFormalArguments
<1>3. n \in Nat
  BY <1>1, ArgCountsAssumption
<1>4. code = <<>> /\ code \in Seq(Int)
  BY <1>1 DEF SelectedInv
<1> HIDE DEF n
<1>5. \A i \in 1 .. n : f[i] \in Seq(B)
  <2> SUFFICES ASSUME NEW i \in 1 .. n PROVE Incoming(i) \in Seq(B)
    OBVIOUS
  <2>1. i \in Nat /\ i \in SSAValue
    BY <1>3 DEF SSAValue
  <2>2. /\ VReg(i) \in Int /\ Temp(i) \in Int /\ Temp(i) \in Nat
    <3>1. Temp(i) \in Int /\ Temp(i) >= 32
      BY <1>4, <2>1, TempLemma
    <3>2. \A x \in Int : x >= 32 => x \in Nat
      OBVIOUS
    <3> QED BY <2>1, <3>1, <3>2, VRegNat
  <2>4. CASE i <= NumArgRegs
    <3>1. CC_RV32I(i).isReg /\ CC_RV32I(i).loc \in Nat
      BY <2>1, <2>4 DEF CC_RV32I, RegLoc, X10
    <3>2. COPY(VReg(i), CC_RV32I(i).loc) \in B
      BY <2>2, <3>1, StraightInstr
    <3> HIDE DEF B
    <3> QED BY <3>1, <3>2
  <2>5. CASE ~ (i <= NumArgRegs)
    <3>1. ~CC_RV32I(i).isReg /\ CC_RV32I(i).loc = 4 * (i - 9)
      BY <2>1, <2>5 DEF CC_RV32I, MemLoc, NumArgRegs
    <3>2. CC_RV32I(i).loc \div 4 + 1 = i - 8
      <4>1. i - 9 \in Nat
        BY <2>1, <2>5 DEF NumArgRegs
      <4> QED BY <2>1, <3>1, <4>1
    <3>4. -(i - 8) \in Int \ {0}
      BY <2>1, <2>5 DEF NumArgRegs
    <3>5. Addr(i) \in Unresolved(Nat, Callees')
      <4>1. NoReg \in Int /\ "ADDI" \in {"ADDI", "LW", "SW"}
        BY DEF NoReg
      <4>2. WithFI(Instr("ADDI", Temp(i), NoReg, NoReg, 0), -(i - 8))
              \in Unresolved(Nat, Callees')
        BY <2>2, <3>4, <4>1, UnresolvedFI
      <4> QED BY <3>2, <4>2 DEF ADDI
    <3>6. Addr(i).op = "ADDI"
      BY DEF WithFI, ADDI, Instr
    <3>7. Addr(i) \in B
      BY <3>5, <3>6, JumpOpLemma DEF Straight, IsJump
    <3>8. LW(VReg(i), Temp(i)) \in B
      <4>1. 0 \in Int
        OBVIOUS
      <4> QED BY <2>2, <4>1, StraightInstr
    <3> HIDE DEF B, Addr
    <3> QED BY <3>1, <3>7, <3>8
  <2> QED BY <2>4, <2>5
<1> HIDE DEF f, B
<1>6. f \in [1 .. n -> Seq(B)]
  BY <1>5 DEF f
<1>7. code' \in Seq(B)
  BY <1>2, <1>3, <1>6, Flattened
<1>8. /\ code' \in Seq(Unresolved(Nat, Callees'))
      /\ \A j \in 1 .. Len(code') : ~IsJump(code'[j])
  BY <1>7, StraightLemma DEF B
<1>9. /\ todo # <<>> /\ todo \in Seq(PlainStatement(DOMAIN prog))
      /\ BranchesWithin(todo, KnownBlocks)
      /\ todo[Len(todo)].op \in Terminators
  BY <1>1, <1>4 DEF SelectionInv
<1>10. KnownBlocks \subseteq KnownBlocks'
  BY <1>1, <1>4 DEF KnownBlocks, LabelsOf, BlocksOf
<1>11. BranchesWithin(todo', KnownBlocks')
  BY <1>1, <1>9, <1>10 DEF BranchesWithin
<1>12. JumpsWithin(code', KnownBlocks')
  <2>1. DOMAIN code' = 1 .. Len(code')
    BY <1>8
  <2> QED BY <1>8, <2>1 DEF JumpsWithin
<1>13. SelectionInv'
  BY <1>1, <1>9, <1>11, <1>12 DEF SelectionInv
<1>14. ShapeInv'
  BY <1>1, <1>8 DEF ShapeInv
<1> QED BY <1>13, <1>14

(* The body is as the IR verifier leaves it.                               *)
LEMMA BeginFunctionKept ==
    ASSUME SelectedInv, PlainProgram, BeginFunction
    PROVE  SelectionInv' /\ ShapeInv'
<1> DEFINE b == Fn.body
           blocks == {b[k].block : k \in {k \in DOMAIN b : b[k].op = "label"}}
<1>1. /\ pass = "alloca" /\ pass' = "args" /\ todo' = b
      /\ UNCHANGED <<prog, cur, code>>
  BY DEF BeginFunction
<1>2. prog \in Programs /\ cur \in DOMAIN prog /\ code = <<>>
  BY <1>1 DEF SelectedInv
<1>3. b \in Seq(Statement)
  <2>1. Fn \in Function
    BY <1>2, ProgramsAssumption DEF Fn
  <2> QED BY <2>1 DEF Function
<1>4. /\ b # <<>> /\ Last(b).op \in Terminators
      /\ \A k \in DOMAIN b :
           /\ b[k].op \in {"br", "br_cc"} => b[k].to \in blocks
           /\ b[k].op = "br_cc" => b[k].else \in blocks
           /\ b[k].op = "call" => b[k].fn \in DOMAIN prog
  BY <1>2, ProgramsAssumption DEF Fn
<1>5. \A k \in DOMAIN b : b[k].op # "alloca" /\ (b[k].op = "call" => ~b[k].tail)
  BY <1>2 DEF PlainProgram, Fn
<1>6. blocks \subseteq KnownBlocks'
  BY <1>1 DEF KnownBlocks, BlocksOf
<1> HIDE DEF b, blocks
<1>7. b \in Seq(PlainStatement(DOMAIN prog))
  <2>1. Len(b) \in Nat /\ DOMAIN b = 1 .. Len(b)
    BY <1>3
  <2>2. \A k \in 1 .. Len(b) : b[k] \in PlainStatement(DOMAIN prog)
    BY <1>3, <1>4, <1>5, <2>1 DEF PlainStatement
  <2> QED BY <1>3, <2>1, <2>2
<1>8. BranchesWithin(todo', KnownBlocks')
  BY <1>1, <1>4, <1>6 DEF BranchesWithin
<1>9. JumpsWithin(code', KnownBlocks')
  BY <1>1, <1>2 DEF JumpsWithin
<1>10. todo'[Len(todo')].op \in Terminators /\ todo' # <<>>
  BY <1>1, <1>4 DEF Last
<1>11. SelectionInv'
  BY <1>1, <1>7, <1>8, <1>9, <1>10 DEF SelectionInv
<1>12. ShapeInv'
  BY <1>1 DEF ShapeInv
<1> QED BY <1>11, <1>12

(* When nothing is left to select every jump has its label.                *)
LEMMA FinishISelKept ==
    ASSUME SelectionInv, ShapeInv, FinishISel PROVE SelectionInv' /\ ShapeInv'
<1>1. /\ pass = "isel" /\ todo = <<>> /\ pass' = "regalloc"
      /\ UNCHANGED <<prog, cur, todo, code, frameVars>>
  BY DEF FinishISel
<1>2. /\ code # <<>> /\ EndsBlock(code[Len(code)])
      /\ JumpsWithin(code, KnownBlocks)
  BY <1>1 DEF SelectionInv
<1>3. KnownBlocks = LabelsOf(code)
  BY <1>1 DEF KnownBlocks, BlocksOf
<1>4. Closed(code)
  BY <1>2, <1>3 DEF Closed
<1>5. SelectionInv'
  BY <1>1 DEF SelectionInv
<1>6. Callees' = Callees /\ code' = code
  BY <1>1 DEF Callees, frameVars
<1>7. ShapeInv'
  BY <1>1, <1>4, <1>6 DEF ShapeInv
<1> QED BY <1>5, <1>7
-----------------------------------------------------------------------------
(* The passes behind selection.                                            *)

(* What follows an instruction that ends no block may be added to its part.*)
LEMMA PartExtended ==
    ASSUME NEW i, ~EndsBlock(i), NEW s \in Seq(Instruction), PartOf(i, s),
           NEW y \in Seq(Instruction), \A k \in 1 .. Len(y) : ~IsJump(y[k])
    PROVE  PartOf(i, s \o y)
<1> DEFINE d == s \o y
           m == Len(s)
           n == Len(y)
<1>1. /\ Len(d) = m + n /\ \A k \in 1 .. m : d[k] = s[k]
      /\ \A k \in 1 .. n : d[m + k] = y[k]
  BY Concatenation
<1>2. m \in Nat /\ n \in Nat
  OBVIOUS
<1> HIDE DEF d, m, n
<1>3. \A k \in 1 .. Len(d) : \/ k \in 1 .. m
                             \/ k - m \in 1 .. n /\ m + (k - m) = k
  <2>1. \A k \in 1 .. m + n : \/ k \in 1 .. m
                              \/ k - m \in 1 .. n /\ m + (k - m) = k
    BY <1>2
  <2> QED BY <1>1, <2>1
<1>4. \A k \in 1 .. m : k \in 1 .. Len(d)
  BY <1>1, <1>2
<1>5. i.op = "LABEL" => \E j \in 1 .. Len(d) : d[j].op = "LABEL" /\ d[j].sym = i.sym
  <2> SUFFICES ASSUME i.op = "LABEL"
               PROVE  \E j \in 1 .. Len(d) : d[j].op = "LABEL" /\ d[j].sym = i.sym
    OBVIOUS
  <2>1. PICK j \in 1 .. m : s[j].op = "LABEL" /\ s[j].sym = i.sym
    BY DEF PartOf, m
  <2> QED BY <1>1, <1>4, <2>1
<1>6. ASSUME NEW j \in 1 .. Len(d), IsJump(d[j]) PROVE IsJump(i) /\ d[j].sym = i.sym
  <2>1. CASE j \in 1 .. m
    BY <1>1, <1>6, <2>1 DEF PartOf, m
  <2>2. CASE j - m \in 1 .. n /\ m + (j - m) = j
    <3>1. d[j] = y[j - m]
      BY <1>1, <2>2
    <3> QED BY <1>6, <2>2, <3>1 DEF n
  <2> QED BY <1>3, <2>1, <2>2
<1> QED BY <1>5, <1>6 DEF PartOf, d

(* A reload or a spill.                                                    *)
LEMMA SpillCode ==
    ASSUME NEW fns, NEW r \in GPR, NEW fi \in Nat \ {0}
    PROVE  /\ loadRegFromStackSlot(r, fi) \in Unresolved(GPR, fns)
           /\ loadRegFromStackSlot(r, fi).op = "LW"
           /\ storeRegToStackSlot(r, fi) \in Unresolved(GPR, fns)
           /\ storeRegToStackSlot(r, fi).op = "SW"
<1>1. /\ NoReg \in Int /\ r \in Int /\ fi \in Int \ {0} /\ fi > 0
      /\ "LW" \in {"ADDI", "LW", "SW"} /\ "SW" \in {"ADDI", "LW", "SW"}
  BY DEF NoReg, GPR
<1>2. WithFI(Instr("LW", r, NoReg, NoReg, 0), fi) \in Unresolved(GPR, fns)
  BY <1>1, UnresolvedFI DEF NoReg
<1>3. WithFI(Instr("SW", NoReg, NoReg, r, 0), fi) \in Unresolved(GPR, fns)
  BY <1>1, UnresolvedFI DEF NoReg
<1> QED BY <1>2, <1>3 DEF loadRegFromStackSlot, storeRegToStackSlot, LW, SW,
                         WithFI, Instr

(* Every operand becomes a register of the machine.                        *)
LEMMA RewrittenPart ==
    ASSUME NEW fns, NEW i \in Unresolved(Nat, fns), NEW asg, NEW slot,
           \A r \in DOMAIN asg : asg[r] \in Allocatable,
           \A r \in DOMAIN slot : slot[r] \in Nat \ {0},
           NoReg \notin DOMAIN slot
    PROVE  /\ Rewritten(i, asg, slot) \in Seq(Unresolved(GPR, fns))
           /\ PartOf(i, Rewritten(i, asg, slot))
<1> DEFINE Phys(r, scratch) == IF ~IsVirtual(r) THEN r
                               ELSE IF r \in DOMAIN asg THEN asg[r] ELSE scratch
           Reload(r, scratch) == IF r \in DOMAIN slot
                                 THEN <<loadRegFromStackSlot(scratch, slot[r])>>
                                 ELSE <<>>
           main == [i EXCEPT !.rd = Phys(@, 30), !.rs1 = Phys(@, 30),
                             !.rs2 = Phys(@, 31)]
           store == IF i.rd \in DOMAIN slot
                    THEN <<storeRegToStackSlot(30, slot[i.rd])>> ELSE <<>>
           B == Unresolved(GPR, fns)
<1>1. Rewritten(i, asg, slot) =
        Reload(i.rs1, 30) \o Reload(i.rs2, 31) \o <<main>> \o store
  BY DEF Rewritten
<1>2. i \in Instruction
  BY DEF Unresolved, Operands
<1>3. \A r \in Int, scratch \in {30, 31} :
        /\ Phys(r, scratch) \in Int /\ (Phys(r, scratch) = X2 => r = X2)
        /\ r \in Nat => Phys(r, scratch) \in GPR
  <2> SUFFICES ASSUME NEW r \in Int, NEW scratch \in {30, 31}
               PROVE  /\ Phys(r, scratch) \in Int
                      /\ Phys(r, scratch) = X2 => r = X2
                      /\ r \in Nat => Phys(r, scratch) \in GPR
    OBVIOUS
  <2>1. CASE ~IsVirtual(r)
    BY <2>1 DEF IsVirtual, GPR
  <2>2. CASE IsVirtual(r) /\ r \in DOMAIN asg
    <3>1. asg[r] \in GPR /\ asg[r] \in Int /\ asg[r] # X2
      BY <2>2, AllocatableLemma DEF Allocatable
    <3> QED BY <2>2, <3>1
  <2>3. CASE IsVirtual(r) /\ r \notin DOMAIN asg
    BY <2>3 DEF X2, GPR
  <2> QED BY <2>1, <2>2, <2>3
<1>4. Phys(NoReg, 30) = NoReg
  BY DEF IsVirtual, NoReg
<1>5. main \in B /\ main \in Instruction /\ main.op = i.op /\ main.sym = i.sym
  <2>1. i.rd \in Int /\ i.rs1 \in Int /\ i.rs2 \in Int
    BY <1>2 DEF Instruction
  <2>2. /\ Phys(i.rd, 30) \in Int /\ Phys(i.rs1, 30) \in Int
        /\ Phys(i.rs2, 31) \in Int
        /\ i.rs1 \in Nat => Phys(i.rs1, 30) \in GPR
        /\ i.rs2 \in Nat => Phys(i.rs2, 31) \in GPR
        /\ Phys(i.rs1, 30) = X2 => i.rs1 = X2
        /\ i.rd = NoReg => Phys(i.rd, 30) = NoReg
    BY <1>3, <1>4, <2>1
  <2> HIDE DEF Phys
  <2>3. /\ main \in Instruction /\ main.fi = i.fi /\ main.rd = Phys(i.rd, 30)
        /\ main.rs1 = Phys(i.rs1, 30) /\ main.rs2 = Phys(i.rs2, 31)
        /\ main.op = i.op /\ main.sym = i.sym /\ main.imm = i.imm
    BY <1>2, <2>2 DEF Instruction
  <2> HIDE DEF main
  <2>4. main \in Operands(GPR, fns)
    BY <2>2, <2>3 DEF Unresolved, Operands
  <2>5. main \in Unresolved(GPR, fns)
    BY <2>2, <2>3, <2>4 DEF Unresolved, EndsBlock
  <2> QED BY <2>3, <2>5
<1> HIDE DEF Phys
<1>6. ASSUME NEW r, NEW scratch \in {30, 31}
      PROVE  /\ Reload(r, scratch) \in Seq({x \in B : x.op = "LW"})
  <2>1. CASE r \in DOMAIN slot
    <3>1. slot[r] \in Nat \ {0} /\ scratch \in GPR
      BY <2>1 DEF GPR
    <3>2. /\ loadRegFromStackSlot(scratch, slot[r]) \in B
          /\ loadRegFromStackSlot(scratch, slot[r]).op = "LW"
      BY <3>1, SpillCode
    <3> HIDE DEF B
    <3> QED BY <2>1, <3>2
  <2>2. CASE r \notin DOMAIN slot
    BY <2>2
  <2> QED BY <2>1, <2>2
<1>7. /\ store \in Seq({x \in B : x.op = "SW"})
      /\ EndsBlock(i) => store = <<>>
  <2>1. CASE i.rd \in DOMAIN slot
    <3>1. slot[i.rd] \in Nat \ {0} /\ 30 \in GPR
      BY <2>1 DEF GPR
    <3>2. /\ storeRegToStackSlot(30, slot[i.rd]) \in B
          /\ storeRegToStackSlot(30, slot[i.rd]).op = "SW"
      BY <3>1, SpillCode
    <3>3. ~EndsBlock(i)
      BY <2>1 DEF Unresolved
    <3> HIDE DEF B
    <3> QED BY <2>1, <3>2, <3>3
  <2>2. CASE i.rd \notin DOMAIN slot
    BY <2>2
  <2> QED BY <2>1, <2>2
<1> DEFINE loads == Reload(i.rs1, 30) \o Reload(i.rs2, 31)
           L == {x \in B : x.op = "LW"}
<1>8. B \subseteq Instruction
  BY UnresolvedInstruction
<1> HIDE DEF Reload, main, store, B
<1>9. loads \in Seq(L)
  <2>1. Reload(i.rs1, 30) \in Seq(L) /\ Reload(i.rs2, 31) \in Seq(L)
    BY <1>6
  <2> HIDE DEF L
  <2> QED BY <2>1, Concatenation
<1> HIDE DEF loads
<1>10. /\ loads \in Seq(Instruction) /\ loads \in Seq(B)
       /\ \A k \in 1 .. Len(loads) : ~IsJump(loads[k])
  BY <1>8, <1>9, JumpOpLemma DEF IsJump
<1>11. /\ store \in Seq(Instruction) /\ store \in Seq(B)
       /\ \A k \in 1 .. Len(store) : ~IsJump(store[k])
  BY <1>7, <1>8, JumpOpLemma DEF IsJump
<1>12. <<main>> \in Seq(B) /\ <<main>> \in Seq(Instruction)
  BY <1>5
<1>13. loads \o <<main>> \in Seq(B) /\ loads \o <<main>> \in Seq(Instruction)
  BY <1>10, <1>12, Concatenation
<1>14. loads \o <<main>> \o store \in Seq(B)
  BY <1>11, <1>13, Concatenation
<1>15. PartOf(i, loads \o <<main>>)
  BY <1>2, <1>5, <1>10, PartLemma
<1>16. PartOf(i, loads \o <<main>> \o store)
  <2>1. CASE EndsBlock(i)
    <3> DEFINE z == loads \o <<main>>
    <3>1. z \in Seq(Instruction) /\ PartOf(i, z)
      BY <1>13, <1>15
    <3> HIDE DEF z
    <3>2. z \o <<>> = z
      BY <3>1
    <3> QED BY <1>7, <2>1, <3>1, <3>2 DEF z
  <2>2. CASE ~EndsBlock(i)
    BY <1>11, <1>13, <1>15, <2>2, PartExtended
  <2> QED BY <2>1, <2>2
<1> QED BY <1>1, <1>14, <1>16 DEF B, loads

(* Register allocation rewrites the registers of the code to those of GPR  *)
(* and puts spill code around its instructions.                            *)
LEMMA RegAllocKept ==
    ASSUME SelectedInv, FrameTypeOK, ShapeInv, RegAlloc
    PROVE  SelectionInv' /\ ShapeInv'
<1>1. /\ pass = "regalloc" /\ pass' = "callframes"
      /\ UNCHANGED <<prog, cur, adjustsStack>>
  BY DEF RegAlloc, CreateStackObjects
<1>2. code \in Seq(Unresolved(Nat, Callees)) /\ Closed(code)
  BY <1>1 DEF ShapeInv
<1> DEFINE InRegister(taken) == {x.val : x \in taken} \ {NoReg}
           Asg(taken) == [v \in InRegister(taken) |->
                            (CHOOSE x \in taken : x.val = v).reg]
           InMemory(taken) ==
             FlattenSeq([p \in DOMAIN code |->
                           IF /\ IsVirtual(code[p].rd)
                              /\ code[p].rd \notin InRegister(taken)
                           THEN <<p>> ELSE <<>>])
           SlotOf(ps) == [v \in {code[p].rd : p \in ToSet(ps)} |->
                           Len(objs) + CHOOSE k \in DOMAIN ps :
                                         code[ps[k]].rd = v]
           Slots(ps) == [k \in DOMAIN ps |-> [size |-> 4, align |-> 4]]
<1> DEFINE Done(taken) ==
             /\ Slots(InMemory(taken)) \in NewObjects
             /\ CreateStackObjects(Slots(InMemory(taken)))
             /\ code' = FlattenSeq([p \in DOMAIN code |->
                                      Rewritten(code[p], Asg(taken),
                                                SlotOf(InMemory(taken)))])
<1>3. \E order \in AllocationOrders, spilled \in {{}, CrossingCalls} :
        \E taken \in {Assignment(order, spilled)} : Done(taken)
  BY Zenon DEF RegAlloc
<1> HIDE DEF Done
<1>4. PICK order, spilled, taken :
        /\ order \in AllocationOrders /\ taken = Assignment(order, spilled)
        /\ Done(taken)
  BY <1>3
<1> DEFINE ps == InMemory(taken)
<1>5. code' = FlattenSeq([p \in DOMAIN code |->
                               Rewritten(code[p], Asg(taken), SlotOf(ps))])
  BY <1>4, Zenon DEF Done
<1>6. \A r \in DOMAIN Asg(taken) : Asg(taken)[r] \in Allocatable
  <2>1. \A x \in taken : x.val = NoReg \/ x.reg \in Allocatable
    BY <1>2, <1>4, OrdersAssumption, AssignmentLemma
  <2> HIDE DEF ps
  <2> SUFFICES ASSUME NEW v \in InRegister(taken)
               PROVE  (CHOOSE x \in taken : x.val = v).reg \in Allocatable
    OBVIOUS
  <2> DEFINE x == CHOOSE x \in taken : x.val = v
  <2>2. v # NoReg /\ \E y \in taken : y.val = v
    OBVIOUS
  <2>3. x \in taken /\ x.val = v
    BY <2>2
  <2> HIDE DEF x
  <2>4. x.reg \in Allocatable
    BY <2>1, <2>2, <2>3
  <2> QED BY <2>4 DEF x
<1>7. DOMAIN code = 1 .. Len(code) /\ Len(code) \in Nat
      /\ \A p \in DOMAIN code : code[p] \in Unresolved(Nat, Callees)
  BY <1>2
<1>8. /\ ps \in Seq(Nat)
      /\ \A q \in DOMAIN ps : ps[q] \in DOMAIN code /\ IsVirtual(code[ps[q]].rd)
  <2> DEFINE D == {p \in DOMAIN code : IsVirtual(code[p].rd)}
             g == [p \in DOMAIN code |->
                     IF /\ IsVirtual(code[p].rd)
                        /\ code[p].rd \notin InRegister(taken)
                     THEN <<p>> ELSE <<>>]
  <2>1. ps = FlattenSeq(g)
    OBVIOUS
  <2> HIDE DEF ps, InRegister
  <2>2. \A p \in DOMAIN code : g[p] \in Seq(D)
    <3> SUFFICES ASSUME NEW p \in DOMAIN code PROVE g[p] \in Seq(D)
      OBVIOUS
    <3>1. g[p] = <<>> \/ (g[p] = <<p>> /\ p \in D)
      OBVIOUS
    <3> DEFINE v == g[p]
    <3>2. v = <<>> \/ (v = <<p>> /\ p \in D)
      BY <3>1
    <3> HIDE DEF v, D
    <3>3. <<>> \in Seq(D) /\ (p \in D => <<p>> \in Seq(D))
      OBVIOUS
    <3>4. v \in Seq(D)
      BY <3>2, <3>3
    <3> QED BY <3>4 DEF v
  <2>3. g \in [1 .. Len(code) -> Seq(D)]
    BY <1>7, <2>2
  <2> HIDE DEF g
  <2>4. ps \in Seq(D)
    BY <1>7, <2>1, <2>3, Flattened
  <2>5. D \subseteq Nat
    BY <1>7
  <2> QED BY <2>4, <2>5
<1> HIDE DEF InMemory, Asg, ps
<1>9. \A r \in DOMAIN SlotOf(ps) : SlotOf(ps)[r] \in Nat \ {0}
  <2> SUFFICES ASSUME NEW v \in {code[p].rd : p \in ToSet(ps)}
               PROVE  Len(objs) + (CHOOSE k \in DOMAIN ps :
                                     code[ps[k]].rd = v) \in Nat \ {0}
    OBVIOUS
  <2> DEFINE c == CHOOSE k \in DOMAIN ps : code[ps[k]].rd = v
  <2>1. \E k \in DOMAIN ps : code[ps[k]].rd = v
    BY DEF ToSet
  <2>2. c \in DOMAIN ps
    BY <2>1
  <2>3. DOMAIN ps = 1 .. Len(ps) /\ Len(objs) \in Nat
    BY <1>8 DEF FrameTypeOK
  <2> HIDE DEF c
  <2>4. Len(objs) + c \in Nat \ {0}
    BY <2>2, <2>3
  <2> QED BY <2>4 DEF c
<1>10. NoReg \notin DOMAIN SlotOf(ps)
  <2>1. DOMAIN SlotOf(ps) = {code[p].rd : p \in ToSet(ps)}
    OBVIOUS
  <2>2. \A v \in {code[p].rd : p \in ToSet(ps)} : IsVirtual(v)
    BY <1>8 DEF ToSet
  <2>3. ~IsVirtual(NoReg)
    BY DEF IsVirtual, NoReg
  <2> QED BY <2>1, <2>2, <2>3
<1> HIDE DEF SlotOf
<1> DEFINE B == Unresolved(GPR, Callees)
           f == [p \in DOMAIN code |-> Rewritten(code[p], Asg(taken), SlotOf(ps))]
<1>11. \A p \in DOMAIN code : f[p] \in Seq(B) /\ PartOf(code[p], f[p])
  <2> SUFFICES ASSUME NEW p \in DOMAIN code
               PROVE  /\ Rewritten(code[p], Asg(taken), SlotOf(ps)) \in Seq(B)
                      /\ PartOf(code[p], Rewritten(code[p], Asg(taken), SlotOf(ps)))
    OBVIOUS
  <2> QED BY <1>6, <1>7, <1>9, <1>10, RewrittenPart
<1>12. B \subseteq Instruction /\ code \in Seq(Instruction)
  BY <1>2, UnresolvedInstruction
<1> HIDE DEF B
<1>13. f \in [1 .. Len(code) -> Seq(B)] /\ f \in [1 .. Len(code) -> Seq(Instruction)]
  BY <1>7, <1>11, <1>12
<1>14. code' = FlattenSeq(f)
  BY <1>5
<1> HIDE DEF f
<1>15. code' \in Seq(B)
  BY <1>7, <1>13, <1>14, Flattened
<1>16. Closed(code')
  BY <1>2, <1>7, <1>11, <1>12, <1>13, <1>14, PartsClosed
<1>17. Callees' = Callees
  BY <1>1 DEF Callees
<1> QED BY <1>1, <1>15, <1>16, <1>17 DEF ShapeInv, SelectionInv, B

(* The pseudos around a call disappear.                                    *)
LEMMA EliminateCallFramePseudoInstrsKept ==
    ASSUME ShapeInv, EliminateCallFramePseudoInstrs
    PROVE  SelectionInv' /\ ShapeInv'
<1> DEFINE Adjusted(i) ==
             IF i.op \notin {"ADJCALLSTACKDOWN", "ADJCALLSTACKUP"} THEN <<i>>
             ELSE IF hasReservedCallFrame \/ i.imm = 0 THEN <<>>
             ELSE <<ADDI(X2, X2, IF i.op = "ADJCALLSTACKDOWN" THEN -i.imm
                                                              ELSE i.imm)>>
           f == [p \in DOMAIN code |-> Adjusted(code[p])]
           B == Unresolved(GPR, Callees)
<1>1. /\ pass = "callframes" /\ pass' = "csr" /\ UNCHANGED <<frameVars, prog>>
  BY DEF EliminateCallFramePseudoInstrs
<1>2. code' = FlattenSeq(f)
  BY Zenon DEF EliminateCallFramePseudoInstrs
<1>3. /\ code \in Seq(B) /\ Closed(code)
      /\ DOMAIN code = 1 .. Len(code) /\ Len(code) \in Nat
      /\ \A p \in DOMAIN code : code[p] \in B
  BY <1>1 DEF ShapeInv
<1>4. B \subseteq Instruction /\ code \in Seq(Instruction)
  BY <1>3, UnresolvedInstruction
<1> HIDE DEF B
<1>5. ASSUME NEW i \in B PROVE Adjusted(i) \in Seq(B) /\ PartOf(i, Adjusted(i))
  <2>1. CASE i.op \notin {"ADJCALLSTACKDOWN", "ADJCALLSTACKUP"}
    BY <1>4, <2>1, PartSelf
  <2>2. CASE i.op \in {"ADJCALLSTACKDOWN", "ADJCALLSTACKUP"}
    <3>1. Adjusted(i) = <<>>
      BY <2>2 DEF hasReservedCallFrame, hasFPImpl
    <3>2. i.op # "LABEL" /\ ~EndsBlock(i)
      BY <2>2 DEF EndsBlock
    <3> HIDE DEF Adjusted
    <3>3. \A k \in 1 .. Len(<<>>) : ~IsJump(<<>>[k])
      OBVIOUS
    <3> QED BY <3>1, <3>2, <3>3, PartOther
  <2> QED BY <2>1, <2>2
<1> HIDE DEF Adjusted
<1>6. \A p \in 1 .. Len(code) : f[p] \in Seq(B) /\ PartOf(code[p], f[p])
  BY <1>3, <1>5
<1>7. f \in [1 .. Len(code) -> Seq(B)] /\ f \in [1 .. Len(code) -> Seq(Instruction)]
  BY <1>3, <1>4, <1>6
<1> HIDE DEF f
<1>8. code' \in Seq(B)
  BY <1>2, <1>3, <1>7, Flattened
<1>9. Closed(code')
  BY <1>2, <1>3, <1>4, <1>6, <1>7, PartsClosed
<1>10. Callees' = Callees
  BY <1>1 DEF Callees, frameVars
<1> QED BY <1>1, <1>8, <1>9, <1>10 DEF ShapeInv, SelectionInv, B

(* What is put before the returns does not jump.                           *)
LEMMA BeforeReturnsClosed ==
    ASSUME NEW fns, code \in Seq(Unresolved(GPR, fns)), Closed(code),
           NEW x \in Seq(Unresolved(GPR, fns)),
           \A j \in 1 .. Len(x) : ~IsJump(x[j])
    PROVE  /\ BeforeReturns(x) \in Seq(Unresolved(GPR, fns))
           /\ Closed(BeforeReturns(x))
<1> DEFINE B == Unresolved(GPR, fns)
           f == [p \in DOMAIN code |->
                  IF code[p].op = "PseudoRET" THEN Append(x, code[p])
                                              ELSE <<code[p]>>]
<1>1. /\ B \subseteq Instruction /\ code \in Seq(Instruction)
      /\ x \in Seq(Instruction)
  BY UnresolvedInstruction
<1> HIDE DEF B
<1>2. /\ DOMAIN code = 1 .. Len(code) /\ Len(code) \in Nat
      /\ \A p \in DOMAIN code : code[p] \in B /\ code[p] \in Instruction
      /\ x \in Seq(B)
  BY <1>1 DEF B
<1>3. ASSUME NEW p \in 1 .. Len(code)
      PROVE  f[p] \in Seq(B) /\ PartOf(code[p], f[p])
  <2>1. CASE code[p].op = "PseudoRET"
    <3>1. f[p] = Append(x, code[p])
      BY <1>2, <2>1
    <3>2. Append(x, code[p]) = x \o <<code[p]>> /\ Append(x, code[p]) \in Seq(B)
      BY <1>2
    <3>3. PartOf(code[p], x \o <<code[p]>>)
      BY <1>1, <1>2, PartLemma
    <3> HIDE DEF f
    <3> QED BY <3>1, <3>2, <3>3
  <2>2. CASE code[p].op # "PseudoRET"
    <3>1. f[p] = <<code[p]>>
      BY <1>2, <2>2
    <3>2. PartOf(code[p], <<code[p]>>)
      BY <1>2, PartSelf
    <3>3. <<code[p]>> \in Seq(B)
      BY <1>2
    <3> HIDE DEF f
    <3> QED BY <3>1, <3>2, <3>3
  <2> QED BY <2>1, <2>2
<1>4. BeforeReturns(x) = FlattenSeq(f)
  BY DEF BeforeReturns
<1>5. /\ f \in [1 .. Len(code) -> Seq(B)]
      /\ f \in [1 .. Len(code) -> Seq(Instruction)]
  <2>1. DOMAIN f = 1 .. Len(code)
    BY <1>2
  <2>2. Seq(B) \subseteq Seq(Instruction)
    BY <1>1
  <2>3. f = [p \in 1 .. Len(code) |-> f[p]]
    BY <1>2
  <2> HIDE DEF f
  <2> QED BY <1>3, <2>2, <2>3
<1> HIDE DEF f
<1>6. FlattenSeq(f) \in Seq(B)
  BY <1>2, <1>5, Flattened
<1>7. Closed(FlattenSeq(f))
  BY <1>1, <1>3, <1>5, PartsClosed
<1> QED BY <1>4, <1>6, <1>7 DEF B

(* The instructions that save and restore registers.                       *)
LEMMA SlotUnresolved ==
    ASSUME NEW fns, NEW reg \in GPR, NEW fi \in Nat \ {0}
    PROVE  /\ storeRegToStackSlot(reg, fi) \in Unresolved(GPR, fns)
           /\ loadRegFromStackSlot(reg, fi) \in Unresolved(GPR, fns)
           /\ ~IsJump(storeRegToStackSlot(reg, fi))
           /\ ~IsJump(loadRegFromStackSlot(reg, fi))
<1>1. NoReg \in Int /\ reg \in Int /\ fi \in Int
  BY DEF NoReg, GPR
<1>2. /\ WithFI(Instr("SW", NoReg, NoReg, reg, 0), fi) \in Unresolved(GPR, fns)
      /\ WithFI(Instr("LW", reg, NoReg, NoReg, 0), fi) \in Unresolved(GPR, fns)
  BY <1>1, UnresolvedFI
<1> QED BY <1>1, <1>2, SlotInstrLemma, JumpOpLemma DEF IsJump

(* The saves of callee-saved registers come before all other code, the     *)
(* restores before every return.                                           *)
LEMMA SpillCalleeSavedRegistersKept ==
    ASSUME FrameTypeOK, ShapeInv, SpillCalleeSavedRegisters
    PROVE  SelectionInv' /\ ShapeInv'
<1> DEFINE n == Len(CSI)
           saves == [k \in DOMAIN CSI |->
                       storeRegToStackSlot(CSI[k], Len(objs) + k)]
           restores == [k \in DOMAIN CSI |->
                          loadRegFromStackSlot(CSI[k], Len(objs) + k)]
           x == Reverse(restores)
           b == BeforeReturns(x)
           new == [i \in 1 .. n |-> [size |-> 4, align |-> 4]]
           B == Unresolved(GPR, Callees)
<1>1. /\ pass = "csr" /\ pass' = "layout" /\ code' = saves \o b
      /\ UNCHANGED <<prog, cur, adjustsStack>>
      /\ minCS' = Len(objs) + 1 /\ objs' = objs \o new
  BY Zenon DEF SpillCalleeSavedRegisters, AssignCalleeSavedSpillSlots
<1>2. /\ DOMAIN CSI = 1 .. n /\ n \in Nat /\ CSR_RV32I \subseteq GPR
      /\ \A k \in 1 .. n : CSI[k] \in CSR_RV32I /\ CSI[k] \in GPR
  <2>1. CSI \in Seq(CSR_RV32I)
    BY CSILemma
  <2>2. CSR_RV32I \subseteq GPR
    BY DEF CSR_RV32I, GPR, CSR_RV32I_SaveList
  <2> HIDE DEF n
  <2>3. DOMAIN CSI = 1 .. Len(CSI) /\ Len(CSI) \in Nat
        /\ \A k \in 1 .. Len(CSI) : CSI[k] \in CSR_RV32I
    BY <2>1
  <2> QED BY <2>2, <2>3 DEF n
<1>3. /\ code \in Seq(B) /\ Closed(code) /\ B \subseteq Instruction
  <2>1. code \in Seq(B) /\ Closed(code)
    BY <1>1 DEF ShapeInv
  <2> QED BY <2>1, UnresolvedInstruction
<1>4. Len(objs) \in Nat /\ objs \in Seq(Object)
  BY DEF FrameTypeOK
<1> HIDE DEF n
<1>5. ASSUME NEW k \in 1 .. n
      PROVE  /\ saves[k] \in B /\ ~IsJump(saves[k]) /\ saves[k].rs2 = CSI[k]
             /\ restores[k] \in B /\ ~IsJump(restores[k])
  <2>1. /\ saves[k] = storeRegToStackSlot(CSI[k], Len(objs) + k)
        /\ restores[k] = loadRegFromStackSlot(CSI[k], Len(objs) + k)
    BY <1>2
  <2>2. CSI[k] \in GPR /\ GPR \subseteq Int
    BY <1>2 DEF GPR
  <2>3. Len(objs) + k \in Nat \ {0} /\ Len(objs) + k \in Int
    BY <1>2, <1>4
  <2> HIDE DEF saves, restores
  <2>4. CSI[k] \in Int
    BY <2>2
  <2> QED BY <2>1, <2>2, <2>3, <2>4, SlotUnresolved, SlotInstrLemma
<1> HIDE DEF B
<1>6. /\ saves \in Seq(B) /\ Len(saves) = n
      /\ restores \in Seq(B) /\ Len(restores) = n
  <2>1. saves \in [1 .. n -> B] /\ restores \in [1 .. n -> B]
    <3>1. saves = [k \in 1 .. n |-> saves[k]] /\ restores = [k \in 1 .. n |-> restores[k]]
      BY <1>2
    <3> HIDE DEF saves, restores
    <3> QED BY <1>5, <3>1
  <2> HIDE DEF saves, restores
  <2> QED BY <1>2, <2>1
<1> HIDE DEF saves, restores
<1>7. x \in Seq(B) /\ Len(x) = n /\ \A j \in 1 .. Len(x) : ~IsJump(x[j])
  <2>1. /\ Len(x) = n /\ DOMAIN x = 1 .. n
        /\ \A j \in 1 .. n : x[j] = restores[(n - j) + 1]
    BY <1>2, <1>6 DEF Reverse
  <2>2. x = [j \in 1 .. n |-> x[j]]
    BY <1>2, <1>6 DEF Reverse
  <2> HIDE DEF x
  <2>3. \A j \in 1 .. n : (n - j) + 1 \in 1 .. n
    BY <1>2
  <2>4. \A j \in 1 .. n : x[j] \in B /\ ~IsJump(x[j])
    BY <1>5, <2>1, <2>3
  <2>5. x \in [1 .. n -> B]
    BY <2>2, <2>4
  <2> QED BY <1>2, <2>1, <2>4, <2>5
<1> HIDE DEF x
<1>8. b \in Seq(B) /\ Closed(b)
  BY <1>3, <1>7, BeforeReturnsClosed DEF B
<1> HIDE DEF b
<1>9. /\ code' \in Seq(B)
      /\ \A k \in 1 .. n : code'[k] = saves[k]
  BY <1>1, <1>6, <1>8, Concatenation
<1>10. Closed(code')
  <2>1. b \in Seq(Instruction) /\ saves \in Seq(Instruction)
    BY <1>3, <1>6, <1>8
  <2> QED BY <1>1, <1>5, <1>6, <1>8, <2>1, FrontClosed
<1>11. NumSaves' = n
  <2>1. new \in Seq(Object) /\ Len(new) = n
    <3>1. [size |-> 4, align |-> 4] \in Object
      BY DEF Object, Aligns
    <3> QED BY <1>2, <3>1
  <2> HIDE DEF new
  <2>2. Len(objs \o new) = Len(objs) + n
    BY <1>4, <2>1, Concatenation
  <2>3. Len(objs') = Len(objs) + n
    BY <1>1, <2>2
  <2> QED BY <1>1, <1>2, <1>4, <2>3 DEF NumSaves
<1>12. SavesCSR(code, 0)'
  <2>1. \A k \in 1 .. n : 0 + k = k /\ code'[k].rs2 \in CSR_RV32I
    BY <1>2, <1>5, <1>9
  <2>2. \A k \in 1 .. NumSaves' : code'[0 + k].rs2 \in CSR_RV32I
    BY <1>11, <2>1
  <2> QED BY <2>2 DEF SavesCSR
<1>13. Callees' = Callees
  BY <1>1 DEF Callees
<1> QED BY <1>1, <1>9, <1>10, <1>12, <1>13 DEF ShapeInv, SelectionInv, B

(* Placing the frame objects leaves the code as it is.                     *)
LEMMA CalculateFrameObjectOffsetsKept ==
    ASSUME ShapeInv, CalculateFrameObjectOffsets
    PROVE  SelectionInv' /\ ShapeInv'
<1>1. /\ pass = "layout" /\ UNCHANGED <<prog, cur, code>>
      /\ UNCHANGED <<objs, minCS, varSized, fixed, adjustsStack>>
      /\ pass' \in {"layout", "prologue"}
  BY Zenon DEF CalculateFrameObjectOffsets, PlaceObject, SetStackSize
<1>2. NumSaves' = NumSaves /\ Callees' = Callees
  BY <1>1 DEF NumSaves, Callees
<1>3. SavesCSR(code, 0)'
  BY <1>1, <1>2 DEF ShapeInv, SavesCSR
<1> QED BY <1>1, <1>2, <1>3 DEF ShapeInv, SelectionInv

(* The adjustment of SP goes in front of the saves.                        *)
LEMMA emitPrologueKept ==
    ASSUME CodegenInv, FrameTypeOK, ShapeInv, emitPrologue
    PROVE  SelectionInv' /\ ShapeInv'
<1> DEFINE B == Unresolved(GPR, Callees)
           a == ADDI(X2, X2, PrologueImm)
           n == NumSaves
<1>1. /\ pass = "prologue" /\ pass' = "epilogue" /\ UNCHANGED frameVars
      /\ UNCHANGED <<prog, cur>>
      /\ code' = IF stackSize = 0 /\ ~adjustsStack THEN code ELSE <<a>> \o code
  BY DEF emitPrologue
<1>2. /\ code \in Seq(B) /\ Closed(code) /\ SavesCSR(code, 0)
      /\ B \subseteq Instruction
  <2>1. code \in Seq(B) /\ Closed(code) /\ SavesCSR(code, 0)
    BY <1>1 DEF ShapeInv
  <2> QED BY <2>1, UnresolvedInstruction
<1>3. n \in Nat /\ n <= Len(code)
  <2>1. Framed(code, FALSE, 0, 0) /\ n \in Nat
    BY <1>1 DEF CodegenInv, FramedInv
  <2>2. 0 + n <= Len(code)
    BY <2>1 DEF Framed, SavesAtEntry
  <2> QED BY <2>1, <2>2
<1>4. a \in B /\ ~IsJump(a)
  <2>1. PrologueImm \in Int
    BY DEF PrologueImm, FrameTypeOK
  <2>2. X2 \in Int /\ NoReg \in Int /\ X2 \in GPR
    BY DEF X2, NoReg, GPR
  <2>3. Instr("ADDI", X2, X2, NoReg, PrologueImm) \in B
    BY <2>1, <2>2, OpcodeLemma, UnresolvedInstr
  <2>4. a.op = "ADDI" /\ a \in B
    BY <2>3 DEF ADDI, Instr
  <2> QED BY <2>4, JumpOpLemma DEF IsJump
<1>5. /\ NumSaves' = n /\ PrologueLen' = PrologueLen /\ Callees' = Callees
  BY <1>1, FrameKept DEF Callees, frameVars
<1> HIDE DEF B, a, n
<1>6. code' \in Seq(B) /\ Closed(code')
      /\ \A k \in 1 .. n : code'[PrologueLen + k].rs2 \in CSR_RV32I
  <2>1. \A k \in 1 .. n : 0 + k = k /\ code[k].rs2 \in CSR_RV32I
                          /\ k \in 1 .. Len(code)
    BY <1>2, <1>3 DEF SavesCSR, n
  <2>2. CASE stackSize = 0 /\ ~adjustsStack
    BY <1>1, <1>2, <2>1, <2>2 DEF PrologueLen
  <2>3. CASE ~(stackSize = 0 /\ ~adjustsStack)
    <3> DEFINE s == <<a>>
    <3>1. /\ s \in Seq(B) /\ s \in Seq(Instruction) /\ Len(s) = 1 /\ s[1] = a
      BY <1>2, <1>4
    <3> HIDE DEF s
    <3>2. code' = s \o code /\ PrologueLen = 1
      BY <1>1, <2>3 DEF PrologueLen, s
    <3>3. code' \in Seq(B) /\ \A k \in 1 .. Len(code) : code'[1 + k] = code[k]
      <4> DEFINE z == s \o code
      <4>0. code \in Seq(B) /\ s \in Seq(B)
        BY <1>2, <3>1
      <4> HIDE DEF B
      <4>1. z \in Seq(B) /\ \A k \in 1 .. Len(code) : z[Len(s) + k] = code[k]
        BY <4>0, Concatenation
      <4> HIDE DEF z
      <4> QED BY <3>1, <3>2, <4>1 DEF z
    <3>4. code \in Seq(Instruction) /\ \A p \in 1 .. Len(s) : ~IsJump(s[p])
      BY <1>2, <1>4, <3>1
    <3>5. Closed(code')
      BY <1>2, <3>1, <3>2, <3>4, FrontClosed
    <3> QED BY <2>1, <3>2, <3>3, <3>5
  <2> QED BY <2>2, <2>3
<1>7. SavesCSR(code, PrologueLen)'
  BY <1>5, <1>6 DEF SavesCSR
<1> QED BY <1>1, <1>5, <1>6, <1>7 DEF ShapeInv, SelectionInv, B

(* The saves stay where they are when the epilogues are added.             *)
LEMMA emitEpilogueKept ==
    ASSUME CodegenInv, FrameTypeOK, ShapeInv, emitEpilogue
    PROVE  SelectionInv' /\ ShapeInv'
<1> DEFINE B == Unresolved(GPR, Callees)
           a == ADDI(X2, X2, EpilogueImm)
           s == <<a>>
           n == NumSaves
           f == [p \in DOMAIN code |->
                  IF code[p].op = "PseudoRET" THEN Append(s, code[p])
                                              ELSE <<code[p]>>]
<1>1. /\ pass = "epilogue" /\ pass' = "frameindex" /\ UNCHANGED frameVars
      /\ UNCHANGED <<prog, cur>>
      /\ code' = IF stackSize = 0 THEN code ELSE BeforeReturns(s)
  BY DEF emitEpilogue
<1>2. /\ code \in Seq(B) /\ Closed(code) /\ SavesCSR(code, PrologueLen)
      /\ B \subseteq Instruction
  <2>1. code \in Seq(B) /\ Closed(code) /\ SavesCSR(code, PrologueLen)
    BY <1>1 DEF ShapeInv
  <2> QED BY <2>1, UnresolvedInstruction
<1>3. a \in B /\ ~IsJump(a)
  <2>1. EpilogueImm \in Int
    BY DEF EpilogueImm, FrameTypeOK
  <2>2. X2 \in Int /\ NoReg \in Int /\ X2 \in GPR
    BY DEF X2, NoReg, GPR
  <2>3. Instr("ADDI", X2, X2, NoReg, EpilogueImm) \in B
    BY <2>1, <2>2, OpcodeLemma, UnresolvedInstr
  <2>4. a.op = "ADDI" /\ a \in B
    BY <2>3 DEF ADDI, Instr
  <2> QED BY <2>4, JumpOpLemma DEF IsJump
<1>4. n \in Nat /\ PrologueLen \in {0, 1}
      /\ \A p \in 1 .. PrologueLen + n :
           p \in DOMAIN code /\ code[p].op \in {"ADDI", "SW"}
  <2>1. Framed(code, FALSE, PrologueLen, 0) /\ n \in Nat
    BY <1>1 DEF CodegenInv, FramedInv
  <2>2. PrologueLen \in {0, 1}
    BY DEF PrologueLen
  <2> QED BY <2>1, <2>2, AroundLemma
<1>5. /\ NumSaves' = n /\ PrologueLen' = PrologueLen /\ Callees' = Callees
  BY <1>1, FrameKept DEF Callees, frameVars
<1>6. s \in Seq(B) /\ s \in Seq(Instruction) /\ Len(s) = 1 /\ s[1] = a
  BY <1>2, <1>3
<1> HIDE DEF a, n, s
<1>7. \A k \in 1 .. n : code[PrologueLen + k].rs2 \in CSR_RV32I
  BY <1>2 DEF SavesCSR, n
<1>8. code' \in Seq(B) /\ Closed(code')
      /\ \A k \in 1 .. n : code'[PrologueLen + k].rs2 \in CSR_RV32I
  <2>1. CASE stackSize = 0
    BY <1>1, <1>2, <1>7, <2>1
  <2>2. CASE stackSize # 0
    <3>1. code' = BeforeReturns(s)
      BY <1>1, <2>2
    <3>2. \A j \in 1 .. Len(s) : ~IsJump(s[j])
      BY <1>3, <1>6
    <3>3. code' \in Seq(B) /\ Closed(code')
      BY <1>2, <1>6, <3>1, <3>2, BeforeReturnsClosed
    <3>4. /\ DOMAIN code = 1 .. Len(code) /\ Len(code) \in Nat
          /\ \A p \in DOMAIN code : code[p] \in B
      BY <1>2
    <3> HIDE DEF B
    <3>5. code' = FlattenSeq(f)
      BY <3>1 DEF BeforeReturns
    <3>6. f \in [1 .. Len(code) -> Seq(B)]
      <4>1. ASSUME NEW p \in 1 .. Len(code) PROVE f[p] \in Seq(B)
        <5>1. Append(s, code[p]) \in Seq(B) /\ <<code[p]>> \in Seq(B)
          BY <1>6, <3>4
        <5>2. f[p] = Append(s, code[p]) \/ f[p] = <<code[p]>>
          BY <3>4
        <5> HIDE DEF f
        <5> QED BY <5>1, <5>2
      <4>2. f = [p \in 1 .. Len(code) |-> f[p]]
        BY <3>4
      <4> HIDE DEF f
      <4> QED BY <4>1, <4>2
    <3> DEFINE m == PrologueLen + n
    <3>7. \A p \in 1 .. m : f[p] = <<code[p]>>
      BY <1>4
    <3>8. m \in 0 .. Len(code)
      <4>1. m \in Nat /\ (m # 0 => m \in 1 .. m)
        BY <1>4
      <4> HIDE DEF m
      <4>2. m # 0 => m \in DOMAIN code
        BY <1>4, <4>1 DEF m
      <4> QED BY <3>4, <4>1, <4>2
    <3> HIDE DEF f, m
    <3>9. \A p \in 1 .. m : Len(f[p]) = 1 /\ f[p][1] = code[p]
      BY <3>7
    <3>10. \A p \in 1 .. m : code'[p] = f[p][1]
      <4> DEFINE N == Len(code)

      <4>1. /\ N \in Nat /\ m \in 0 .. N /\ f \in [1 .. N -> Seq(B)]
            /\ \A p \in 1 .. m : Len(f[p]) = 1
        BY <3>4, <3>6, <3>8, <3>9
      <4> HIDE DEF N
      <4>2. Leading(f, N, m, FlattenSeq(f))
        BY <4>1, PartsPrefix
      <4> QED BY <3>5, <4>2 DEF Leading
    <3>11. \A k \in 1 .. n : PrologueLen + k \in 1 .. m
      BY <1>4 DEF m
    <3> QED BY <1>7, <3>3, <3>9, <3>10, <3>11
  <2> QED BY <2>1, <2>2
<1>9. SavesCSR(code, PrologueLen)'
  BY <1>5, <1>8 DEF SavesCSR
<1> QED BY <1>1, <1>5, <1>8, <1>9 DEF ShapeInv, SelectionInv, B

(* A store to an object keeps its object when the code is rearranged, the  *)
(* frame staying what it is.                                               *)
LEMMA StoresKept ==
    ASSUME UNCHANGED frameVars, NEW c, NEW pre, StoresToObjects(c, pre)
    PROVE  StoresToObjects(c, pre)'
BY DEF frameVars, StoresToObjects, Resolved, eliminateFrameIndex, ObjectOffset,
       NumSaves

(* An object's address is SP plus what its index is resolved to.           *)
LEMMA ReplaceFrameIndicesKept ==
    ASSUME CodegenInv, FrameInv, ShapeInv, ReplaceFrameIndices
    PROVE  SelectionInv' /\ ShapeInv'
<1> DEFINE B == Unresolved(GPR, Callees)
           C == Operands(GPR, Callees)
           n == NumSaves
           pre == PrologueLen
           c == [p \in DOMAIN code |->
                   IF code[p].fi = 0 THEN code[p]
                   ELSE [code[p] EXCEPT
                           !.rs1 = X2, !.fi = 0,
                           !.imm = eliminateFrameIndex(code[p].fi, @)]]
<1>1. /\ pass = "frameindex" /\ pass' = "copies" /\ UNCHANGED frameVars
      /\ UNCHANGED <<prog, cur>> /\ code' = c
  BY DEF ReplaceFrameIndices, BaseReg, hasFPImpl
<1>2. /\ code \in Seq(B) /\ Closed(code) /\ SavesCSR(code, PrologueLen)
      /\ B \subseteq Instruction /\ code \in Seq(Instruction)
      /\ B \subseteq C
  <2>1. code \in Seq(B) /\ Closed(code) /\ SavesCSR(code, PrologueLen)
    BY <1>1 DEF ShapeInv
  <2>2. B \subseteq C
    BY DEF Unresolved
  <2> QED BY <2>1, <2>2, UnresolvedInstruction
<1>3. /\ DOMAIN code = 1 .. Len(code) /\ Len(code) \in Nat
      /\ \A p \in DOMAIN code : code[p] \in B /\ code[p] \in Instruction
  BY <1>2
<1>4. /\ IndicesOwned(code, FALSE, pre) /\ n \in Nat /\ stage = "sized"
      /\ \A p \in 1 .. pre + n : p \in DOMAIN code
  <2>1. Framed(code, FALSE, pre, EpilogueLen) /\ n \in Nat /\ stage = "sized"
    BY <1>1 DEF CodegenInv, FramedInv
  <2>2. pre \in {0, 1} /\ EpilogueLen \in {0, 1}
    BY DEF PrologueLen, EpilogueLen
  <2>3. \A p \in 1 .. pre + n : p \in DOMAIN code
    BY <2>1, <2>2, AroundLemma, ZenonT(60)
  <2> QED BY <2>1, <2>3 DEF Framed
<1>5. pre \in {0, 1}
  BY DEF PrologueLen
<1> HIDE DEF n, pre
<1>6. ASSUME NEW p \in DOMAIN code, code[p].fi # 0
      PROVE  /\ c[p] \in C /\ c[p].op = code[p].op /\ c[p].sym = code[p].sym
             /\ c[p].rs2 = code[p].rs2 /\ c[p].imm = Resolved(code[p].fi)
             /\ code[p].fi \in FrameIndices
  <2> DEFINE i == code[p]
             e == Resolved(i.fi)
             r == X2
  <2>1. i \in B /\ i \in Instruction /\ i.imm = 0 /\ i.fi # 0
        /\ i.fi \in FrameIndices
    BY <1>3, <1>4, <1>6 DEF Unresolved, IndicesOwned
  <2>2. e \in Int
    BY <1>4, <2>1, ResolvableLemma DEF Resolved
  <2>3. c[p] = [i EXCEPT !.rs1 = r, !.fi = 0, !.imm = e]
    BY <1>6, <2>1, Zenon DEF Resolved
  <2>4. r \in Int /\ r \in GPR
    BY DEF X2, GPR
  <2> HIDE DEF e, i, r, c
  <2> DEFINE j == [i EXCEPT !.rs1 = r, !.fi = 0, !.imm = e]
  <2>5. /\ j.op = i.op /\ j.rd = i.rd /\ j.rs1 = r /\ j.rs2 = i.rs2
        /\ j.imm = e /\ j.sym = i.sym /\ j.fi = 0
        /\ j.implicit = i.implicit /\ j \in Instruction
    BY <2>1, <2>2, <2>4 DEF Instruction
  <2> HIDE DEF j
  <2>6. j \in C
    BY <2>1, <2>4, <2>5 DEF Unresolved, Operands
  <2> QED BY <2>1, <2>3, <2>5, <2>6 DEF i, j, e
<1>7. ASSUME NEW p \in DOMAIN code
      PROVE  /\ c[p] \in C /\ c[p].op = code[p].op /\ c[p].sym = code[p].sym
             /\ c[p].rs2 = code[p].rs2
  <2>1. CASE code[p].fi = 0
    <3>1. c[p] = code[p]
      BY <2>1
    <3> HIDE DEF c, B, C
    <3> QED BY <1>2, <1>3, <3>1
  <2> QED BY <1>6, <2>1
<1>8. ASSUME NEW p \in DOMAIN code, c[p].op = "SW", c[p].rs1 = X2
      PROVE  \E fi \in DOMAIN objs :
               c[p].imm = Resolved(fi) /\ (fi >= minCS => p \in pre + 1 .. pre + n)
  <2>1. code[p].op = "SW" /\ code[p] \in B
    BY <1>3, <1>7, <1>8
  <2>2. code[p].fi # 0
    <3>1. SUFFICES ASSUME code[p].fi = 0 PROVE FALSE
      OBVIOUS
    <3>2. c[p] = code[p]
      BY <3>1
    <3> QED BY <1>8, <2>1, <3>1, <3>2 DEF Unresolved
  <2> DEFINE fi == code[p].fi
  <2>3. /\ fi > 0 /\ fi \in FrameIndices /\ c[p].imm = Resolved(fi)
        /\ fi >= minCS => p \in pre + 1 .. pre + n
    BY <1>4, <1>6, <2>1, <2>2 DEF Unresolved, IndicesOwned, n
  <2> HIDE DEF fi
  <2>4. fi \in DOMAIN objs
    BY <2>3 DEF FrameIndices, FrameInv, FrameTypeOK
  <2> QED BY <2>3, <2>4
<1>9. /\ code' \in Seq(C) /\ code' \in Seq(Instruction)
      /\ Len(code') = Len(code) /\ DOMAIN code' = DOMAIN code
  <2>1. C \subseteq Instruction
    BY DEF Operands
  <2> HIDE DEF C, B
  <2>2. c = [p \in 1 .. Len(code) |-> c[p]]
    BY <1>3
  <2>3. DOMAIN c = 1 .. Len(code)
    BY <1>3
  <2> HIDE DEF c
  <2>4. c \in [1 .. Len(code) -> C]
    BY <1>3, <1>7, <2>2
  <2>5. c \in Seq(C) /\ Len(c) = Len(code)
    BY <1>3, <2>4
  <2> QED BY <1>1, <1>3, <2>1, <2>3, <2>5
<1>10. Closed(code')
  <2>1. \A p \in 1 .. Len(code) :
          code'[p].op = code[p].op /\ code'[p].sym = code[p].sym
    BY <1>1, <1>3, <1>7
  <2> QED BY <1>2, <1>9, <2>1, PointwiseClosed
<1>11. StoresToObjects(code', pre)
  BY <1>1, <1>8 DEF StoresToObjects, n
<1> HIDE DEF c
<1>12. \A k \in 1 .. n : code'[pre + k].rs2 \in CSR_RV32I
  <2>1. \A k \in 1 .. n : pre + k \in DOMAIN code
    BY <1>4, <1>5
  <2>2. \A k \in 1 .. n : code[pre + k].rs2 \in CSR_RV32I
    BY <1>2 DEF SavesCSR, n, pre
  <2> QED BY <1>1, <1>7, <2>1, <2>2
<1>13. /\ NumSaves' = n /\ PrologueLen' = pre /\ Callees' = Callees
  BY <1>1, FrameKept DEF Callees, frameVars, n, pre
<1>14. StoresToObjects(code, PrologueLen)'
  <2>1. PICK d : d = code'
    OBVIOUS
  <2>2. StoresToObjects(d, pre)
    BY <1>11, <2>1
  <2>3. PICK q : q = pre
    OBVIOUS
  <2>4. StoresToObjects(d, q)'
    BY <1>1, <2>2, <2>3, StoresKept
  <2> QED BY <1>13, <2>1, <2>3, <2>4
<1>15. SavesCSR(code, PrologueLen)'
  BY <1>12, <1>13 DEF SavesCSR
<1> QED BY <1>1, <1>9, <1>10, <1>13, <1>14, <1>15 DEF ShapeInv, SelectionInv

(* Copies vanish or become additions; the prologue and the saves are none. *)
LEMMA ExpandCopiesKept ==
    ASSUME CodegenInv, ShapeInv, ExpandCopies
    PROVE  SelectionInv' /\ ShapeInv'
<1> DEFINE C == Operands(GPR, Callees)
           n == NumSaves
           pre == PrologueLen
           m == Len(code)
           copyPhysReg(i) == IF i.op # "COPY" THEN <<i>>
                             ELSE IF i.rd = i.rs1 THEN <<>>
                             ELSE <<ADDI(i.rd, i.rs1, 0)>>
           f == [p \in DOMAIN code |-> copyPhysReg(code[p])]
           Copied(p) == ADDI(code[p].rd, code[p].rs1, 0)
<1>1. /\ pass = "copies" /\ pass' = "emit" /\ UNCHANGED frameVars
      /\ UNCHANGED <<prog, cur>>
  BY DEF ExpandCopies
<1>2. code' = FlattenSeq(f)
  BY Zenon DEF ExpandCopies
<1>3. /\ code \in Seq(C) /\ Closed(code) /\ SavesCSR(code, pre)
      /\ StoresToObjects(code, pre)
      /\ C \subseteq Instruction /\ code \in Seq(Instruction)
  <2>1. /\ code \in Seq(C) /\ Closed(code) /\ SavesCSR(code, pre)
        /\ StoresToObjects(code, pre)
    BY <1>1 DEF ShapeInv
  <2>2. C \subseteq Instruction
    BY DEF Operands
  <2> HIDE DEF C
  <2> QED BY <2>1, <2>2
<1>4. /\ DOMAIN code = 1 .. m /\ m \in Nat
      /\ \A p \in 1 .. m : code[p] \in C /\ code[p] \in Instruction
  BY <1>3
<1>5. /\ n \in Nat /\ pre \in {0, 1}
      /\ \A p \in DOMAIN code : code[p].fi = 0
      /\ \A p \in 1 .. pre + n : p \in DOMAIN code
                                 /\ code[p].op \in {"ADDI", "SW"}
  <2>1. Framed(code, TRUE, pre, EpilogueLen) /\ n \in Nat
    BY <1>1 DEF CodegenInv, FramedInv
  <2>2. pre \in {0, 1} /\ EpilogueLen \in {0, 1}
    BY DEF PrologueLen, EpilogueLen
  <2>3. \A p \in DOMAIN code : code[p].fi = 0
    BY <2>1 DEF Framed, IndicesOwned
  <2> QED BY <2>1, <2>2, <2>3, AroundLemma
<1> HIDE DEF n, pre, m
<1>6. ASSUME NEW p \in 1 .. m
      PROVE  /\ code[p].op # "COPY" => f[p] = <<code[p]>>
             /\ code[p].op = "COPY" => f[p] = <<>> \/ f[p] = <<Copied(p)>>
  BY <1>4
<1>7. ASSUME NEW p \in 1 .. m, code[p].op = "COPY"
      PROVE  Copied(p) \in C /\ Copied(p).op = "ADDI" /\ ~IsJump(Copied(p))
  <2>1. code[p].rd \in Int /\ code[p].rs1 \in Int /\ NoReg \in Int
    BY <1>4 DEF Instruction, NoReg
  <2>2. code[p].rs1 \in GPR
    BY <1>4, <1>5, <1>7 DEF Operands
  <2>3. Copied(p) = Instr("ADDI", code[p].rd, code[p].rs1, NoReg, 0)
    BY DEF ADDI
  <2> DEFINE i == Instr("ADDI", code[p].rd, code[p].rs1, NoReg, 0)
  <2>4. i \in Instruction /\ i.op = "ADDI" /\ i.rs1 = code[p].rs1
    BY <2>1, OpcodeLemma, InstrLemma DEF Instr
  <2> HIDE DEF i
  <2>5. i \in C
    BY <2>2, <2>4 DEF Operands
  <2>6. ~IsJump(i)
    BY <2>4, JumpOpLemma DEF IsJump
  <2> QED BY <2>3, <2>4, <2>5, <2>6 DEF i
<1> HIDE DEF Copied, f, C
<1>8. ASSUME NEW p \in 1 .. m
      PROVE  /\ f[p] \in Seq(C) /\ PartOf(code[p], f[p])
             /\ \A j \in 1 .. Len(f[p]) : f[p][j].op = "SW" => f[p][j] = code[p]
  <2>1. CASE code[p].op # "COPY"
    <3>1. PartOf(code[p], <<code[p]>>)
      BY <1>4, PartSelf
    <3>2. <<code[p]>> \in Seq(C) /\ Len(<<code[p]>>) = 1
          /\ <<code[p]>>[1] = code[p]
      BY <1>4
    <3>3. f[p] = <<code[p]>>
      BY <1>6, <2>1
    <3> QED BY <3>1, <3>2, <3>3
  <2>2. CASE code[p].op = "COPY"
    <3>1. /\ <<>> \in Seq(C) /\ Len(<<>>) = 0
          /\ \A k \in 1 .. Len(<<>>) : ~IsJump(<<>>[k])
      OBVIOUS
    <3>2. /\ <<Copied(p)>> \in Seq(C) /\ Len(<<Copied(p)>>) = 1
          /\ <<Copied(p)>>[1] = Copied(p)
          /\ \A k \in 1 .. Len(<<Copied(p)>>) : ~IsJump(<<Copied(p)>>[k])
      BY <1>7, <2>2
    <3>3. code[p].op # "LABEL" /\ ~EndsBlock(code[p])
      BY <2>2 DEF EndsBlock
    <3>4. CASE f[p] = <<>>
      <4>1. PartOf(code[p], <<>>)
        BY <3>1, <3>3, PartOther
      <4> QED BY <3>1, <3>4, <4>1
    <3>5. CASE f[p] = <<Copied(p)>>
      <4>1. PartOf(code[p], <<Copied(p)>>)
        BY <3>2, <3>3, PartOther
      <4> QED BY <1>7, <2>2, <3>2, <3>5, <4>1
    <3> QED BY <1>6, <2>2, <3>4, <3>5
  <2> QED BY <2>1, <2>2
<1>9. f \in [1 .. m -> Seq(C)] /\ f \in [1 .. m -> Seq(Instruction)]
  <2>1. f = [p \in 1 .. m |-> f[p]]
    BY <1>4 DEF f
  <2>2. Seq(C) \subseteq Seq(Instruction)
    BY <1>3
  <2> QED BY <1>8, <2>1, <2>2
<1>10. code' \in Seq(C)
  BY <1>2, <1>4, <1>9, Flattened
<1>11. Closed(code')
  BY <1>2, <1>3, <1>8, <1>9, PartsClosed DEF m
<1> DEFINE k == pre + n
<1>12. k \in 0 .. m /\ \A p \in 1 .. k : f[p] = <<code[p]>>
  <2>1. k \in Nat /\ (k # 0 => k \in 1 .. k)
    BY <1>5
  <2>2. \A p \in 1 .. k : p \in 1 .. m /\ code[p].op # "COPY"
    BY <1>4, <1>5
  <2> HIDE DEF k
  <2> QED BY <1>4, <1>6, <2>1, <2>2
<1> HIDE DEF k
<1>13. Leading(f, m, k, code')
  <2>1. \A p \in 1 .. k : Len(f[p]) = 1
    BY <1>12
  <2>2. Leading(f, m, k, FlattenSeq(f))
    BY <1>4, <1>9, <1>12, <2>1, PartsPrefix
  <2> QED BY <1>2, <2>2
<1>14. \A p \in 1 .. k : code'[p] = code[p]
  <2>1. \A p \in 1 .. k : code'[p] = f[p][1]
    BY <1>13 DEF Leading
  <2>2. \A p \in 1 .. k : f[p][1] = code[p]
    BY <1>12
  <2> QED BY <2>1, <2>2
<1>15. \A j \in 1 .. n : code'[pre + j].rs2 \in CSR_RV32I
  <2>1. \A j \in 1 .. n : pre + j \in 1 .. k
    BY <1>5 DEF k
  <2>2. \A j \in 1 .. n : code[pre + j].rs2 \in CSR_RV32I
    BY <1>3 DEF SavesCSR, n, pre
  <2> QED BY <1>14, <2>1, <2>2
<1>16. StoresToObjects(code', pre)
  <2> SUFFICES ASSUME NEW q \in DOMAIN code', code'[q].op = "SW", code'[q].rs1 = X2
               PROVE  \E fi \in DOMAIN objs :
                        /\ code'[q].imm = Resolved(fi)
                        /\ fi >= minCS => q \in pre + 1 .. pre + n
    BY DEF StoresToObjects, n
  <2>1. PICK p \in 1 .. m : \E j \in 1 .. Len(f[p]) :
               code'[q] = f[p][j] /\ (p \in 1 .. k => q = p)
    BY <1>13 DEF Leading
  <2>2. code'[q] = code[p] /\ (p \in 1 .. k => q = p)
    BY <1>8, <2>1
  <2>3. PICK fi \in DOMAIN objs : /\ code[p].imm = Resolved(fi)
                                  /\ fi >= minCS => p \in pre + 1 .. pre + n
    BY <1>3, <1>4, <2>2 DEF StoresToObjects, n
  <2>4. p \in pre + 1 .. pre + n => p \in 1 .. k
    BY <1>5 DEF k
  <2> QED BY <2>2, <2>3, <2>4
<1>17. /\ NumSaves' = n /\ PrologueLen' = pre /\ Callees' = Callees
  BY <1>1, FrameKept DEF Callees, frameVars, n, pre
<1>18. StoresToObjects(code, PrologueLen)'
  <2>1. PICK d, q : d = code' /\ q = pre
    OBVIOUS
  <2>2. StoresToObjects(d, q)'
    BY <1>1, <1>16, <2>1, StoresKept
  <2> QED BY <1>17, <2>1, <2>2
<1>19. SavesCSR(code, PrologueLen)'
  BY <1>15, <1>17 DEF SavesCSR
<1> QED BY <1>1, <1>10, <1>11, <1>17, <1>18, <1>19 DEF ShapeInv, SelectionInv, C
-----------------------------------------------------------------------------
(* Emission.                                                               *)

(* b is the assembled code c: pos[p] is the place of instruction p, and a  *)
(* jump leads behind the place of a label.                                 *)
Emitted(c, b, pos) ==
    /\ pos \in [0 .. Len(c) -> Nat] /\ pos[0] = 0
    /\ b \in Seq(MCInst) /\ DOMAIN b = 1 .. pos[Len(c)]
    /\ \A p \in DOMAIN c : c[p].op # "LABEL" =>
         /\ pos[p] = pos[p - 1] + 1 /\ pos[p] \in DOMAIN b
         /\ b[pos[p]].op = c[p].op /\ b[pos[p]].rd = c[p].rd
         /\ b[pos[p]].rs1 = c[p].rs1 /\ b[pos[p]].rs2 = c[p].rs2
         /\ b[pos[p]].imm = c[p].imm
         /\ ~IsJump(c[p]) => b[pos[p]].sym = c[p].sym
         /\ IsJump(c[p]) => \E t \in DOMAIN c :
              c[t].op = "LABEL" /\ b[pos[p]].sym = pos[t] + 1
    /\ \A q \in DOMAIN b : \E p \in DOMAIN c : c[p].op # "LABEL" /\ q = pos[p]
    /\ \A x, y \in 0 .. Len(c) : x <= y => pos[x] <= pos[y]
    /\ \A x, y \in 0 .. Len(c) :
         x <= y /\ (\A p \in x + 1 .. y : c[p].op # "LABEL") =>
           \A q \in x .. y : pos[q] = pos[x] + (q - x)

(* The assembler keeps the instructions in order, without the labels.      *)
LEMMA AssembledLemma ==
    ASSUME NEW c \in Seq(Instruction), Closed(c)
    PROVE  \E pos : Emitted(c, Assembled([p \in DOMAIN c |-> LowerToMCInst(c[p])]),
                            pos)
<1> DEFINE n == Len(c)
           insts == [p \in DOMAIN c |-> LowerToMCInst(c[p])]
           Real(i) == IF i.op = "LABEL" THEN <<>> ELSE <<i>>
           At(blk) == CHOOSE k \in DOMAIN insts :
                        insts[k].op = "LABEL" /\ insts[k].sym = blk
           Before_(k) == [j \in 1 .. k |-> Real(insts[j])]
           Position(blk) == Len(FlattenSeq(Before_(At(blk)))) + 1
           WithTarget(i) == IF IsJump(i) THEN [i EXCEPT !.sym = Position(@)] ELSE i
           f == [k \in DOMAIN insts |-> Real(WithTarget(insts[k]))]
           b == FlattenSeq(f)
           keep == {p \in 1 .. n : c[p].op # "LABEL"}
<1>1. Assembled(insts) = b
  BY Zenon DEF Assembled
<1>2. /\ DOMAIN c = 1 .. n /\ n \in Nat /\ n # 0
      /\ \A p \in 1 .. n : c[p] \in Instruction
  BY DEF Closed
<1>3. DOMAIN insts = 1 .. n
  BY <1>2
<1> HIDE DEF n
<1>4. ASSUME NEW p \in 1 .. n
      PROVE  /\ insts[p] \in MCInst /\ insts[p].op = c[p].op
             /\ insts[p].rd = c[p].rd /\ insts[p].rs1 = c[p].rs1
             /\ insts[p].rs2 = c[p].rs2 /\ insts[p].imm = c[p].imm
             /\ insts[p].sym = c[p].sym
  <2>1. insts[p] = LowerToMCInst(c[p]) /\ c[p] \in Instruction
    BY <1>2
  <2> HIDE DEF insts
  <2> QED BY <2>1 DEF LowerToMCInst, MCInst, Instruction
<1> HIDE DEF insts
<1>5. ASSUME NEW p \in 1 .. n
      PROVE  insts[p].op = "LABEL" <=> c[p].op = "LABEL"
  BY <1>4
<1>6. ASSUME NEW p \in 1 .. n, ~IsJump(c[p]) PROVE WithTarget(insts[p]) = insts[p]
  <2>1. ~IsJump(insts[p])
    BY <1>4, <1>6 DEF IsJump
  <2> QED BY <2>1
<1>7. ASSUME NEW p \in 1 .. n, IsJump(c[p])
      PROVE  WithTarget(insts[p]) =
               [insts[p] EXCEPT !.sym = Position(insts[p].sym)]
  <2>1. IsJump(insts[p])
    BY <1>4, <1>7 DEF IsJump
  <2> HIDE DEF Position
  <2> QED BY <2>1
<1>8. ASSUME NEW blk \in LabelsOf(c)
      PROVE  At(blk) \in 1 .. n /\ c[At(blk)].op = "LABEL"
  <2>1. \E k \in DOMAIN insts : insts[k].op = "LABEL" /\ insts[k].sym = blk
    BY <1>2, <1>3, <1>4, <1>8 DEF LabelsOf
  <2>2. At(blk) \in DOMAIN insts /\ insts[At(blk)].op = "LABEL"
    BY <2>1
  <2> QED BY <1>3, <1>5, <2>2
<1> HIDE DEF At
<1>9. ASSUME NEW k \in 1 .. n
      PROVE  /\ Before_(k) \in [1 .. k -> Seq(MCInst)]
             /\ \A j \in 1 .. k :
                  Len(Before_(k)[j]) = IF c[j].op = "LABEL" THEN 0 ELSE 1
  <2>1. \A j \in 1 .. k : j \in 1 .. n
    BY <1>2
  <2>2. ASSUME NEW j \in 1 .. k
        PROVE  /\ Real(insts[j]) \in Seq(MCInst)
               /\ Len(Real(insts[j])) = IF c[j].op = "LABEL" THEN 0 ELSE 1
    BY <1>4, <2>1
  <2> QED BY <2>2
<1>10. ASSUME NEW k \in 1 .. n PROVE Len(FlattenSeq(Before_(k))) \in Nat
  <2>1. k \in Nat /\ Before_(k) \in [1 .. k -> Seq(MCInst)]
    BY <1>2, <1>9
  <2> DEFINE g == Before_(k)
  <2> HIDE DEF g
  <2>2. FlattenSeq(g) \in Seq(MCInst)
    BY <2>1, Flattened DEF g
  <2>3. Len(FlattenSeq(g)) \in Nat
    BY <2>2
  <2> QED BY <2>3 DEF g
<1> HIDE DEF Before_
<1>11. ASSUME NEW p \in 1 .. n
       PROVE  LET i == WithTarget(insts[p])
              IN  /\ i \in MCInst /\ i.op = c[p].op /\ i.rd = c[p].rd
                  /\ i.rs1 = c[p].rs1 /\ i.rs2 = c[p].rs2 /\ i.imm = c[p].imm
                  /\ ~IsJump(c[p]) => i.sym = c[p].sym
                  /\ IsJump(c[p]) => i.sym = Position(c[p].sym)
  <2>1. CASE ~IsJump(c[p])
    BY <1>4, <1>6, <2>1
  <2>2. CASE IsJump(c[p])
    <3>1. c[p].sym \in LabelsOf(c)
      BY <1>2, <2>2 DEF Closed, JumpsWithin
    <3>2. Position(c[p].sym) \in Int
      BY <1>8, <1>10, <3>1
    <3> DEFINE h == insts[p]
               s == Position(c[p].sym)
    <3>3. h \in MCInst /\ s \in Int /\ WithTarget(h) = [h EXCEPT !.sym = s]
      BY <1>4, <1>7, <2>2, <3>2
    <3> HIDE DEF h, s, WithTarget
    <3> DEFINE i == [h EXCEPT !.sym = s]
    <3>4. i \in MCInst /\ i.op = h.op /\ i.rd = h.rd /\ i.rs1 = h.rs1
          /\ i.rs2 = h.rs2 /\ i.imm = h.imm /\ i.sym = s
      BY <3>3 DEF MCInst
    <3>5. h.op = c[p].op /\ h.rd = c[p].rd /\ h.rs1 = c[p].rs1
          /\ h.rs2 = c[p].rs2 /\ h.imm = c[p].imm
      BY <1>4 DEF h
    <3> HIDE DEF i
    <3> QED BY <2>2, <3>3, <3>4, <3>5 DEF h, s, i
  <2> QED BY <2>1, <2>2
<1> HIDE DEF WithTarget
<1>12. ASSUME NEW p \in 1 .. n
       PROVE  /\ f[p] \in Seq(MCInst)
              /\ p \in keep => f[p] = <<WithTarget(insts[p])>>
              /\ Len(f[p]) = IF c[p].op = "LABEL" THEN 0 ELSE 1
  <2>1. f[p] = Real(WithTarget(insts[p]))
    BY <1>3
  <2>2. WithTarget(insts[p]) \in MCInst /\ WithTarget(insts[p]).op = c[p].op
    BY <1>11
  <2> HIDE DEF f
  <2> QED BY <2>1, <2>2
<1>13. f \in [1 .. n -> Seq(MCInst)]
  <2>1. f = [p \in 1 .. n |-> f[p]]
    BY <1>3
  <2> HIDE DEF f
  <2> QED BY <1>12, <2>1
<1> HIDE DEF f, b
<1>14. PICK pos : Ends(f, n, pos) /\ Thin(f, n, keep, b, pos) /\ b \in Seq(MCInst)
  <2>1. keep \in SUBSET (1 .. n)
    OBVIOUS
  <2>2. \A p \in keep : Len(f[p]) = 1
    BY <1>12
  <2>3. \A p \in (1 .. n) \ keep : Len(f[p]) = 0
    BY <1>12
  <2> HIDE DEF keep
  <2> QED BY <1>2, <1>13, <2>1, <2>2, <2>3, Thinned DEF b
<1>15. ASSUME NEW k \in 1 .. n PROVE Len(FlattenSeq(Before_(k))) = pos[k]
  <2> DEFINE g == Before_(k)
  <2>1. g \in [1 .. k -> Seq(MCInst)] /\ k \in 0 .. n
    BY <1>2, <1>9
  <2>2. \A j \in 1 .. k : Len(g[j]) = Len(f[j])
    <3>1. \A j \in 1 .. k : j \in 1 .. n
      BY <1>2
    <3> QED BY <1>9, <1>12, <3>1
  <2> HIDE DEF g
  <2>3. n \in Nat /\ f \in [1 .. n -> Seq(MCInst)] /\ Ends(f, n, pos)
    BY <1>2, <1>13, <1>14
  <2>4. Len(FlattenSeq(g)) = pos[k]
    BY <2>1, <2>2, <2>3, PrefixLength, SMTT(30)
  <2> QED BY <2>4 DEF g
<1>16. /\ pos \in [0 .. n -> Nat] /\ pos[0] = 0 /\ DOMAIN b = 1 .. pos[n]
       /\ \A q \in DOMAIN b : \E p \in 1 .. n : c[p].op # "LABEL" /\ q = pos[p]
       /\ \A x, y \in 0 .. n : x <= y => pos[x] <= pos[y]
  BY <1>14 DEF Thin
<1>17. ASSUME NEW p \in 1 .. n, c[p].op # "LABEL"
       PROVE  /\ pos[p] = pos[p - 1] + 1 /\ pos[p] \in DOMAIN b
              /\ b[pos[p]] = WithTarget(insts[p])
              /\ IsJump(c[p]) => \E t \in 1 .. n :
                   c[t].op = "LABEL" /\ b[pos[p]].sym = pos[t] + 1
  <2>1. /\ pos[p] = pos[p - 1] + 1 /\ pos[p] \in DOMAIN b
        /\ b[pos[p]] = f[p][1]
    BY <1>14, <1>17 DEF Thin
  <2>2. b[pos[p]] = WithTarget(insts[p])
    BY <1>12, <1>17, <2>1
  <2>3. ASSUME IsJump(c[p])
        PROVE  \E t \in 1 .. n : c[t].op = "LABEL" /\ b[pos[p]].sym = pos[t] + 1
    <3>1. c[p].sym \in LabelsOf(c)
      BY <1>2, <2>3 DEF Closed, JumpsWithin
    <3>2. b[pos[p]].sym = Position(c[p].sym)
      BY <1>11, <2>2, <2>3
    <3>3. Position(c[p].sym) = pos[At(c[p].sym)] + 1
      BY <1>8, <1>15, <3>1
    <3> QED BY <1>8, <3>1, <3>2, <3>3
  <2> QED BY <2>1, <2>2, <2>3
<1>18. ASSUME NEW x \in 0 .. n, NEW y \in 0 .. n, x <= y,
              \A p \in x + 1 .. y : c[p].op # "LABEL"
       PROVE  \A q \in x .. y : pos[q] = pos[x] + (q - x)
  <2>1. x + 1 .. y \subseteq keep
    BY <1>2, <1>18
  <2> HIDE DEF keep
  <2> QED BY <1>14, <1>18, <2>1 DEF Thin
<1>19. \A p \in 1 .. n : c[p].op # "LABEL" =>
         /\ pos[p] = pos[p - 1] + 1 /\ pos[p] \in DOMAIN b
         /\ b[pos[p]].op = c[p].op /\ b[pos[p]].rd = c[p].rd
         /\ b[pos[p]].rs1 = c[p].rs1 /\ b[pos[p]].rs2 = c[p].rs2
         /\ b[pos[p]].imm = c[p].imm
         /\ ~IsJump(c[p]) => b[pos[p]].sym = c[p].sym
         /\ IsJump(c[p]) => \E t \in 1 .. n :
              c[t].op = "LABEL" /\ b[pos[p]].sym = pos[t] + 1
  <2> SUFFICES ASSUME NEW p \in 1 .. n, c[p].op # "LABEL"
               PROVE  /\ pos[p] = pos[p - 1] + 1 /\ pos[p] \in DOMAIN b
                      /\ b[pos[p]].op = c[p].op /\ b[pos[p]].rd = c[p].rd
                      /\ b[pos[p]].rs1 = c[p].rs1 /\ b[pos[p]].rs2 = c[p].rs2
                      /\ b[pos[p]].imm = c[p].imm
                      /\ ~IsJump(c[p]) => b[pos[p]].sym = c[p].sym
                      /\ IsJump(c[p]) => \E t \in 1 .. n :
                           c[t].op = "LABEL" /\ b[pos[p]].sym = pos[t] + 1
    BY Zenon
  <2> HIDE DEF Position
  <2> QED BY <1>11, <1>17
<1>20. Emitted(c, b, pos)
  <2>1. DOMAIN c = 1 .. n /\ n = Len(c)
    BY <1>2 DEF n
  <2>2. \A x, y \in 0 .. n :
          x <= y /\ (\A p \in x + 1 .. y : c[p].op # "LABEL") =>
            \A q \in x .. y : pos[q] = pos[x] + (q - x)
    BY <1>18
  <2>3. \A p \in DOMAIN c : c[p].op # "LABEL" =>
         /\ pos[p] = pos[p - 1] + 1 /\ pos[p] \in DOMAIN b
         /\ b[pos[p]].op = c[p].op /\ b[pos[p]].rd = c[p].rd
         /\ b[pos[p]].rs1 = c[p].rs1 /\ b[pos[p]].rs2 = c[p].rs2
         /\ b[pos[p]].imm = c[p].imm
         /\ ~IsJump(c[p]) => b[pos[p]].sym = c[p].sym
         /\ IsJump(c[p]) => \E t \in DOMAIN c :
              c[t].op = "LABEL" /\ b[pos[p]].sym = pos[t] + 1
    BY <1>19, <2>1
  <2>4. /\ pos \in [0 .. Len(c) -> Nat] /\ pos[0] = 0
        /\ b \in Seq(MCInst) /\ DOMAIN b = 1 .. pos[Len(c)]
        /\ \A x, y \in 0 .. Len(c) : x <= y => pos[x] <= pos[y]
    BY <1>14, <1>16, <2>1
  <2>5. \A q \in DOMAIN b : \E p \in DOMAIN c : c[p].op # "LABEL" /\ q = pos[p]
    BY <1>16, <2>1
  <2>6. \A x, y \in 0 .. Len(c) :
          x <= y /\ (\A p \in x + 1 .. y : c[p].op # "LABEL") =>
            \A q \in x .. y : pos[q] = pos[x] + (q - x)
    BY <2>1, <2>2
  <2> QED BY <2>3, <2>4, <2>5, <2>6, Zenon DEF Emitted
<1> QED BY <1>1, <1>20 DEF insts

(* The addresses of the stack objects of a sized frame lie inside it, each *)
(* object has one of its own.                                              *)
LEMMA ObjectAddresses ==
    ASSUME FrameInv, AreasApart, ObjectsDisjoint, stage = "sized"
    PROVE  /\ \A i \in DOMAIN objs : /\ Resolved(i) \in Int /\ 0 <= Resolved(i)
                                     /\ Resolved(i) < stackSize
           /\ \A i, j \in DOMAIN objs : i # j => Resolved(i) # Resolved(j)
<1>1. FrameTypeOK /\ ReservedBytes \in Nat /\ stackSize \in Nat
  BY DEF FrameInv, FrameTypeOK, ReservedBytes
<1>2. DOMAIN objs \subseteq Nat \ {0} /\ DOMAIN objs \subseteq FrameIndices
  BY <1>1, FrameIndicesLemma DEF FrameIndices
<1>3. ASSUME NEW i \in DOMAIN objs
      PROVE  /\ Resolved(i) \in Int /\ 0 <= Resolved(i)
             /\ objs[i].size \in Nat /\ objs[i].size > 0
             /\ Resolved(i) < stackSize
             /\ SizeOf(i) = objs[i].size
  <2>1. Resolved(i) \in Int
    BY <1>2, ResolvableLemma DEF Resolved
  <2>2. objs[i].size \in Nat /\ objs[i].size > 0
    BY <1>1, ObjectLemma
  <2>3. Resolved(i) >= ReservedBytes /\ Resolved(i) + objs[i].size <= stackSize
    BY DEF AreasApart
  <2>4. ~(i < 0)
    BY <1>2
  <2>5. SizeOf(i) = objs[i].size
    BY <2>4 DEF SizeOf
  <2> QED BY <1>1, <2>1, <2>2, <2>3, <2>5
<1>4. ASSUME NEW i \in DOMAIN objs, NEW j \in DOMAIN objs, i # j
      PROVE  Resolved(i) # Resolved(j)
  <2>1. \/ Resolved(i) + SizeOf(i) <= Resolved(j)
        \/ Resolved(j) + SizeOf(j) <= Resolved(i)
    BY <1>2, <1>4 DEF ObjectsDisjoint
  <2> QED BY <1>3, <2>1
<1> QED BY <1>3, <1>4

(* What the passes have made sure of is what LaidOut says of the emitted   *)
(* code.                                                                   *)
LEMMA EmittedLaidOut ==
    ASSUME CodegenInv, FrameInv, AreasApart, ObjectsDisjoint, ShapeInv,
           pass = "emit", ~varSized, NEW b, NEW pos, Emitted(code, b, pos),
           NEW l \in Frame, l.size = stackSize, l.pre = PrologueLen,
           l.post = EpilogueLen, l.saves = NumSaves
    PROVE  LaidOut(b, l, DOMAIN prog)
<1> DEFINE n == NumSaves
           pre == PrologueLen
           post == EpilogueLen
           K == pre + n
<1>1. /\ Framed(code, TRUE, pre, post) /\ n \in Nat /\ minCS \in Nat \ {0}
      /\ stage = "sized" /\ pre \in {0, 1} /\ post \in {0, 1}
      /\ stackSize # 0 => pre = 1 /\ post = 1
  BY DEF CodegenInv, FramedInv, PrologueLen, EpilogueLen
<1>2. /\ code \in Seq(Instruction) /\ SavesAtEntry(code, TRUE, pre)
      /\ RestoresBeforeReturns(code, TRUE, pre, post)
      /\ ClobberedSaved(code, pre) /\ AdjustsSP(code, pre, post)
      /\ \A p \in DOMAIN code : code[p].fi = 0
  BY <1>1 DEF Framed, IndicesOwned
<1>3. /\ Closed(code) /\ StoresToObjects(code, pre) /\ SavesCSR(code, pre)
      /\ \A p \in DOMAIN code : code[p] \in Operands(GPR, Callees)
  BY DEF ShapeInv
<1>4. /\ DOMAIN code = 1 .. Len(code) /\ Len(code) \in Nat /\ Len(code) # 0
  BY <1>2, <1>3 DEF Closed
<1>5. /\ \A p \in 1 .. K : p \in DOMAIN code /\ code[p].op \in {"ADDI", "SW"}
      /\ \A p \in DOMAIN code : IsReturn(code[p]) =>
           \A j \in 1 .. post + n :
             p - j \in DOMAIN code /\ code[p - j].op \in {"ADDI", "LW"}
  <2>1. Framed(code, TRUE, pre, post) /\ NumSaves \in Nat
    BY <1>1
  <2>2. pre \in {0, 1} /\ post \in {0, 1} /\ TRUE \in BOOLEAN
    BY <1>1
  <2> HIDE DEF pre, post
  <2>3. \A p \in 1 .. pre + NumSaves :
          p \in DOMAIN code /\ code[p].op \in {"ADDI", "SW"}
    BY <2>1, <2>2, AroundLemma, ZenonT(60)
  <2>4. \A p \in DOMAIN code : IsReturn(code[p]) =>
          \A j \in 1 .. post + NumSaves :
            p - j \in DOMAIN code /\ code[p - j].op \in {"ADDI", "LW"}
    BY <2>1, <2>2, AroundLemma, ZenonT(60)
  <2> QED BY <2>3, <2>4
<1>6. stackSize \in Nat
  BY DEF FrameInv, FrameTypeOK
<1>7. /\ \A i \in DOMAIN objs : /\ Resolved(i) \in Int /\ 0 <= Resolved(i)
                                /\ Resolved(i) < stackSize
      /\ \A i, j \in DOMAIN objs : i # j => Resolved(i) # Resolved(j)
  BY <1>1, ObjectAddresses
<1>8. \A k \in 1 .. n : minCS + k - 1 \in DOMAIN objs /\ minCS + k - 1 >= minCS
  <2>1. DOMAIN objs = 1 .. Len(objs) /\ Len(objs) \in Nat
    BY FrameIndicesLemma DEF FrameInv
  <2> QED BY <1>1, <2>1 DEF NumSaves
<1>9. /\ pos \in [0 .. Len(code) -> Nat] /\ pos[0] = 0
      /\ b \in Seq(MCInst) /\ DOMAIN b = 1 .. pos[Len(code)]
      /\ \A x, y \in 0 .. Len(code) : x <= y => pos[x] <= pos[y]
  BY DEF Emitted
<1>10. ASSUME NEW p \in DOMAIN code, code[p].op # "LABEL"
       PROVE  /\ pos[p] = pos[p - 1] + 1 /\ pos[p] \in DOMAIN b
              /\ b[pos[p]].op = code[p].op /\ b[pos[p]].rd = code[p].rd
              /\ b[pos[p]].rs1 = code[p].rs1 /\ b[pos[p]].rs2 = code[p].rs2
              /\ b[pos[p]].imm = code[p].imm
              /\ ~IsJump(code[p]) => b[pos[p]].sym = code[p].sym
              /\ IsJump(code[p]) => \E t \in DOMAIN code :
                   code[t].op = "LABEL" /\ b[pos[p]].sym = pos[t] + 1
  BY <1>10, Zenon DEF Emitted
<1>11. ASSUME NEW q \in DOMAIN b
       PROVE  \E p \in DOMAIN code : code[p].op # "LABEL" /\ q = pos[p]
  BY DEF Emitted
<1>12. ASSUME NEW x \in 0 .. Len(code), NEW y \in 0 .. Len(code), x <= y,
              \A p \in x + 1 .. y : code[p].op # "LABEL"
       PROVE  \A q \in x .. y : pos[q] = pos[x] + (q - x)
  BY <1>12, Zenon DEF Emitted
<1> HIDE DEF n, pre, post
<1>13. /\ K \in Nat /\ K <= Len(code)
       /\ \A p \in 1 .. K : pos[p] = p /\ p \in DOMAIN b
  <2>1. K \in Nat /\ (K # 0 => K \in 1 .. K)
    BY <1>1
  <2> HIDE DEF K
  <2>2. K <= Len(code)
    BY <1>4, <1>5, <2>1
  <2>3. \A p \in 0 + 1 .. K : code[p].op # "LABEL"
    BY <1>5
  <2>4. 0 \in 0 .. Len(code) /\ K \in 0 .. Len(code) /\ 0 <= K
    BY <1>4, <2>1, <2>2
  <2>5. \A q \in 0 .. K : pos[q] = pos[0] + (q - 0)
    BY <1>12, <2>3, <2>4
  <2>6. \A p \in 1 .. K : pos[p] = p
    BY <1>9, <2>1, <2>5
  <2>7. \A p \in 1 .. K : p \in DOMAIN code /\ code[p].op # "LABEL"
    BY <1>5
  <2> QED BY <1>10, <2>1, <2>2, <2>6, <2>7
<1> HIDE DEF K
<1>14. ASSUME NEW r \in DOMAIN code, IsReturn(code[r])
       PROVE  /\ \A j \in 0 .. post + n :
                   /\ r - j \in DOMAIN code /\ code[r - j].op # "LABEL"
                   /\ pos[r - j] = pos[r] - j
              /\ pos[(r - (post + n)) - 1] = pos[r] - ((post + n) + 1)
              /\ (r - (post + n)) - 1 \in 0 .. Len(code)
  <2> DEFINE m == post + n
             x == (r - m) - 1
  <2>1. m \in Nat
    BY <1>1
  <2>2. \A j \in 0 .. m : r - j \in DOMAIN code /\ code[r - j].op # "LABEL"
    <3> SUFFICES ASSUME NEW j \in 0 .. m
                 PROVE  r - j \in DOMAIN code /\ code[r - j].op # "LABEL"
      OBVIOUS
    <3>1. CASE j = 0
      <4>1. r - j = r
        BY <1>4, <3>1
      <4> QED BY <1>14, <4>1 DEF IsReturn
    <3>2. CASE j # 0
      <4>1. j \in 1 .. m
        BY <2>1, <3>2
      <4> QED BY <1>5, <1>14, <4>1
    <3> QED BY <3>1, <3>2
  <2>3. r - m \in DOMAIN code /\ m \in 0 .. m
    BY <2>1, <2>2
  <2> HIDE DEF m
  <2>4. x \in 0 .. Len(code) /\ r \in 0 .. Len(code) /\ x <= r
        /\ r \in Int /\ x + 1 = r - m
    BY <1>4, <2>1, <2>3
  <2>5. \A p \in x + 1 .. r : code[p].op # "LABEL"
    <3> SUFFICES ASSUME NEW p \in x + 1 .. r PROVE code[p].op # "LABEL"
      OBVIOUS
    <3>1. r - p \in 0 .. m /\ r - (r - p) = p
      BY <2>1, <2>4
    <3> QED BY <2>2, <3>1
  <2>6. \A q \in x .. r : pos[q] = pos[x] + (q - x)
    BY <1>12, <2>4, <2>5
  <2>7. pos[x] \in Nat /\ pos[r] = pos[x] + (r - x)
    <3>1. r \in x .. r
      BY <2>4
    <3> QED BY <1>9, <2>4, <2>6, <3>1
  <2>8. \A j \in 0 .. m : pos[r - j] = pos[r] - j
    <3> SUFFICES ASSUME NEW j \in 0 .. m PROVE pos[r - j] = pos[r] - j
      OBVIOUS
    <3>1. r - j \in x .. r /\ (r - j) - x = (r - x) - j
      BY <2>1, <2>4
    <3>2. pos[r - j] = pos[x] + ((r - j) - x)
      BY <2>6, <3>1
    <3>3. PICK u \in Nat : u = pos[x]
      BY <2>7
    <3>4. pos[r - j] = u + ((r - x) - j) /\ pos[r] = u + (r - x)
      BY <2>7, <3>1, <3>2, <3>3
    <3>5. r - x \in Int /\ j \in Int
      BY <2>1, <2>4
    <3> HIDE DEF x
    <3> QED BY <3>4, <3>5
  <2>9. pos[x] = pos[r] - (m + 1)
    BY <2>1, <2>4, <2>7
  <2> QED BY <2>2, <2>4, <2>8, <2>9 DEF m
<1>15. ASSUME NEW q \in DOMAIN b, IsReturn(b[q])
       PROVE  \E r \in DOMAIN code : IsReturn(code[r]) /\ q = pos[r]
  <2>1. PICK p \in DOMAIN code : code[p].op # "LABEL" /\ q = pos[p]
    BY <1>11
  <2> QED BY <1>10, <1>15, <2>1 DEF IsReturn
<1>16. \A k \in 1 .. n : /\ pre + k \in 1 .. K
                         /\ SaveReg(b, l, k) = code[pre + k].rs2
                         /\ Slot(b, l, k) = code[pre + k].imm
                         /\ code[pre + k] = Instr("SW", NoReg, X2, code[pre + k].rs2,
                                                  Resolved(minCS + k - 1))
  <2> SUFFICES ASSUME NEW k \in 1 .. n
               PROVE  /\ pre + k \in 1 .. K
                      /\ SaveReg(b, l, k) = code[pre + k].rs2
                      /\ Slot(b, l, k) = code[pre + k].imm
                      /\ code[pre + k] = Instr("SW", NoReg, X2, code[pre + k].rs2,
                                               Resolved(minCS + k - 1))
    OBVIOUS
  <2>1. pre + k \in 1 .. K
    BY <1>1 DEF K
  <2>2. code[pre + k] = Instr("SW", NoReg, X2, code[pre + k].rs2,
                              Resolved(minCS + k - 1))
    <3>1. code[pre + k] = SlotAccess(TRUE, "SW", NoReg, code[pre + k].rs2, k)
      BY <1>2, Zenon DEF SavesAtEntry, n
    <3>2. \A r : SlotAccess(TRUE, "SW", NoReg, r, k)
                   = Instr("SW", NoReg, X2, r, Resolved(minCS + k - 1))
      BY Zenon DEF SlotAccess, Resolved
    <3> QED BY <3>1, <3>2, Zenon
  <2>3. pre + k \in DOMAIN code /\ code[pre + k].op # "LABEL" /\ pos[pre + k] = pre + k
    BY <1>5, <1>13, <2>1
  <2>4. b[pre + k].rs2 = code[pre + k].rs2 /\ b[pre + k].imm = code[pre + k].imm
    BY <1>10, <2>3
  <2>5. l.pre = pre
    BY DEF pre
  <2> QED BY <2>1, <2>2, <2>4, <2>5 DEF SaveReg, Slot
<1>17. ASSUME NEW k \in 1 .. n
       PROVE  /\ Slot(b, l, k) = Resolved(minCS + k - 1)
              /\ SaveReg(b, l, k) \in CSR_RV32I
              /\ code[pre + k].op = "SW" /\ code[pre + k].rs1 = X2
  <2>1. Instr("SW", NoReg, X2, code[pre + k].rs2, Resolved(minCS + k - 1)).imm
          = Resolved(minCS + k - 1)
    BY DEF Instr
  <2>2. code[pre + k].rs2 \in CSR_RV32I
    BY <1>3 DEF SavesCSR, n
  <2> DEFINE i == Instr("SW", NoReg, X2, code[pre + k].rs2, Resolved(minCS + k - 1))
  <2>3. i.op = "SW" /\ i.rs1 = X2 /\ i.imm = Resolved(minCS + k - 1)
    BY DEF Instr
  <2>4. code[pre + k] = i
    BY <1>16
  <2> HIDE DEF i
  <2> QED BY <1>16, <2>2, <2>3, <2>4
<1>18. l.pre = pre /\ l.post = post /\ l.saves = n
  BY DEF pre, post, n
<1>19. SavesFirst(b, l)
  <2>1. l.pre + l.saves <= Len(b)
    <3>1. Len(b) \in Nat /\ DOMAIN b = 1 .. Len(b)
      BY <1>9
    <3>2. K # 0 => K \in 1 .. K
      BY <1>13
    <3> QED BY <1>13, <1>18, <3>1, <3>2 DEF K
  <2>2. ASSUME NEW k \in 1 .. n
        PROVE  /\ b[pre + k].op = "SW" /\ b[pre + k].rs1 = X2
               /\ 0 <= Slot(b, l, k) /\ Slot(b, l, k) < stackSize
               /\ \A j \in 1 .. n : j # k => Slot(b, l, j) # Slot(b, l, k)
    <3>1. pre + k \in DOMAIN code /\ code[pre + k].op # "LABEL" /\ pos[pre + k] = pre + k
      BY <1>5, <1>13, <1>16
    <3>2. b[pre + k].op = "SW" /\ b[pre + k].rs1 = X2
      BY <1>10, <1>17, <3>1
    <3>3. 0 <= Slot(b, l, k) /\ Slot(b, l, k) < stackSize
      BY <1>7, <1>8, <1>17
    <3>4. ASSUME NEW j \in 1 .. n, j # k PROVE Slot(b, l, j) # Slot(b, l, k)
      <4>1. minCS + j - 1 # minCS + k - 1
        BY <1>1, <3>4
      <4> QED BY <1>7, <1>8, <1>17, <4>1
    <3> QED BY <3>2, <3>3, <3>4
  <2> QED BY <1>17, <1>18, <2>1, <2>2 DEF SavesFirst
<1>20. RestoresLast(b, l)
  <2> SUFFICES ASSUME NEW q \in DOMAIN b, IsReturn(b[q]), NEW k \in 1 .. n
               PROVE  LET h == (q - post) - k
                      IN  /\ h \in DOMAIN b /\ b[h].op = "LW"
                          /\ b[h].rd = SaveReg(b, l, k) /\ b[h].rs1 = X2
                          /\ b[h].imm = Slot(b, l, k)
    BY <1>18, Zenon DEF RestoresLast
  <2>1. PICK r \in DOMAIN code : IsReturn(code[r]) /\ q = pos[r]
    BY <1>15
  <2> DEFINE j == post + k
             i == Instr("LW", code[pre + k].rs2, X2, NoReg, Resolved(minCS + k - 1))
             h == (q - post) - k
  <2>2. j \in 0 .. post + n /\ (r - post) - k = r - j /\ r \in Int
    BY <1>1, <1>4
  <2>3. /\ r - j \in DOMAIN code /\ code[r - j].op # "LABEL"
        /\ pos[r - j] = pos[r] - j
    BY <1>14, <2>1, <2>2
  <2>4. code[r - j] = i
    <3>1. code[(r - post) - k] = SlotAccess(TRUE, "LW", code[pre + k].rs2, NoReg, k)
      BY <1>2, <2>1, Zenon DEF RestoresBeforeReturns, n
    <3>2. \A u : SlotAccess(TRUE, "LW", u, NoReg, k)
                   = Instr("LW", u, X2, NoReg, Resolved(minCS + k - 1))
      BY Zenon DEF SlotAccess, Resolved
    <3>3. code[(r - post) - k] = i
      BY <3>1, <3>2, Zenon
    <3> QED BY <2>2, <3>3
  <2>5. i.op = "LW" /\ i.rd = code[pre + k].rs2 /\ i.rs1 = X2
        /\ i.imm = Resolved(minCS + k - 1)
    BY DEF Instr
  <2>6. h = pos[r - j]
    <3>1. pos[r] \in Nat
      <4>1. r \in 0 .. Len(code)
        BY <1>4
      <4> QED BY <1>9, <4>1
    <3> QED BY <1>1, <2>1, <2>3, <3>1
  <2> HIDE DEF i, j, h
  <2>7. /\ h \in DOMAIN b /\ b[h].op = i.op /\ b[h].rd = i.rd
        /\ b[h].rs1 = i.rs1 /\ b[h].imm = i.imm
    BY <1>10, <2>3, <2>4, <2>6
  <2>8. i.rd = SaveReg(b, l, k) /\ i.imm = Slot(b, l, k)
    BY <1>16, <1>17, <2>5
  <2> QED BY <2>5, <2>7, <2>8 DEF h
<1>21. ClobbersKept(b, l)
  <2> SUFFICES ASSUME NEW q \in DOMAIN b, NEW r \in Clobbers(b[q]), r \in CSR_RV32I
               PROVE  r \in Kept(b, l)
    BY DEF ClobbersKept
  <2>1. PICK p \in DOMAIN code : code[p].op # "LABEL" /\ q = pos[p]
    BY <1>11
  <2>2. b[q].op = code[p].op /\ b[q].rd = code[p].rd
    BY <1>10, <2>1
  <2>3. r \in Clobbers(code[p]) \cap CSR_RV32I
    BY <2>2 DEF Clobbers
  <2>4. PICK k \in 1 .. n : code[pre + k].rs2 = r
    BY <1>2, <2>3 DEF ClobberedSaved, n
  <2> QED BY <1>16, <1>18, <2>4 DEF Kept
<1>22. MovesSP(b, l)
  <2>1. \A p \in DOMAIN code : \A u \in Int : code[p] = ADDI(X2, X2, u) =>
          /\ code[p].op # "LABEL" /\ IsAdjustment(b[pos[p]], u)
    <3> SUFFICES ASSUME NEW p \in DOMAIN code, NEW u \in Int,
                        code[p] = ADDI(X2, X2, u)
                 PROVE  code[p].op # "LABEL" /\ IsAdjustment(b[pos[p]], u)
      OBVIOUS
    <3> DEFINE i == ADDI(X2, X2, u)
    <3>1. i.op = "ADDI" /\ i.rd = X2 /\ i.rs1 = X2 /\ i.imm = u
      BY DEF ADDI, Instr
    <3>2. code[p] = i
      OBVIOUS
    <3> HIDE DEF i
    <3> QED BY <1>10, <3>1, <3>2 DEF IsAdjustment
  <2>2. l.size # 0 => l.pre = 1 /\ l.post = 1
    BY <1>1, <1>18 DEF pre, post
  <2>3. ASSUME pre = 1 PROVE b[1] \in MCInst /\ IsAdjustment(b[1], -l.size)
    <3>1. 1 \in 1 .. K
      BY <1>1, <1>13, <2>3 DEF K
    <3>2. 1 \in DOMAIN code /\ pos[1] = 1 /\ 1 \in DOMAIN b
      BY <1>5, <1>13, <3>1
    <3>3. code[1] = ADDI(X2, X2, -stackSize) /\ -stackSize \in Int
      BY <1>2, <1>6, <2>3 DEF AdjustsSP
    <3> QED BY <1>9, <2>1, <3>2, <3>3
  <2>4. ASSUME post = 1, NEW q \in DOMAIN b, IsReturn(b[q])
        PROVE  q - 1 \in DOMAIN b /\ IsAdjustment(b[q - 1], l.size)
    <3>1. PICK r \in DOMAIN code : IsReturn(code[r]) /\ q = pos[r]
      BY <1>15, <2>4
    <3>2. 1 \in 0 .. post + n
      BY <1>1, <2>4
    <3>3. r - 1 \in DOMAIN code /\ code[r - 1].op # "LABEL" /\ pos[r - 1] = q - 1
      BY <1>14, <3>1, <3>2
    <3>4. code[r - 1] = ADDI(X2, X2, stackSize)
      BY <1>2, <2>4, <3>1 DEF AdjustsSP
    <3>5. q - 1 \in DOMAIN b
      BY <1>10, <3>3
    <3>6. IsAdjustment(b[pos[r - 1]], stackSize)
      BY <1>6, <2>1, <3>3, <3>4
    <3> QED BY <3>3, <3>5, <3>6
  <2>5. ASSUME NEW q \in DOMAIN b, b[q].rd = X2
        PROVE  \/ pre = 1 /\ q = 1
               \/ post = 1 /\ q + 1 \in DOMAIN b /\ IsReturn(b[q + 1])
    <3>1. PICK p \in DOMAIN code : code[p].op # "LABEL" /\ q = pos[p]
      BY <1>11
    <3>2. code[p].rd = X2
      BY <1>10, <2>5, <3>1
    <3>3. CASE pre = 1 /\ p = 1
      <4>1. 1 \in 1 .. K
        BY <1>1, <1>13, <3>3 DEF K
      <4> QED BY <1>13, <3>1, <3>3, <4>1
    <3>4. CASE post = 1 /\ p + 1 \in DOMAIN code /\ IsReturn(code[p + 1])
      <4>1. code[p + 1].op # "LABEL" /\ (p + 1) - 1 = p
        BY <1>4, <3>4 DEF IsReturn
      <4>2. pos[p + 1] = pos[p] + 1 /\ pos[p + 1] \in DOMAIN b
            /\ b[pos[p + 1]].op = code[p + 1].op
        BY <1>10, <3>4, <4>1
      <4> QED BY <3>1, <3>4, <4>2 DEF IsReturn
    <3> QED BY <1>2, <3>2, <3>3, <3>4 DEF AdjustsSP
  <2> QED BY <1>18, <2>2, <2>3, <2>4, <2>5, Zenon DEF MovesSP
<1>23. StoresInside(b, l)
  <2> SUFFICES ASSUME NEW q \in DOMAIN b, b[q].op = "SW", b[q].rs1 = X2,
                      q \notin pre + 1 .. pre + n
               PROVE  /\ 0 <= b[q].imm /\ b[q].imm < stackSize
                      /\ \A k \in 1 .. n : b[q].imm # Slot(b, l, k)
    BY <1>18, Zenon DEF StoresInside
  <2>1. PICK p \in DOMAIN code : code[p].op # "LABEL" /\ q = pos[p]
    BY <1>11
  <2>2. code[p].op = "SW" /\ code[p].rs1 = X2 /\ b[q].imm = code[p].imm
    BY <1>10, <2>1
  <2>3. PICK fi \in DOMAIN objs : /\ code[p].imm = Resolved(fi)
                                  /\ fi >= minCS => p \in pre + 1 .. pre + n
    BY <1>3, <2>2 DEF StoresToObjects, n
  <2>4. p \notin pre + 1 .. pre + n
    <3>1. p \in pre + 1 .. pre + n => p \in 1 .. K
      BY <1>1 DEF K
    <3> QED BY <1>13, <2>1, <3>1
  <2>5. ~(fi >= minCS)
    BY <2>3, <2>4
  <2>6. \A k \in 1 .. n : fi # minCS + k - 1
    BY <1>8, <2>5
  <2> QED BY <1>7, <1>8, <1>17, <2>2, <2>3, <2>6
<1>24. JumpsBetween(b, l)
  <2> SUFFICES ASSUME NEW q \in DOMAIN b, IsJump(b[q])
               PROVE  /\ b[q].sym \in DOMAIN b /\ b[q].sym > K
                      /\ \A r \in DOMAIN b : IsReturn(b[r]) =>
                           ~(r - (post + n) < b[q].sym /\ b[q].sym <= r)
    BY <1>18, Zenon DEF JumpsBetween, K
  <2>1. PICK p \in DOMAIN code : code[p].op # "LABEL" /\ q = pos[p]
    BY <1>11
  <2>2. IsJump(code[p])
    BY <1>10, <2>1 DEF IsJump
  <2>3. PICK t \in DOMAIN code : code[t].op = "LABEL" /\ b[q].sym = pos[t] + 1
    BY <1>10, <2>1, <2>2
  <2>4. \A x \in 0 .. Len(code) : pos[x] \in Nat
    BY <1>9
  <2>5. t \in 0 .. Len(code) /\ pos[t] \in Nat
    BY <1>4, <2>4
  <2>6. b[q].sym \in DOMAIN b
    <3> DEFINE e == Len(code)
    <3>1. e \in DOMAIN code /\ code[e].op # "LABEL"
      BY <1>3, <1>4 DEF Closed, EndsBlock
    <3>2. pos[e] = pos[e - 1] + 1 /\ pos[e] \in DOMAIN b
      BY <1>10, <3>1
    <3>3. t # e
      BY <2>3, <3>1
    <3>4. t <= e - 1 /\ e - 1 \in 0 .. e
      BY <1>4, <3>3
    <3>5. pos[t] <= pos[e - 1] /\ pos[e - 1] \in Nat
      BY <1>9, <2>4, <2>5, <3>4
    <3>6. DOMAIN b = 1 .. pos[e]
      BY <1>9
    <3> HIDE DEF e
    <3> QED BY <2>3, <2>5, <3>2, <3>5, <3>6
  <2>7. b[q].sym > K
    <3>1. ~(t \in 1 .. K)
      BY <1>5, <2>3
    <3>2. K <= t /\ K \in 0 .. Len(code)
      BY <1>4, <1>13, <3>1
    <3>3. pos[K] = K
      <4>1. K = 0 \/ K \in 1 .. K
        BY <1>13
      <4> QED BY <1>9, <1>13, <4>1
    <3>4. K <= pos[t]
      BY <1>9, <2>5, <3>2, <3>3
    <3> QED BY <1>13, <2>3, <2>5, <3>4
  <2>8. ASSUME NEW r \in DOMAIN b, IsReturn(b[r])
        PROVE  ~(r - (post + n) < b[q].sym /\ b[q].sym <= r)
    <3>1. PICK s \in DOMAIN code : IsReturn(code[s]) /\ r = pos[s]
      BY <1>15, <2>8
    <3> DEFINE m == post + n
               x == (s - m) - 1
    <3>2. m \in Nat /\ s \in Int /\ t \in Int /\ s \in 0 .. Len(code)
      BY <1>1, <1>4
    <3>3. /\ \A j \in 0 .. m : code[s - j].op # "LABEL"
          /\ pos[x] = r - (m + 1) /\ x \in 0 .. Len(code)
      BY <1>14, <3>1
    <3> HIDE DEF m
    <3>4. ~(s - t \in 0 .. m)
      <4>1. s - (s - t) = t
        BY <3>2
      <4> QED BY <2>3, <3>3, <4>1
    <3>5. t > s \/ t <= x
      BY <3>2, <3>4
    <3>6. pos[s] \in Nat /\ pos[x] \in Nat
      BY <2>4, <3>2, <3>3
    <3> HIDE DEF x
    <3>7. CASE t > s
      <4>1. s <= t
        BY <3>2, <3>7
      <4>2. pos[s] <= pos[t]
        BY <1>9, <2>5, <3>2, <4>1
      <4> QED BY <2>3, <2>5, <3>1, <3>6, <4>2
    <3>8. CASE t <= x
      <4>1. pos[t] <= pos[x]
        BY <1>9, <2>5, <3>3, <3>8
      <4>2. pos[t] + 1 <= r - m
        <5> DEFINE y == pos[t]
                   z == pos[x]
        <5>1. y \in Int /\ m \in Int /\ r \in Int /\ y <= z /\ z = r - (m + 1)
          BY <2>5, <3>1, <3>2, <3>3, <3>6, <4>1
        <5> HIDE DEF y, z
        <5>2. y + 1 <= r - m
          BY <5>1
        <5> QED BY <5>2 DEF y
      <4> QED BY <2>3, <2>5, <3>1, <3>2, <3>6, <4>2 DEF m
    <3> QED BY <3>5, <3>7, <3>8
  <2> QED BY <2>6, <2>7, <2>8
<1>25. OperandsFit(b, l, DOMAIN prog)
  <2> SUFFICES ASSUME NEW q \in DOMAIN b
               PROVE  /\ b[q].op \in {"ADDI", "LW", "SW", "ADD", "SUB"} => b[q].rs1 \in GPR
                      /\ b[q].op \in {"ADD", "SUB", "SW"} => b[q].rs2 \in GPR
                      /\ b[q].op = "PseudoCALL" => /\ b[q].sym \in DOMAIN prog
                                                   /\ l.size % StackAlign = 0
    BY Zenon DEF OperandsFit
  <2>1. PICK p \in DOMAIN code : code[p].op # "LABEL" /\ q = pos[p]
    BY <1>11
  <2>2. /\ b[q].op = code[p].op /\ b[q].rs1 = code[p].rs1 /\ b[q].rs2 = code[p].rs2
        /\ ~IsJump(code[p]) => b[q].sym = code[p].sym
    BY <1>10, <2>1
  <2>3. code[p] \in Operands(GPR, Callees) /\ code[p].fi = 0
    BY <1>2, <1>3
  <2>4. ASSUME b[q].op = "PseudoCALL"
        PROVE  b[q].sym \in DOMAIN prog /\ l.size % StackAlign = 0
    <3>1. code[p].op = "PseudoCALL" /\ code[p].sym \in Callees
      BY <2>2, <2>3, <2>4 DEF Operands
    <3>2. ~IsJump(code[p])
      BY <3>1, JumpOpLemma DEF IsJump
    <3>3. adjustsStack /\ code[p].sym \in DOMAIN prog
      BY <3>1 DEF Callees
    <3>4. stackSize % StackAlign = 0
      BY <1>1, <3>3 DEF FrameInv, SizedFrame
    <3> QED BY <2>2, <3>2, <3>3, <3>4
  <2> QED BY <2>2, <2>3, <2>4 DEF Operands
<1>26. b # <<>> /\ EndsBlock(b[Len(b)])
  <2> DEFINE e == Len(code)
  <2>1. e \in DOMAIN code /\ code[e].op # "LABEL" /\ EndsBlock(code[e])
    BY <1>3, <1>4 DEF Closed, EndsBlock
  <2>2. pos[e] \in DOMAIN b /\ b[pos[e]].op = code[e].op
    BY <1>10, <2>1
  <2>3. Len(b) = pos[e]
    <3>1. DOMAIN b = 1 .. pos[e] /\ e \in 0 .. e
      BY <1>4, <1>9
    <3>2. pos[e] \in Nat
      BY <1>9, <3>1
    <3> QED BY <1>9, <3>1, <3>2
  <2> HIDE DEF e
  <2> QED BY <2>1, <2>2, <2>3 DEF EndsBlock
<1> QED BY <1>9, <1>19, <1>20, <1>21, <1>22, <1>23, <1>24, <1>25, <1>26 DEF LaidOut
-----------------------------------------------------------------------------
(* The whole pipeline.                                                     *)

(* Emitting a function lays out its code like that of the functions before. *)
LEMMA EmitFunctionKept ==
    ASSUME CodegenInv, FrameInv, AreasApart, ObjectsDisjoint, ControlInv,
           EmitFunction
    PROVE  ControlInv'
<1> DEFINE b == Assembled([p \in DOMAIN code |-> LowerToMCInst(code[p])])
           l == [size |-> stackSize, pre |-> PrologueLen,
                 post |-> EpilogueLen, saves |-> NumSaves]
<1>1. /\ pass = "emit" /\ pass' = (IF cur = Len(prog) THEN "done" ELSE "alloca")
      /\ binary' = Append(binary, b) /\ cur' = cur + 1 /\ prog' = prog
      /\ ~varSized'
  BY DEF EmitFunction, NextFunction
<1>2. /\ PlainProgram /\ ~varSized /\ ShapeInv /\ LayoutInv
  BY DEF ControlInv
<1>3. code \in Seq(Instruction) /\ Closed(code) /\ NumSaves \in Nat
  BY <1>1, <1>2 DEF CodegenInv, FramedInv, Framed, ShapeInv
<1>4. PICK pos : Emitted(code, b, pos)
  BY <1>3, AssembledLemma
<1>5. b \in Seq(MCInst)
  BY <1>4 DEF Emitted
<1>6. /\ l \in Frame /\ l.size = stackSize /\ l.pre = PrologueLen
      /\ l.post = EpilogueLen /\ l.saves = NumSaves
  BY <1>3 DEF Frame, FrameInv, FrameTypeOK, PrologueLen, EpilogueLen
<1> HIDE DEF b, l
<1>7. LaidOut(b, l, DOMAIN prog)
  BY <1>1, <1>2, <1>4, <1>6, EmittedLaidOut
<1>8. /\ binary \in Seq(Seq(MCInst)) /\ Len(binary) + 1 = cur
      /\ \A f \in DOMAIN binary : \E m : LaidOut(binary[f], m, DOMAIN prog)
  BY <1>2 DEF LayoutInv
<1>9. /\ binary' \in Seq(Seq(MCInst)) /\ Len(binary') = Len(binary) + 1
      /\ DOMAIN binary' = 1 .. Len(binary) + 1
      /\ \A f \in 1 .. Len(binary) : binary'[f] = binary[f]
      /\ binary'[Len(binary) + 1] = b /\ DOMAIN binary = 1 .. Len(binary)
      /\ Len(binary) \in Nat
  BY <1>1, <1>5, <1>8
<1>10. ASSUME NEW f \in DOMAIN binary'
       PROVE  \E m : LaidOut(binary'[f], m, DOMAIN prog)
  <2>1. CASE f = Len(binary) + 1
    BY <1>7, <1>9, <2>1
  <2>2. CASE f \in 1 .. Len(binary)
    BY <1>8, <1>9, <2>2
  <2> QED BY <1>9, <2>1, <2>2
<1>11. LayoutInv'
  BY <1>1, <1>8, <1>9, <1>10 DEF LayoutInv
<1>12. PlainProgram' /\ SelectionInv' /\ ShapeInv'
  BY <1>1, <1>2 DEF PlainProgram, SelectionInv, ShapeInv
<1> QED BY <1>1, <1>11, <1>12 DEF ControlInv

(* Only emission changes the emitted code.                                 *)
LEMMA LayoutKept ==
    ASSUME LayoutInv, UNCHANGED <<binary, prog, cur>>, pass' # "done"
    PROVE  LayoutInv'
BY DEF LayoutInv

(* No function has code before the first is emitted.                       *)
LEMMA ControlInit ==
    ASSUME CodegenInit, PlainProgram
    PROVE  ControlInv
<1>1. /\ pass = "alloca" /\ cur = 1 /\ binary = <<>> /\ ~varSized
  BY DEF CodegenInit, FrameInit
<1>2. binary \in Seq(Seq(MCInst)) /\ Len(binary) = 0 /\ DOMAIN binary = {}
  BY <1>1
<1>3. LayoutInv
  BY <1>1, <1>2 DEF LayoutInv
<1> QED BY <1>1, <1>3 DEF ControlInv, SelectionInv, ShapeInv

(* Every pass keeps operands, control flow and layout in order.            *)
LEMMA ControlStep ==
    ASSUME CodegenInv, FrameInv, AreasApart, ObjectsDisjoint, ControlInv,
           [CompileStep]_compileVars
    PROVE  ControlInv'
<1> DEFINE Quiet == /\ UNCHANGED <<binary, prog, cur, varSized>>
                    /\ pass' # "done"
<1>1. /\ SelectedInv /\ FrameTypeOK /\ PlainProgram /\ ~varSized
      /\ SelectionInv /\ ShapeInv /\ LayoutInv
  BY DEF CodegenInv, FrameInv, ControlInv
<1>2. ASSUME Quiet, SelectionInv', ShapeInv' PROVE ControlInv'
  <2>1. PlainProgram'
    BY <1>1, <1>2 DEF PlainProgram
  <2>2. LayoutInv'
    BY <1>1, <1>2, LayoutKept
  <2> QED BY <1>1, <1>2, <2>1, <2>2 DEF ControlInv
<1>3. CASE BeginFunction
  <2>1. Quiet
    BY <1>3 DEF BeginFunction, CreateStackObjects
  <2> QED BY <1>1, <1>2, <1>3, <2>1, BeginFunctionKept
<1>4. CASE LowerFormalArguments
  <2>1. Quiet
    BY <1>4 DEF LowerFormalArguments, CreateFixedObjects
  <2> QED BY <1>1, <1>2, <1>4, <2>1, LowerFormalArgumentsKept
<1>5. ASSUME SelectConstant \/ SelectAdd \/ SelectFrameIndex \/ SelectLoad
             \/ SelectStore \/ StartBlock \/ SelectBR \/ SelectBR_CC
             \/ LowerReturn
      PROVE  Quiet
  BY <1>5 DEF SelectConstant, SelectAdd, SelectFrameIndex, SelectLoad,
              SelectStore, StartBlock, SelectBR, SelectBR_CC, LowerReturn,
              Select, Selecting, frameVars
<1>6. CASE SelectConstant \/ SelectAdd \/ SelectFrameIndex
  BY <1>1, <1>2, <1>5, <1>6, SelectConstantKept, SelectAddKept,
     SelectFrameIndexKept
<1>7. CASE SelectLoad \/ SelectStore \/ StartBlock
  BY <1>1, <1>2, <1>5, <1>7, SelectLoadKept, SelectStoreKept, StartBlockKept
<1>8. CASE SelectBR \/ SelectBR_CC \/ LowerReturn
  BY <1>1, <1>2, <1>5, <1>8, SelectBRKept, SelectBR_CCKept, LowerReturnKept
<1>9. CASE LowerCall
  <2>1. Quiet
    BY <1>9 DEF LowerCall, NoteCallFrame, Selecting
  <2> QED BY <1>1, <1>2, <1>9, <2>1, LowerCallKept
<1>10. CASE FinishISel
  <2>1. Quiet
    BY <1>10 DEF FinishISel, frameVars
  <2> QED BY <1>1, <1>2, <1>10, <2>1, FinishISelKept
<1>11. CASE RegAlloc
  <2>1. Quiet
    BY <1>11 DEF RegAlloc, CreateStackObjects
  <2> QED BY <1>1, <1>2, <1>11, <2>1, RegAllocKept
<1>12. CASE EliminateCallFramePseudoInstrs
  <2>1. Quiet
    BY <1>12 DEF EliminateCallFramePseudoInstrs, frameVars
  <2> QED BY <1>1, <1>2, <1>12, <2>1, EliminateCallFramePseudoInstrsKept
<1>13. CASE SpillCalleeSavedRegisters
  <2>1. Quiet
    BY <1>13 DEF SpillCalleeSavedRegisters, AssignCalleeSavedSpillSlots
  <2> QED BY <1>1, <1>2, <1>13, <2>1, SpillCalleeSavedRegistersKept
<1>14. CASE CalculateFrameObjectOffsets
  <2>1. Quiet
    BY <1>14 DEF CalculateFrameObjectOffsets, PlaceObject, SetStackSize
  <2> QED BY <1>1, <1>2, <1>14, <2>1, CalculateFrameObjectOffsetsKept
<1>15. ASSUME emitPrologue \/ emitEpilogue \/ ReplaceFrameIndices
              \/ ExpandCopies
       PROVE  Quiet
  BY <1>15 DEF emitPrologue, emitEpilogue, ReplaceFrameIndices, ExpandCopies,
               frameVars
<1>16. CASE emitPrologue \/ emitEpilogue
  BY <1>1, <1>2, <1>15, <1>16, emitPrologueKept, emitEpilogueKept
<1>17. CASE ReplaceFrameIndices \/ ExpandCopies
  BY <1>1, <1>2, <1>15, <1>17, ReplaceFrameIndicesKept, ExpandCopiesKept
<1>18. CASE EmitFunction
  BY <1>18, EmitFunctionKept
<1>19. CASE ExpandDynamicStackAlloc
  BY <1>1, <1>19, NextStatement DEF ExpandDynamicStackAlloc, Selecting
<1>20. CASE UNCHANGED compileVars
  <2>1. UNCHANGED <<prog, cur, pass, todo, code, binary>> /\ UNCHANGED frameVars
    BY <1>20 DEF compileVars, cgVars
  <2>2. UNCHANGED <<objs, minCS, varSized, fixed, off, stackSize, stage,
                    adjustsStack>>
    BY <2>1 DEF frameVars
  <2>3. LayoutInv' /\ PlainProgram'
    BY <1>1, <2>1 DEF LayoutInv, PlainProgram
  <2>4. SelectionInv'
    BY <1>1, <2>1 DEF SelectionInv, KnownBlocks
  <2>5. ShapeInv'
    <3>1. /\ NumSaves' = NumSaves /\ PrologueLen' = PrologueLen
          /\ Callees' = Callees
      BY <2>1, <2>2 DEF NumSaves, PrologueLen, Callees
    <3>2. ASSUME StoresToObjects(code, PrologueLen)
          PROVE  StoresToObjects(code, PrologueLen)'
      <4>1. PICK d, q : d = code /\ q = PrologueLen
        OBVIOUS
      <4>2. StoresToObjects(d, q)'
        BY <2>1, <3>2, <4>1, StoresKept
      <4> QED BY <2>1, <3>1, <4>1, <4>2
    <3>3. /\ SavesCSR(code, 0)' = SavesCSR(code, 0)
          /\ SavesCSR(code, PrologueLen)' = SavesCSR(code, PrologueLen)
      BY <2>1, <3>1 DEF SavesCSR
    <3> QED BY <1>1, <2>1, <3>1, <3>2, <3>3, Zenon DEF ShapeInv
  <2> QED BY <1>1, <2>2, <2>3, <2>4, <2>5 DEF ControlInv
<1> QED
  BY <1>3, <1>4, <1>6, <1>7, <1>8, <1>9, <1>10, <1>11, <1>12, <1>13, <1>14,
     <1>16, <1>17, <1>18, <1>19, <1>20 DEF CompileStep

(* The emitted code of every program without variable-sized arrays and     *)
(* calls marked tail: where SP moves, what is saved where, where stores    *)
(* relative to SP go and where jumps lead.                                 *)
THEOREM CompiledControl == CompileSpec /\ PlainProgram => []ControlInv
<1> DEFINE I == /\ CodegenInv /\ FrameInv /\ AreasApart /\ ObjectsDisjoint
<1>1. CompileSpec => []I
  <2>1. CompileSpec => []FrameInv
    BY CompileImplementsFrame, FrameInvariant, PTL
  <2> QED BY <2>1, CodegenInvariant, CompiledAreasApart,
             CompiledObjectsDisjoint, PTL DEF I
<1>2. ASSUME I, ControlInv, [CompileStep]_compileVars PROVE ControlInv'
  BY <1>2, ControlStep
<1>3. CodegenInit /\ PlainProgram => ControlInv
  BY ControlInit
<1> QED BY <1>1, <1>2, <1>3, PTL DEF CompileSpec
-----------------------------------------------------------------------------
(* What laid out code does to the registers and words of its activation.   *)

(* The instructions before the body of a procedure and around its returns. *)
Regions(b, l) ==
    /\ \A p \in 1 .. l.pre + l.saves :
         /\ p \in DOMAIN b
         /\ \/ b[p].op = "SW"
            \/ p = 1 /\ l.pre = 1 /\ IsAdjustment(b[p], -l.size)
    /\ \A p \in DOMAIN b : IsReturn(b[p]) =>
         \A q \in DOMAIN b : p - (l.post + l.saves) <= q /\ q < p =>
           \/ q = p - 1 /\ l.post = 1 /\ IsAdjustment(b[q], l.size)
           \/ \E k \in 1 .. l.saves : q = (p - l.post) - k /\ b[q].op = "LW"

(* What laid out code has in front of its body and before its returns.     *)
LEMMA RegionsLemma ==
    ASSUME NEW b, NEW l, NEW fns, LaidOut(b, l, fns)
    PROVE  /\ DOMAIN b = 1 .. Len(b) /\ Len(b) \in Nat /\ 1 \in DOMAIN b
           /\ l.size \in Nat /\ l.pre \in {0, 1} /\ l.post \in {0, 1}
           /\ l.saves \in Nat
           /\ l.saves # 0 => l.size # 0
           /\ l.size # 0 => l.pre = 1 /\ l.post = 1
           /\ \A p \in DOMAIN b : b[p] \in MCInst
           /\ Regions(b, l)
<1>1. /\ b \in Seq(MCInst) /\ l \in Frame /\ b # <<>>
      /\ SavesFirst(b, l) /\ RestoresLast(b, l) /\ MovesSP(b, l)
  BY DEF LaidOut
<1>2. DOMAIN b = 1 .. Len(b) /\ Len(b) \in Nat /\ 1 \in DOMAIN b
  BY <1>1
<1>3. /\ l.size \in Nat /\ l.pre \in {0, 1} /\ l.post \in {0, 1}
      /\ l.saves \in Nat
  BY <1>1 DEF Frame
<1>4. \A p \in DOMAIN b : b[p] \in MCInst
  BY <1>1
<1>5. ASSUME l.saves # 0 PROVE l.size # 0
  <2>1. 1 \in 1 .. l.saves
    BY <1>3, <1>5
  <2>2. 0 <= Slot(b, l, 1) /\ Slot(b, l, 1) < l.size
    BY <1>1, <2>1 DEF SavesFirst
  <2>3. l.pre + 1 \in DOMAIN b
    BY <1>1, <1>2, <1>3, <2>1 DEF SavesFirst
  <2>4. Slot(b, l, 1) \in Int
    BY <1>4, <2>3 DEF Slot, MCInst
  <2> QED BY <2>2, <2>4
<1>6. l.size # 0 => l.pre = 1 /\ l.post = 1
  BY <1>1 DEF MovesSP
<1>7. ASSUME NEW p \in 1 .. l.pre + l.saves
      PROVE  /\ p \in DOMAIN b
             /\ \/ b[p].op = "SW"
                \/ p = 1 /\ l.pre = 1 /\ IsAdjustment(b[p], -l.size)
  <2>1. p \in DOMAIN b
    BY <1>1, <1>2, <1>3 DEF SavesFirst
  <2>2. CASE p <= l.pre
    <3>1. p = 1 /\ l.pre = 1
      BY <1>3, <2>2
    <3> QED BY <1>1, <2>1, <3>1 DEF MovesSP
  <2>3. CASE p > l.pre
    <3>1. p - l.pre \in 1 .. l.saves /\ l.pre + (p - l.pre) = p
      BY <1>3, <2>3
    <3> QED BY <1>1, <2>1, <3>1 DEF SavesFirst
  <2> QED BY <1>3, <2>2, <2>3
<1>8. ASSUME NEW p \in DOMAIN b, IsReturn(b[p]), NEW q \in DOMAIN b,
             p - (l.post + l.saves) <= q, q < p
      PROVE  \/ q = p - 1 /\ l.post = 1 /\ IsAdjustment(b[q], l.size)
             \/ \E k \in 1 .. l.saves : q = (p - l.post) - k /\ b[q].op = "LW"
  <2>1. p \in Nat /\ q \in Nat
    BY <1>2
  <2>2. CASE q = p - 1 /\ l.post = 1
    BY <1>1, <1>8, <2>2 DEF MovesSP
  <2>3. CASE ~(q = p - 1 /\ l.post = 1)
    <3>1. /\ (p - l.post) - q \in 1 .. l.saves
          /\ q = (p - l.post) - ((p - l.post) - q)
      BY <1>3, <1>8, <2>1, <2>3
    <3>2. PICK k \in 1 .. l.saves : q = (p - l.post) - k
      BY <3>1
    <3> QED BY <1>1, <1>8, <3>2 DEF RestoresLast
  <2> QED BY <2>2, <2>3
<1>9. Regions(b, l)
  BY <1>7, <1>8 DEF Regions
<1> QED BY <1>2, <1>3, <1>4, <1>5, <1>6, <1>9

(* Unless the prologue or a return is next, SP is below its value at the   *)
(* entry by the size of the frame.                                         *)
LEMMA LoweredLemma ==
    ASSUME NEW b, NEW l, NEW fns, LaidOut(b, l, fns), NEW i \in DOMAIN b,
           b[i].op \notin {"ADDI", "PseudoRET"}
    PROVE  Lowered(b, l, i) = l.size
<1>1. /\ l.size # 0 => l.pre = 1 /\ l.post = 1 /\ MovesSP(b, l)
  BY RegionsLemma DEF LaidOut
<1>2. l.size # 0 => i # 1
  BY <1>1 DEF MovesSP, IsAdjustment
<1> QED BY <1>2 DEF Lowered, IsReturn

(* Nor are these in the saves, except stores, or before a return, except   *)
(* loads.                                                                  *)
LEMMA BodyLemma ==
    ASSUME NEW b, NEW l, NEW fns, LaidOut(b, l, fns), NEW i \in DOMAIN b,
           b[i].op \notin {"ADDI", "SW"}
    PROVE  /\ i > l.pre + l.saves
           /\ \A k \in 1 .. l.saves : l.pre + k < i
           /\ b[i].op # "LW" => \A p \in DOMAIN b : IsReturn(b[p]) =>
                ~(p - (l.post + l.saves) <= i /\ i < p)
<1>1. /\ DOMAIN b = 1 .. Len(b) /\ Len(b) \in Nat /\ Regions(b, l)
      /\ l.pre \in {0, 1} /\ l.saves \in Nat
  BY RegionsLemma
<1>2. i \notin 1 .. l.pre + l.saves
  BY <1>1 DEF Regions, IsAdjustment
<1>3. i > l.pre + l.saves
  BY <1>1, <1>2
<1>4. b[i].op # "LW" => \A p \in DOMAIN b : IsReturn(b[p]) =>
        ~(p - (l.post + l.saves) <= i /\ i < p)
  BY <1>1 DEF Regions, IsAdjustment
<1> QED BY <1>1, <1>3, <1>4

(* SP, the return address and x0 among the registers.                      *)
LEMMA PreservedLemma ==
    /\ X2 \in GPR /\ X1 \in GPR /\ X0 \in GPR /\ X1 \in CSR_RV32I
    /\ X2 \notin CSR_RV32I /\ X0 \notin CSR_RV32I /\ CSR_RV32I \subseteq GPR
    /\ PreservedRegs \subseteq GPR /\ X2 \notin PreservedRegs /\ X1 # X2
    /\ X1 \notin PreservedRegs
    /\ \A r \in CSR_RV32I : r = X1 \/ r \in PreservedRegs
<1> DEFINE s == [k \in 1 .. 10 |-> 17 + k]
           A == GPR \ {X0, X2}
<1>1. <<1, 8, 9>> \in Seq(A) /\ s \in Seq(A) /\ Len(<<1, 8, 9>>) = 3
      /\ <<1, 8, 9>>[1] = 1
  BY DEF X0, X2, GPR
<1>2. CSR_RV32I_SaveList = <<1, 8, 9>> \o s
  BY DEF CSR_RV32I_SaveList
<1> HIDE DEF s, A
<1>3. CSR_RV32I_SaveList \in Seq(A) /\ CSR_RV32I_SaveList[1] = 1
      /\ Len(CSR_RV32I_SaveList) = 3 + Len(s) /\ Len(s) \in Nat
  BY <1>1, <1>2, Concatenation
<1>4. \A k \in DOMAIN CSR_RV32I_SaveList : CSR_RV32I_SaveList[k] \in A
  BY <1>3
<1>5. CSR_RV32I \subseteq A
  BY <1>4 DEF CSR_RV32I
<1>6. X1 \in CSR_RV32I
  <2>1. 1 \in DOMAIN CSR_RV32I_SaveList
    BY <1>3
  <2> QED BY <1>3, <2>1 DEF CSR_RV32I, X1
<1>7. X2 \in GPR /\ X1 \in GPR /\ X0 \in GPR /\ X1 # X2
  BY DEF X2, X1, X0, GPR
<1> QED BY <1>5, <1>6, <1>7 DEF A, PreservedRegs

(* What an instruction that neither jumps, calls nor returns makes of the  *)
(* registers, and which words of its procedure it leaves or saves.         *)
Falls(b, i, rs, m, rs2) ==
    /\ \A x \in GPR : x # b[i].rd => rs2[x] = rs[x]
    /\ \A n \in Int : IsAdjustment(b[i], n) => rs2[X2] = rs[X2] + n
    /\ b[i].op = "LW" /\ b[i].rs1 = X2 /\ b[i].rd \in CSR_RV32I =>
         rs2[b[i].rd] = m[rs[X2] + b[i].imm]
    /\ b[i].op = "SW" => \A x \in GPR : rs2[x] = rs[x]

KeepsWords(b, l, i, a, m, m2) ==
    \A k \in 1 .. l.saves :
      /\ l.pre + k < i => m2[Word(b, l, a, k)] = m[Word(b, l, a, k)]
      /\ l.pre + k = i => Holds(b, l, a, m2, k)

(* SP changes between the body and the rest by the size of the frame.      *)
LEMMA LoweredNext ==
    ASSUME NEW b, NEW l, NEW fns, LaidOut(b, l, fns),
           NEW i \in DOMAIN b, i + 1 \in DOMAIN b, ~IsReturn(b[i]),
           NEW a, a.sp \in Int, NEW rs, NEW m, NEW rs2, Falls(b, i, rs, m, rs2),
           rs[X2] = a.sp - Lowered(b, l, i)
    PROVE  rs2[X2] = a.sp - Lowered(b, l, i + 1)
<1>1. /\ DOMAIN b = 1 .. Len(b) /\ Len(b) \in Nat /\ l.size \in Nat
      /\ l.size # 0 => l.pre = 1 /\ l.post = 1
      /\ l.pre \in {0, 1} /\ l.post \in {0, 1} /\ MovesSP(b, l)
  BY RegionsLemma DEF LaidOut
<1>2. i \in Nat /\ i >= 1 /\ i + 1 # 1
  BY <1>1
<1>3. X2 \in GPR
  BY PreservedLemma
<1>4. ASSUME b[i].rd # X2 PROVE rs2[X2] = rs[X2]
  BY <1>3, <1>4 DEF Falls
<1>5. ASSUME NEW n \in Int, IsAdjustment(b[i], n) PROVE rs2[X2] = rs[X2] + n
  BY <1>5 DEF Falls
<1>6. l.post = 1 /\ IsReturn(b[i + 1]) => IsAdjustment(b[i], l.size)
  <2>1. (i + 1) - 1 = i
    BY <1>2
  <2> QED BY <1>1, <2>1 DEF MovesSP
<1>7. l.pre = 1 /\ i = 1 => IsAdjustment(b[i], -l.size)
  BY <1>1 DEF MovesSP
<1>8. b[i].rd = X2 => \/ l.pre = 1 /\ i = 1
                      \/ l.post = 1 /\ IsReturn(b[i + 1])
  BY <1>1 DEF MovesSP
<1>9. \A n : IsAdjustment(b[i], n) => b[i].rd = X2 /\ b[i].imm = n
  BY DEF IsAdjustment
<1>10. CASE l.size = 0
  <2>1. rs2[X2] = rs[X2] \/ rs2[X2] = rs[X2] + 0
    <3>1. b[i].rd = X2 => IsAdjustment(b[i], 0)
      <4>1. PICK n \in Int : n = -l.size
        BY <1>1
      <4>2. l.size <= 0
        BY <1>10
      <4>3. n >= 0 /\ n <= 0
        BY <1>1, <4>1, <4>2
      <4>4. n = 0
        BY <4>3
      <4> QED BY <1>6, <1>7, <1>8, <1>10, <4>1, <4>4
    <3> QED BY <1>4, <1>5, <3>1
  <2>2. Lowered(b, l, i) = 0 /\ Lowered(b, l, i + 1) = 0
    BY <1>10 DEF Lowered
  <2> QED BY <2>1, <2>2
<1>11. CASE l.size # 0
  <2>1. l.pre = 1 /\ l.post = 1
    BY <1>1, <1>11
  <2>2. CASE i = 1
    <3>1. ~IsReturn(b[i + 1])
      <4>1. -l.size # l.size
        BY <1>1, <1>11
      <4> QED BY <1>6, <1>7, <1>9, <2>1, <2>2, <4>1
    <3>2. rs2[X2] = rs[X2] + (-l.size)
      BY <1>1, <1>5, <1>7, <2>1, <2>2
    <3>3. Lowered(b, l, i) = 0 /\ Lowered(b, l, i + 1) = l.size
      BY <1>2, <1>11, <2>2, <3>1 DEF Lowered
    <3> QED BY <1>1, <3>2, <3>3
  <2>3. CASE i # 1 /\ IsReturn(b[i + 1])
    <3>1. rs2[X2] = rs[X2] + l.size
      BY <1>1, <1>5, <1>6, <2>1, <2>3
    <3>2. Lowered(b, l, i) = l.size /\ Lowered(b, l, i + 1) = 0
      BY <1>11, <2>3 DEF Lowered
    <3> QED BY <1>1, <3>1, <3>2
  <2>4. CASE i # 1 /\ ~IsReturn(b[i + 1])
    <3>1. rs2[X2] = rs[X2]
      BY <1>4, <1>8, <2>4
    <3>2. Lowered(b, l, i) = Lowered(b, l, i + 1)
      BY <1>2, <2>4 DEF Lowered
    <3> QED BY <3>1, <3>2
  <2> QED BY <2>2, <2>3, <2>4
<1> QED BY <1>10, <1>11

(* Differences of multiples of the stack alignment.                        *)
LEMMA AlignedDifference ==
    ASSUME NEW x \in Int, NEW y \in Int, x % StackAlign = 0, y % StackAlign = 0
    PROVE  (x - y) % StackAlign = 0
BY DEF StackAlign

(* A store relative to SP goes into the frame, to a word that keeps no     *)
(* register unless it is the save of that register.                        *)
LEMMA StoreLemma ==
    ASSUME NEW b, NEW l, NEW fns, LaidOut(b, l, fns), NEW i \in DOMAIN b,
           b[i].op = "SW", b[i].rs1 = X2, NEW a, a.sp \in Int,
           NEW x, x = (a.sp - Lowered(b, l, i)) + b[i].imm
    PROVE  /\ x \in Int /\ a.sp - l.size <= x /\ x < a.sp
           /\ \A k \in 1 .. l.saves : x = Word(b, l, a, k) => i = l.pre + k
           /\ \A k \in 1 .. l.saves : i = l.pre + k => x = Word(b, l, a, k)
<1>1. /\ DOMAIN b = 1 .. Len(b) /\ Len(b) \in Nat /\ l.size \in Nat
      /\ l.pre \in {0, 1} /\ l.saves \in Nat /\ Regions(b, l)
      /\ SavesFirst(b, l) /\ StoresInside(b, l) /\ b[i] \in MCInst
  BY RegionsLemma DEF LaidOut
<1>2. b[i].imm \in Int /\ Lowered(b, l, i) = l.size
  BY <1>1, LoweredLemma DEF MCInst
<1>3. x = (a.sp - l.size) + b[i].imm
  BY <1>2
<1>4. CASE i \in l.pre + 1 .. l.pre + l.saves
  <2>1. PICK k \in 1 .. l.saves : i = l.pre + k
    <3>1. i - l.pre \in 1 .. l.saves /\ i = l.pre + (i - l.pre)
      BY <1>1, <1>4
    <3> QED BY <3>1
  <2>2. /\ 0 <= Slot(b, l, k) /\ Slot(b, l, k) < l.size
        /\ \A j \in 1 .. l.saves : j # k => Slot(b, l, j) # Slot(b, l, k)
    BY <1>1, <2>1 DEF SavesFirst
  <2>3. Slot(b, l, k) = b[i].imm
    BY <2>1 DEF Slot
  <2>4. \A j \in 1 .. l.saves : i = l.pre + j => j = k
    BY <1>1, <2>1
  <2>5. x = Word(b, l, a, k)
    BY <1>3, <2>3 DEF Word
  <2>6. ASSUME NEW j \in 1 .. l.saves, j # k PROVE x # Word(b, l, a, j)
    <3>1. l.pre + j \in DOMAIN b
      BY <1>1 DEF Regions
    <3>2. b[l.pre + j] \in MCInst
      BY <3>1, RegionsLemma
    <3>3. Slot(b, l, j) \in Int
      BY <3>2 DEF Slot, MCInst
    <3>4. Slot(b, l, j) # b[i].imm
      BY <2>2, <2>3, <2>6
    <3> DEFINE u == a.sp - l.size
               v == Slot(b, l, j)
               w == b[i].imm
    <3>5. x = u + w /\ Word(b, l, a, j) = u + v
      BY <1>3 DEF Word
    <3>6. u \in Int /\ v \in Int /\ w \in Int /\ v # w
      BY <1>1, <1>2, <3>3, <3>4
    <3> HIDE DEF u, v, w
    <3> QED BY <3>5, <3>6
  <2>7. x \in Int /\ a.sp - l.size <= x /\ x < a.sp
    BY <1>1, <1>2, <1>3, <2>2, <2>3
  <2> HIDE DEF Word
  <2> QED BY <2>1, <2>4, <2>5, <2>6, <2>7
<1>5. CASE i \notin l.pre + 1 .. l.pre + l.saves
  <2>1. /\ 0 <= b[i].imm /\ b[i].imm < l.size
        /\ \A k \in 1 .. l.saves : b[i].imm # Slot(b, l, k)
    BY <1>1, <1>5 DEF StoresInside
  <2>2. ASSUME NEW k \in 1 .. l.saves
        PROVE  x # Word(b, l, a, k) /\ i # l.pre + k
    <3>1. l.pre + k \in DOMAIN b
      BY <1>1 DEF Regions
    <3>2. b[l.pre + k] \in MCInst
      BY <3>1, RegionsLemma
    <3>3. Slot(b, l, k) \in Int
      BY <3>2 DEF Slot, MCInst
    <3>4. i # l.pre + k
      BY <1>1, <1>5
    <3> QED BY <1>1, <1>2, <1>3, <2>1, <3>3, <3>4 DEF Word
  <2> QED BY <1>1, <1>2, <1>3, <2>1, <2>2
<1> QED BY <1>4, <1>5

(* The last loads before a return leave every register as it was entered.  *)
LEMMA RestoredNext ==
    ASSUME NEW b, NEW l, NEW fns, LaidOut(b, l, fns),
           NEW i \in DOMAIN b, i + 1 \in DOMAIN b, ~IsReturn(b[i]),
           NEW a, NEW rs, NEW m, NEW rs2, Falls(b, i, rs, m, rs2),
           Active(b, l, i, a, rs, m)
    PROVE  Restored(b, l, i + 1, a, rs2)
<1>1. /\ DOMAIN b = 1 .. Len(b) /\ Len(b) \in Nat /\ l.size \in Nat
      /\ l.pre \in {0, 1} /\ l.post \in {0, 1} /\ l.saves \in Nat
      /\ l.saves # 0 => l.size # 0
      /\ Regions(b, l) /\ RestoresLast(b, l) /\ SavesFirst(b, l)
  BY RegionsLemma DEF LaidOut
<1>2. SUFFICES ASSUME NEW p \in DOMAIN b, IsReturn(b[p]), NEW k \in 1 .. l.saves,
                      (p - l.post) - k < i + 1, i + 1 <= p
               PROVE  rs2[SaveReg(b, l, k)] = EntryVal(a, SaveReg(b, l, k))
  BY DEF Restored
<1>3. p \in Nat /\ i \in Nat /\ i < p /\ k \in Nat /\ 1 <= k /\ k <= l.saves
  BY <1>1, <1>2
<1>4. SaveReg(b, l, k) \in CSR_RV32I
  BY <1>1 DEF SavesFirst
<1>5. SaveReg(b, l, k) \in GPR /\ SaveReg(b, l, k) # X2
  BY <1>4, PreservedLemma
<1>6. \/ i = p - 1 /\ l.post = 1 /\ IsAdjustment(b[i], l.size)
      \/ \E j \in 1 .. l.saves : i = (p - l.post) - j /\ b[i].op = "LW"
  <2>1. p - (l.post + l.saves) <= i
    BY <1>1, <1>2, <1>3
  <2> QED BY <1>1, <1>2, <1>3, <2>1 DEF Regions
<1>7. CASE i = p - 1 /\ l.post = 1 /\ IsAdjustment(b[i], l.size)
  <2>1. rs2[SaveReg(b, l, k)] = rs[SaveReg(b, l, k)]
    BY <1>5, <1>7 DEF Falls, IsAdjustment
  <2>2. (p - l.post) - k < i /\ i <= p
    BY <1>1, <1>3, <1>7
  <2> QED BY <1>2, <2>1, <2>2 DEF Active, Restored
<1>8. ASSUME NEW j \in 1 .. l.saves, i = (p - l.post) - j, b[i].op = "LW"
      PROVE  rs2[SaveReg(b, l, k)] = EntryVal(a, SaveReg(b, l, k))
  <2>1. /\ b[i].rd = SaveReg(b, l, j) /\ b[i].rs1 = X2
        /\ b[i].imm = Slot(b, l, j)
    BY <1>1, <1>2, <1>8 DEF RestoresLast
  <2>2. SaveReg(b, l, j) \in CSR_RV32I
    BY <1>1 DEF SavesFirst
  <2>3. rs2[SaveReg(b, l, j)] = EntryVal(a, SaveReg(b, l, j))
    <3>1. rs2[SaveReg(b, l, j)] = m[rs[X2] + Slot(b, l, j)]
      BY <1>8, <2>1, <2>2 DEF Falls
    <3>2. rs[X2] = a.sp - l.size
      <4>1. Lowered(b, l, i) = l.size
        BY <1>8, LoweredLemma
      <4> QED BY <4>1 DEF Active
    <3>3. Holds(b, l, a, m, j)
      <4>1. l.pre + j < i
        BY <1>8, BodyLemma
      <4> QED BY <4>1 DEF Active
    <3> QED BY <3>1, <3>2, <3>3 DEF Holds, Word
  <2>4. CASE SaveReg(b, l, k) = SaveReg(b, l, j)
    BY <2>3, <2>4
  <2>5. CASE SaveReg(b, l, k) # SaveReg(b, l, j)
    <3>1. rs2[SaveReg(b, l, k)] = rs[SaveReg(b, l, k)]
      BY <1>5, <2>1, <2>5 DEF Falls
    <3>2. (p - l.post) - k < i /\ i <= p
      <4>1. j # k
        BY <2>5
      <4> QED BY <1>1, <1>2, <1>3, <1>8, <4>1
    <3> QED BY <1>2, <3>1, <3>2 DEF Active, Restored
  <2> QED BY <2>4, <2>5
<1> QED BY <1>6, <1>7, <1>8

(* An instruction that control falls through keeps the activation in order. *)
LEMMA ActiveNext ==
    ASSUME NEW b, NEW l, NEW fns, LaidOut(b, l, fns),
           NEW i \in DOMAIN b, i + 1 \in DOMAIN b,
           b[i].op \notin {"PseudoCALL", "PseudoRET"},
           NEW a, a.sp \in Int, NEW rs, NEW m, NEW rs2, NEW m2,
           Falls(b, i, rs, m, rs2), KeepsWords(b, l, i, a, m, m2),
           Active(b, l, i, a, rs, m)
    PROVE  Active(b, l, i + 1, a, rs2, m2)
<1>1. /\ DOMAIN b = 1 .. Len(b) /\ Len(b) \in Nat /\ l.size \in Nat
      /\ l.pre \in {0, 1} /\ l.saves \in Nat
      /\ Regions(b, l) /\ ClobbersKept(b, l)
  BY RegionsLemma DEF LaidOut
<1>2. ~IsReturn(b[i])
  BY DEF IsReturn
<1>3. rs2[X2] = a.sp - Lowered(b, l, i + 1)
  BY <1>2, LoweredNext DEF Active
<1>4. ASSUME NEW k \in 1 .. l.saves, l.pre + k < i + 1
      PROVE  Holds(b, l, a, m2, k)
  <2>1. CASE l.pre + k < i
    <3>1. Holds(b, l, a, m, k) /\ m2[Word(b, l, a, k)] = m[Word(b, l, a, k)]
      BY <2>1 DEF Active, KeepsWords
    <3> QED BY <3>1 DEF Holds
  <2>2. CASE l.pre + k = i
    BY <2>2 DEF KeepsWords
  <2> QED BY <1>1, <1>4, <2>1, <2>2
<1>5. ASSUME NEW r \in CSR_RV32I, r \notin Kept(b, l)
      PROVE  rs2[r] = EntryVal(a, r)
  <2>1. Clobbers(b[i]) = {b[i].rd}
    BY DEF Clobbers
  <2>2. r # b[i].rd
    BY <1>1, <1>5, <2>1 DEF ClobbersKept
  <2>3. r \in GPR
    BY PreservedLemma
  <2> QED BY <1>5, <2>2, <2>3 DEF Active, Falls
<1>6. ASSUME i + 1 <= l.pre + l.saves, NEW r \in CSR_RV32I
      PROVE  rs2[r] = EntryVal(a, r)
  <2>1. i \in 1 .. l.pre + l.saves
    BY <1>1, <1>6
  <2>2. b[i].op = "SW" \/ b[i].rd = X2
    BY <1>1, <2>1 DEF Regions, IsAdjustment
  <2>3. r \in GPR /\ r # X2
    BY PreservedLemma
  <2>4. rs2[r] = rs[r]
    BY <2>2, <2>3 DEF Falls
  <2>5. rs[r] = EntryVal(a, r)
    BY <2>1 DEF Active
  <2> QED BY <2>4, <2>5
<1>7. Restored(b, l, i + 1, a, rs2)
  BY <1>2, RestoredNext
<1> QED BY <1>3, <1>4, <1>5, <1>6, <1>7 DEF Active

(* So does a jump.                                                         *)
LEMMA ActiveJump ==
    ASSUME NEW b, NEW l, NEW fns, LaidOut(b, l, fns),
           NEW i \in DOMAIN b, IsJump(b[i]), NEW a, NEW rs, NEW m,
           Active(b, l, i, a, rs, m)
    PROVE  b[i].sym \in DOMAIN b /\ Active(b, l, b[i].sym, a, rs, m)
<1> DEFINE t == b[i].sym
<1>1. /\ DOMAIN b = 1 .. Len(b) /\ Len(b) \in Nat /\ l.size \in Nat
      /\ l.size # 0 => l.pre = 1 /\ l.post = 1
      /\ l.pre \in {0, 1} /\ l.post \in {0, 1} /\ l.saves \in Nat
      /\ JumpsBetween(b, l)
  BY RegionsLemma DEF LaidOut
<1>2. /\ t \in DOMAIN b /\ t > l.pre + l.saves
      /\ \A r \in DOMAIN b : IsReturn(b[r]) =>
           ~(r - (l.post + l.saves) < t /\ t <= r)
  BY <1>1 DEF JumpsBetween
<1> HIDE DEF t
<1>3. b[i].op \notin {"ADDI", "SW", "LW", "PseudoCALL", "PseudoRET"}
  BY JumpOpLemma DEF IsJump
<1>4. rs[X2] = a.sp - l.size /\ \A k \in 1 .. l.saves : Holds(b, l, a, m, k)
  BY <1>3, LoweredLemma, BodyLemma DEF Active
<1>5. Lowered(b, l, t) = l.size
  <2>1. ASSUME l.size # 0 PROVE t # 1 /\ ~IsReturn(b[t])
    <3>1. l.pre = 1 /\ l.post = 1
      BY <1>1, <2>1
    <3>2. t # 1
      BY <1>1, <1>2, <3>1
    <3>3. ASSUME IsReturn(b[t]) PROVE FALSE
      <4>1. t - (l.post + l.saves) < t /\ t <= t
        BY <1>1, <1>2, <3>1
      <4> QED BY <1>2, <3>3, <4>1
    <3> QED BY <3>2, <3>3
  <2> QED BY <2>1 DEF Lowered
<1>6. Restored(b, l, t, a, rs)
  <2>1. SUFFICES ASSUME NEW p \in DOMAIN b, IsReturn(b[p]),
                        NEW k \in 1 .. l.saves, (p - l.post) - k < t, t <= p
                 PROVE  FALSE
    BY DEF Restored
  <2>2. p - (l.post + l.saves) < t
    BY <1>1, <1>2, <2>1
  <2> QED BY <1>2, <2>1, <2>2
<1>7. ~(t <= l.pre + l.saves)
  BY <1>1, <1>2
<1>8. \A r \in CSR_RV32I : r \notin Kept(b, l) => rs[r] = EntryVal(a, r)
  BY DEF Active
<1>9. Active(b, l, t, a, rs, m)
  BY <1>4, <1>5, <1>6, <1>7, <1>8 DEF Active
<1> QED BY <1>2, <1>9 DEF t

(* A procedure that starts finds everything as it is entered.              *)
LEMMA ActiveEntry ==
    ASSUME NEW b, NEW l, NEW fns, LaidOut(b, l, fns), NEW a, NEW rs, NEW m,
           a.sp \in Int, rs[X2] = a.sp, \A r \in CSR_RV32I : rs[r] = EntryVal(a, r)
    PROVE  Active(b, l, 1, a, rs, m)
<1>1. /\ DOMAIN b = 1 .. Len(b) /\ Len(b) \in Nat /\ RestoresLast(b, l)
      /\ l.pre \in {0, 1} /\ l.saves \in Nat
  BY RegionsLemma DEF LaidOut
<1>2. Restored(b, l, 1, a, rs)
  <2>1. SUFFICES ASSUME NEW p \in DOMAIN b, IsReturn(b[p]),
                        NEW k \in 1 .. l.saves, (p - l.post) - k < 1
                 PROVE  FALSE
    BY DEF Restored
  <2>2. (p - l.post) - k \in DOMAIN b
    BY <1>1, <2>1 DEF RestoresLast
  <2> QED BY <1>1, <2>1, <2>2
<1>3. \A k \in 1 .. l.saves : ~(l.pre + k < 1)
  BY <1>1
<1>4. rs[X2] = a.sp - Lowered(b, l, 1)
  BY DEF Lowered
<1> QED BY <1>2, <1>3, <1>4 DEF Active

(* A procedure that is about to call has SP below its frame and every      *)
(* register of CSR_RV32I kept, in its word or untouched.                   *)
LEMMA CallSuspends ==
    ASSUME NEW b, NEW l, NEW fns, LaidOut(b, l, fns),
           NEW i \in DOMAIN b, b[i].op = "PseudoCALL", NEW a, NEW rs, NEW m,
           Active(b, l, i, a, rs, m)
    PROVE  /\ rs[X2] = a.sp - l.size
           /\ \A k \in 1 .. l.saves : Holds(b, l, a, m, k)
           /\ \A r \in PreservedRegs : r \notin Kept(b, l) => rs[r] = EntryVal(a, r)
           /\ b[i].sym \in fns /\ l.size % StackAlign = 0 /\ l.size \in Nat
           /\ i + 1 \in DOMAIN b
<1>1. rs[X2] = a.sp - l.size /\ \A k \in 1 .. l.saves : Holds(b, l, a, m, k)
  BY LoweredLemma, BodyLemma DEF Active
<1>2. \A r \in PreservedRegs : r \notin Kept(b, l) => rs[r] = EntryVal(a, r)
  BY DEF Active, PreservedRegs
<1>3. b[i].sym \in fns /\ l.size % StackAlign = 0
  BY DEF LaidOut, OperandsFit
<1>4. /\ DOMAIN b = 1 .. Len(b) /\ Len(b) \in Nat /\ l.size \in Nat
      /\ EndsBlock(b[Len(b)])
  BY RegionsLemma DEF LaidOut
<1>5. i # Len(b)
  BY <1>4 DEF EndsBlock
<1> QED BY <1>1, <1>2, <1>3, <1>4, <1>5

(* A return finds SP and every register of CSR_RV32I as they were when the *)
(* procedure was entered.                                                  *)
LEMMA ReturnRestores ==
    ASSUME NEW b, NEW l, NEW fns, LaidOut(b, l, fns),
           NEW i \in DOMAIN b, IsReturn(b[i]), NEW a, NEW rs, NEW m,
           a.sp \in Int, Active(b, l, i, a, rs, m)
    PROVE  rs[X2] = a.sp /\ \A r \in CSR_RV32I : rs[r] = EntryVal(a, r)
<1>1. /\ DOMAIN b = 1 .. Len(b) /\ Len(b) \in Nat
      /\ l.post \in {0, 1} /\ l.saves \in Nat
  BY RegionsLemma DEF LaidOut
<1>2. rs[X2] = a.sp
  BY DEF Active, Lowered
<1>3. ASSUME NEW k \in 1 .. l.saves
      PROVE  rs[SaveReg(b, l, k)] = EntryVal(a, SaveReg(b, l, k))
  <2>1. (i - l.post) - k < i /\ i <= i
    BY <1>1
  <2> QED BY <2>1 DEF Active, Restored
<1>4. ASSUME NEW r \in CSR_RV32I PROVE rs[r] = EntryVal(a, r)
  <2>1. CASE r \in Kept(b, l)
    BY <1>3, <2>1 DEF Kept
  <2>2. CASE r \notin Kept(b, l)
    BY <2>2 DEF Active
  <2> QED BY <2>1, <2>2
<1> QED BY <1>2, <1>4

(* When a callee returns so, its caller goes on after the call.            *)
LEMMA ActiveReturned ==
    ASSUME NEW b, NEW l, NEW fns, LaidOut(b, l, fns), NEW c, NEW d, NEW rs, NEW m,
           Suspended(b, l, c, d, m), rs[X2] = d.sp,
           \A r \in PreservedRegs : rs[r] = d.saved[r],
           NEW q \in DOMAIN b, b[q].op = "PseudoCALL"
    PROVE  q + 1 \in DOMAIN b /\ Active(b, l, q + 1, c, rs, m)
<1>1. /\ DOMAIN b = 1 .. Len(b) /\ Len(b) \in Nat /\ l.size \in Nat
      /\ l.size # 0 => l.pre = 1 /\ l.post = 1
      /\ l.pre \in {0, 1} /\ l.post \in {0, 1} /\ l.saves \in Nat
      /\ EndsBlock(b[Len(b)]) /\ ClobbersKept(b, l) /\ Regions(b, l)
  BY RegionsLemma DEF LaidOut
<1>2. q # Len(b)
  BY <1>1 DEF EndsBlock
<1>3. q + 1 \in DOMAIN b /\ q \in Nat /\ q >= 1 /\ q + 1 # 1
  BY <1>1, <1>2
<1>4. /\ q > l.pre + l.saves
      /\ \A p \in DOMAIN b : IsReturn(b[p]) =>
           ~(p - (l.post + l.saves) <= q /\ q < p)
  BY BodyLemma
<1>5. Lowered(b, l, q + 1) = l.size
  <2>1. ASSUME l.size # 0, IsReturn(b[q + 1]) PROVE FALSE
    <3>1. (q + 1) - (l.post + l.saves) <= q /\ q < q + 1
      BY <1>1, <1>3, <2>1
    <3> QED BY <1>3, <1>4, <2>1, <3>1
  <2> QED BY <1>3, <2>1 DEF Lowered
<1>6. rs[X2] = c.sp - Lowered(b, l, q + 1)
  BY <1>5 DEF Suspended
<1>7. ASSUME NEW r \in CSR_RV32I, r \notin Kept(b, l)
      PROVE  rs[r] = EntryVal(c, r)
  <2>1. X1 \in Clobbers(b[q]) \cap CSR_RV32I
    BY PreservedLemma DEF Clobbers
  <2>2. r # X1
    BY <1>1, <1>7, <2>1 DEF ClobbersKept
  <2>3. r \in PreservedRegs
    BY <2>2, PreservedLemma
  <2> QED BY <1>7, <2>3 DEF Suspended
<1>8. Restored(b, l, q + 1, c, rs)
  <2>1. SUFFICES ASSUME NEW p \in DOMAIN b, IsReturn(b[p]),
                        NEW k \in 1 .. l.saves,
                        (p - l.post) - k < q + 1, q + 1 <= p
                 PROVE  FALSE
    BY DEF Restored
  <2>2. p - (l.post + l.saves) <= q /\ q < p
    BY <1>1, <1>3, <2>1
  <2> QED BY <1>4, <2>1, <2>2
<1>9. ~(q + 1 <= l.pre + l.saves)
  BY <1>1, <1>3, <1>4
<1>10. \A k \in 1 .. l.saves : Holds(b, l, c, m, k)
  BY DEF Suspended
<1> QED BY <1>3, <1>6, <1>7, <1>8, <1>9, <1>10 DEF Active

(* A store to no word that keeps a register, or the save of one.           *)
LEMMA StoreKeeps ==
    ASSUME NEW b, NEW l, NEW fns, LaidOut(b, l, fns),
           NEW i \in DOMAIN b, b[i].op = "SW", NEW a, a.sp \in Int,
           NEW rs \in [GPR -> Int], NEW m \in [Addresses -> Int],
           Active(b, l, i, a, rs, m),
           NEW x \in Addresses, x = rs[b[i].rs1] + b[i].imm,
           b[i].rs1 # X2 => \A k \in 1 .. l.saves : x # Word(b, l, a, k)
    PROVE  KeepsWords(b, l, i, a, m, [m EXCEPT ![x] = rs[b[i].rs2]])
<1> DEFINE m2 == [m EXCEPT ![x] = rs[b[i].rs2]]
<1>1. /\ DOMAIN b = 1 .. Len(b) /\ Len(b) \in Nat
      /\ l.pre \in {0, 1} /\ l.saves \in Nat /\ SavesFirst(b, l)
  BY RegionsLemma DEF LaidOut
<1>2. \A y \in Addresses : y # x => m2[y] = m[y]
  OBVIOUS
<1>3. m2[x] = rs[b[i].rs2]
  OBVIOUS
<1> HIDE DEF m2
<1>4. b[i].rs1 = X2 => x = (a.sp - Lowered(b, l, i)) + b[i].imm
  BY DEF Active
<1>5. ASSUME NEW k \in 1 .. l.saves, l.pre + k < i
      PROVE  m2[Word(b, l, a, k)] = m[Word(b, l, a, k)]
  <2>1. x # Word(b, l, a, k)
    <3>1. i # l.pre + k
      BY <1>1, <1>5
    <3> QED BY <1>4, <3>1, StoreLemma
  <2>2. Word(b, l, a, k) \in Addresses
    BY <1>5 DEF Active, Holds
  <2> QED BY <1>2, <2>1, <2>2
<1>6. ASSUME NEW k \in 1 .. l.saves, l.pre + k = i
      PROVE  Holds(b, l, a, m2, k)
  <2>1. b[i].rs1 = X2 /\ b[i].rs2 = SaveReg(b, l, k) /\ SaveReg(b, l, k) \in CSR_RV32I
    BY <1>1, <1>6 DEF SavesFirst, SaveReg
  <2>2. x = Word(b, l, a, k)
    BY <1>4, <1>6, <2>1, StoreLemma
  <2>3. i <= l.pre + l.saves
    BY <1>1, <1>6
  <2>4. rs[SaveReg(b, l, k)] = EntryVal(a, SaveReg(b, l, k))
    BY <2>1, <2>3 DEF Active
  <2> QED BY <1>3, <2>1, <2>2, <2>4 DEF Holds
<1>7. KeepsWords(b, l, i, a, m, m2)
  BY <1>5, <1>6 DEF KeepsWords
<1> QED BY <1>7 DEF m2
-----------------------------------------------------------------------------
(* The steps of the machine.                                               *)

(* The code of every function that is called has a layout.                 *)
LEMMA LayLemma ==
    ASSUME LayoutInv, NEW a, a.fn \in DOMAIN binary
    PROVE  /\ LaidOut(Code(a), Lay(a), DOMAIN prog)
           /\ a.fn \in Nat \ {0} /\ Code(a) \in Seq(MCInst)
<1>1. \E l : LaidOut(Code(a), l, DOMAIN prog)
  BY DEF LayoutInv, Code
<1>2. LaidOut(Code(a), Lay(a), DOMAIN prog)
  BY <1>1, Zenon DEF Lay, LayoutOf
<1>3. a.fn \in Nat \ {0} /\ Code(a) \in Seq(MCInst)
  BY DEF LayoutInv, Code
<1> QED BY <1>2, <1>3

(* An address has the function and the instruction it was made of.         *)
LEMMA PartsOfAddress ==
    ASSUME NEW f \in Nat, NEW x \in Nat, x < FunctionSpace,
           NEW y, y = FunctionSpace * f + x
    PROVE  y \div FunctionSpace = f /\ y % FunctionSpace = x
<1>1. y \in Nat /\ x < 1000 /\ y = 1000 * f + x
  BY DEF FunctionSpace
<1>2. y \div 1000 = f
  BY <1>1
<1>3. y % 1000 = x
  BY <1>1
<1> QED BY <1>2, <1>3 DEF FunctionSpace

(* Addresses are unambiguous.                                              *)
LEMMA AddressLemma ==
    ASSUME CodeFits, binary \in Seq(Seq(MCInst)),
           NEW f \in Nat, f \in DOMAIN binary,
           NEW i \in Nat, i \in DOMAIN binary[f],
           pc = FunctionSpace * f + i
    PROVE  /\ Address[1] = f /\ Fetch = binary[f][i] /\ InCode(pc) /\ pc # Halt
           /\ i + 1 \in DOMAIN binary[f] => NextPC = FunctionSpace * f + (i + 1)
           /\ i + 1 \in Nat
<1>1. /\ f \in Nat \ {0} /\ binary[f] \in Seq(MCInst)
      /\ Len(binary[f]) \in Nat /\ Len(binary[f]) < 1000
      /\ DOMAIN binary[f] = 1 .. Len(binary[f])
  BY DEF CodeFits, FunctionSpace
<1>3. f \in Nat /\ i \in Nat /\ 1 <= i /\ i < FunctionSpace /\ pc = FunctionSpace * f + i
  BY <1>1 DEF FunctionSpace
<1>4. pc \div FunctionSpace = f /\ pc % FunctionSpace = i
  BY <1>3, PartsOfAddress, Zenon
<1>5. Address[1] = f /\ Fetch = binary[f][i] /\ InCode(pc)
  BY <1>4 DEF Address, Fetch, InCode
<1>6. pc # Halt
  BY <1>3 DEF Halt, FunctionSpace
<1>7. ASSUME i + 1 \in DOMAIN binary[f]
      PROVE  NextPC = FunctionSpace * f + (i + 1)
  <2>1. i + 1 \in Nat /\ i + 1 < FunctionSpace
    BY <1>1, <1>7 DEF FunctionSpace
  <2>2. pc + 1 = FunctionSpace * f + (i + 1)
    BY <1>3 DEF FunctionSpace
  <2>3. (pc + 1) \div FunctionSpace = f /\ (pc + 1) % FunctionSpace = i + 1
    BY <1>3, <2>1, <2>2, PartsOfAddress, Zenon
  <2>4. InCode(pc + 1)
    BY <1>7, <2>3 DEF InCode
  <2> QED BY <2>2, <2>4 DEF NextPC, FunctionSpace
<1> QED BY <1>3, <1>5, <1>6, <1>7

(* What is next is an instruction of the procedure on top of the stack.    *)
AtInstruction(i) ==
    /\ i \in DOMAIN Code(Top) /\ i \in Nat
    /\ pc = FunctionSpace * Top.fn + i
    /\ Active(Code(Top), Lay(Top), i, Top, regs, mem)
    /\ LaidOut(Code(Top), Lay(Top), DOMAIN prog)
    /\ Address[1] = Top.fn /\ Fetch = Code(Top)[i] /\ InCode(pc) /\ pc # Halt
    /\ i + 1 \in DOMAIN Code(Top) => NextPC = FunctionSpace * Top.fn + (i + 1)
    /\ Top.sp \in Int /\ Top.sp % StackAlign = 0 /\ Top.fn \in DOMAIN binary
    /\ Len(shadow) \in Nat \ {0} /\ Top = Last(shadow)

(* The inductive invariant leads the running machine to an instruction of  *)
(* the procedure on top of the stack.                                      *)
LEMMA NextInstruction ==
    ASSUME LayoutInv, MachineInv, Running
    PROVE  StackInv /\ \E i : AtInstruction(i)
<1>1. StackInv /\ TopInv /\ CodeFits
  BY DEF MachineInv, Running
<1>2. PICK S : shadow \in Seq(S)
  BY <1>1 DEF StackInv
<1>3. /\ Len(shadow) \in Nat \ {0} /\ Len(shadow) \in DOMAIN shadow
      /\ Top = Last(shadow)
  BY <1>1, <1>2 DEF StackInv, Top, Last
<1>4. Top.fn \in DOMAIN binary /\ Top.sp \in Int /\ Top.sp % StackAlign = 0
  BY <1>1, <1>3 DEF StackInv, Top
<1>5. PICK i \in DOMAIN Code(Top) :
        /\ pc = FunctionSpace * Top.fn + i
        /\ Active(Code(Top), Lay(Top), i, Top, regs, mem)
  BY <1>1 DEF TopInv
<1>6. /\ LaidOut(Code(Top), Lay(Top), DOMAIN prog) /\ Code(Top) \in Seq(MCInst)
      /\ Top.fn \in Nat
  BY <1>4, LayLemma
<1>7. i \in Nat
  BY <1>6
<1>8. /\ Address[1] = Top.fn /\ Fetch = Code(Top)[i] /\ InCode(pc)
      /\ pc # Halt
      /\ i + 1 \in DOMAIN Code(Top) => NextPC = FunctionSpace * Top.fn + (i + 1)
  BY <1>1, <1>4, <1>5, <1>6, <1>7, AddressLemma DEF Code, LayoutInv
<1> QED BY <1>1, <1>3, <1>4, <1>5, <1>6, <1>7, <1>8 DEF AtInstruction

(* The words in which the procedures that wait keep registers.             *)
CallersKept ==
    \A j \in DOMAIN shadow : j < Len(shadow) =>
      \A k \in 1 .. Lay(shadow[j]).saves :
        LET w == Word(Code(shadow[j]), Lay(shadow[j]), shadow[j], k)
        IN  mem'[w] = mem[w]

(* While the activations stay the same and the words they wait with too,   *)
(* the stack is in order.                                                  *)
LEMMA StackKept ==
    ASSUME StackInv, UNCHANGED <<binary, prog, shadow>>, CallersKept
    PROVE  StackInv'
<1>1. PICK S : shadow \in Seq(S)
  BY DEF StackInv
<1>2. DOMAIN shadow = 1 .. Len(shadow) /\ Len(shadow) \in Nat
  BY <1>1
<1>3. ASSUME NEW j \in DOMAIN shadow, j + 1 \in DOMAIN shadow
      PROVE  Suspended(Code(shadow[j]), Lay(shadow[j]), shadow[j],
                       shadow[j + 1], mem')
  <2>1. j < Len(shadow)
    BY <1>2, <1>3
  <2> DEFINE b == Code(shadow[j])
             l == Lay(shadow[j])
  <2>2. Suspended(b, l, shadow[j], shadow[j + 1], mem)
    BY <1>3 DEF StackInv
  <2>3. \A k \in 1 .. l.saves :
          mem'[Word(b, l, shadow[j], k)] = mem[Word(b, l, shadow[j], k)]
    BY <2>1 DEF CallersKept
  <2> HIDE DEF b, l
  <2> QED BY <2>2, <2>3 DEF Suspended, Holds, b, l
<1>4. \A j \in DOMAIN shadow :
        /\ IsActivation(shadow[j]) /\ shadow[j].fn \in DOMAIN binary
        /\ shadow[j].sp \in Int /\ shadow[j].sp % StackAlign = 0
        /\ \A k \in DOMAIN shadow :
              j < k => shadow[k].sp <= shadow[j].sp - Lay(shadow[j]).size
  BY DEF StackInv
<1>5. shadow # <<>> /\ shadow[1].ra = Halt
  BY DEF StackInv
<1>6. \A j \in DOMAIN shadow : /\ Code(shadow[j])' = Code(shadow[j])
                               /\ Lay(shadow[j])' = Lay(shadow[j])
  BY DEF Code, Lay
<1>7. (\E T : shadow \in Seq(T))'
  BY <1>1
<1> QED BY <1>3, <1>4, <1>5, <1>6, <1>7 DEF StackInv, IsActivation

(* Falling through keeps the machine in order.                             *)
LEMMA StraightKept ==
    ASSUME LayoutInv, MachineInv, Running, NEW i, AtInstruction(i),
           Fetch.op \notin {"PseudoCALL", "PseudoRET", "PseudoBR"},
           pc' = NextPC, UNCHANGED <<binary, prog, shadow, pass>>, RegsInv',
           Falls(Code(Top), i, regs, mem, regs'),
           KeepsWords(Code(Top), Lay(Top), i, Top, mem, mem'), CallersKept
    PROVE  MachineInv'
<1> DEFINE b == Code(Top)
           l == Lay(Top)
<1>1. /\ i \in DOMAIN b /\ i \in Nat /\ LaidOut(b, l, DOMAIN prog)
      /\ Active(b, l, i, Top, regs, mem) /\ Fetch = b[i] /\ Top.sp \in Int
      /\ i + 1 \in DOMAIN b => NextPC = FunctionSpace * Top.fn + (i + 1)
  BY DEF AtInstruction
<1>2. StackInv /\ CodeFits /\ pass = "done"
  BY DEF MachineInv, Running
<1>3. i + 1 \in DOMAIN b
  <2>1. /\ DOMAIN b = 1 .. Len(b) /\ Len(b) \in Nat /\ EndsBlock(b[Len(b)])
    BY <1>1, RegionsLemma DEF LaidOut
  <2>2. i # Len(b)
    BY <1>1, <2>1 DEF EndsBlock
  <2>3. i \in DOMAIN b /\ i \in Nat
    BY <1>1
  <2> HIDE DEF b, l
  <2> QED BY <2>1, <2>2, <2>3
<1>4. Active(b, l, i + 1, Top, regs', mem')
  <2>1. b[i].op \notin {"PseudoCALL", "PseudoRET"}
    BY <1>1
  <2> HIDE DEF b, l
  <2> QED BY <1>1, <1>3, <2>1, ActiveNext DEF b, l
<1>5. StackInv'
  BY <1>2, StackKept
<1>6. /\ Top' = Top /\ b' = b /\ l' = l
  BY DEF Top, Code, Lay
<1>7. TopInv'
  <2>1. pc' = FunctionSpace * Top.fn + (i + 1)
    BY <1>1, <1>3
  <2> QED BY <1>3, <1>4, <1>6, <2>1 DEF TopInv
<1>8. CodeFits'
  BY <1>2 DEF CodeFits
<1> QED BY <1>2, <1>5, <1>7, <1>8 DEF MachineInv

(* An addition, a subtraction or a load writes one register.               *)
LEMMA WritesKept ==
    ASSUME LayoutInv, MachineInv, Running, NEW i, AtInstruction(i),
           Fetch.op \in {"ADDI", "ADD", "SUB", "LW"}, NEW v \in Int,
           Fetch.op = "ADDI" => v = regs[Fetch.rs1] + Fetch.imm,
           Fetch.op = "LW" => v = mem[Accessed],
           SetReg(Fetch.rd, v), Advance, UNCHANGED mem
    PROVE  MachineInv'
<1> DEFINE b == Code(Top)
<1>1. Fetch = b[i] /\ RegsInv /\ i \in DOMAIN b
  BY DEF AtInstruction, MachineInv
<1>2. /\ pc' = NextPC /\ UNCHANGED <<binary, prog, shadow, pass>>
      /\ regs' = [regs EXCEPT ![Fetch.rd] = IF Fetch.rd = X0 THEN 0 ELSE v]
  BY DEF Advance, SetReg, compileVars, cgVars
<1>3. X0 \in GPR /\ X2 \in GPR /\ X0 # X2
  BY PreservedLemma DEF X0, X2
<1>4. /\ regs' \in [GPR -> Int] /\ regs'[X0] = 0
      /\ \A x \in GPR : x # Fetch.rd => regs'[x] = regs[x]
      /\ Fetch.rd \in GPR \ {X0} => regs'[Fetch.rd] = v
  BY <1>1, <1>2, <1>3 DEF RegsInv
<1>5. RegsInv'
  BY <1>1, <1>4 DEF RegsInv
<1>6. Falls(b, i, regs, mem, regs')
  <2>1. ASSUME NEW n \in Int, IsAdjustment(b[i], n)
        PROVE  regs'[X2] = regs[X2] + n
    BY <1>1, <1>3, <1>4, <2>1 DEF IsAdjustment
  <2>2. ASSUME b[i].op = "LW", b[i].rs1 = X2, b[i].rd \in CSR_RV32I
        PROVE  regs'[b[i].rd] = mem[regs[X2] + b[i].imm]
    <3>1. b[i].rd \in GPR \ {X0}
      BY <2>2, PreservedLemma
    <3> QED BY <1>1, <1>4, <2>2, <3>1 DEF Accessed
  <2>3. b[i].op # "SW"
    BY <1>1
  <2> QED BY <1>1, <1>4, <2>1, <2>2, <2>3 DEF Falls
<1>7. KeepsWords(b, Lay(Top), i, Top, mem, mem')
  <2> DEFINE l == Lay(Top)
  <2>1. LaidOut(b, l, DOMAIN prog) /\ i \in Nat
    BY DEF AtInstruction
  <2>2. SavesFirst(b, l)
    BY <2>1 DEF LaidOut
  <2>3. \A k \in 1 .. l.saves : l.pre + k # i
    BY <1>1, <2>2 DEF SavesFirst
  <2> QED BY <2>3 DEF KeepsWords
<1>8. CallersKept
  BY DEF CallersKept
<1>9. Fetch.op \notin {"PseudoCALL", "PseudoRET", "PseudoBR"}
  OBVIOUS
<1> QED BY <1>2, <1>5, <1>6, <1>7, <1>8, <1>9, StraightKept

(* What a program computes with are integers.                              *)
LEMMA OperandsLemma ==
    ASSUME LayoutInv, NEW i, AtInstruction(i)
    PROVE  /\ Fetch \in MCInst
           /\ Fetch.op \in {"ADDI", "LW", "SW", "ADD", "SUB"} => Fetch.rs1 \in GPR
           /\ Fetch.op \in {"ADD", "SUB", "SW"} => Fetch.rs2 \in GPR
<1>1. /\ LaidOut(Code(Top), Lay(Top), DOMAIN prog) /\ i \in DOMAIN Code(Top)
      /\ Fetch = Code(Top)[i]
  BY DEF AtInstruction
<1>2. Code(Top)[i] \in MCInst
  BY <1>1, RegionsLemma
<1> QED BY <1>1, <1>2 DEF LaidOut, OperandsFit

(* An instruction that only writes a register keeps the invariant: SP is   *)
(* written by prologue and epilogue only, a kept register only after its   *)
(* save.                                                                   *)
LEMMA ExecArithmeticKept ==
    ASSUME LayoutInv, MachineInv, ExecADDI \/ ExecADD \/ ExecSUB \/ ExecLW
    PROVE  MachineInv'
<1>1. Running
  BY DEF ExecADDI, ExecADD, ExecSUB, ExecLW, Executing
<1>2. PICK i : AtInstruction(i)
  BY <1>1, NextInstruction
<1>3. /\ Fetch \in MCInst
      /\ Fetch.op \in {"ADDI", "LW", "SW", "ADD", "SUB"} => Fetch.rs1 \in GPR
      /\ Fetch.op \in {"ADD", "SUB", "SW"} => Fetch.rs2 \in GPR
  BY <1>2, OperandsLemma
<1>4. regs \in [GPR -> Int] /\ mem \in [Addresses -> Int] /\ Fetch.imm \in Int
  BY <1>3 DEF MachineInv, RegsInv, MCInst
<1>5. CASE ExecADDI
  <2> DEFINE v == regs[Fetch.rs1] + Fetch.imm
  <2>1. /\ Fetch.op = "ADDI" /\ SetReg(Fetch.rd, v) /\ Advance
        /\ UNCHANGED mem
    BY <1>5 DEF ExecADDI, Executing
  <2>2. v \in Int
    BY <1>3, <1>4, <2>1
  <2> HIDE DEF Advance
  <2> QED BY <1>1, <1>2, <2>1, <2>2, WritesKept
<1>6. CASE ExecADD
  <2> DEFINE v == regs[Fetch.rs1] + regs[Fetch.rs2]
  <2>1. /\ Fetch.op = "ADD" /\ SetReg(Fetch.rd, v) /\ Advance
        /\ UNCHANGED mem
    BY <1>6 DEF ExecADD, Executing
  <2>2. v \in Int
    BY <1>3, <1>4, <2>1
  <2> QED BY <1>1, <1>2, <2>1, <2>2, WritesKept
<1>7. CASE ExecSUB
  <2> DEFINE v == regs[Fetch.rs1] - regs[Fetch.rs2]
  <2>1. /\ Fetch.op = "SUB" /\ SetReg(Fetch.rd, v) /\ Advance
        /\ UNCHANGED mem
    BY <1>7 DEF ExecSUB, Executing
  <2>2. v \in Int
    BY <1>3, <1>4, <2>1
  <2> QED BY <1>1, <1>2, <2>1, <2>2, WritesKept
<1>8. CASE ExecLW
  <2> DEFINE v == mem[Accessed]
  <2>1. /\ Fetch.op = "LW" /\ Accessed \in Addresses /\ SetReg(Fetch.rd, v)
        /\ Advance /\ UNCHANGED mem
    BY <1>8 DEF ExecLW, Executing
  <2>2. v \in Int
    BY <1>4, <2>1
  <2> QED BY <1>1, <1>2, <2>1, <2>2, WritesKept
<1> QED BY <1>5, <1>6, <1>7, <1>8

(* A store hits no word in which a procedure keeps a register: relative to *)
(* SP because the frames lie below each other, else because a program is   *)
(* assumed not to destroy its stack.                                       *)
LEMMA WordsSaved ==
    ASSUME LayoutInv, NEW a, a.fn \in DOMAIN binary,
           NEW k \in 1 .. Lay(a).saves
    PROVE  Word(Code(a), Lay(a), a, k) \in SaveWords(a)
<1> DEFINE b == Code(a)
           l == Lay(a)
           p == l.pre + k
<1>1. LaidOut(b, l, DOMAIN prog)
  BY LayLemma
<1> HIDE DEF b, l
<1>2. /\ SavesFirst(b, l) /\ MovesSP(b, l) /\ l.saves \in Nat /\ Regions(b, l)
      /\ l.size \in Nat /\ l.pre \in {0, 1}
      /\ l.saves # 0 => l.size # 0
      /\ l.size # 0 => l.pre = 1 /\ l.post = 1
  BY <1>1, RegionsLemma DEF LaidOut
<1>3. k \in 1 .. l.saves
  BY DEF l
<1>4. l.pre = 1 /\ l.saves # 0
  BY <1>2, <1>3
<1>5. b[1].op = "ADDI" /\ b[1].rd = X2 /\ b[1].imm = -l.size
  BY <1>2, <1>4 DEF MovesSP, IsAdjustment
<1>6. -b[1].imm = l.size
  BY <1>2, <1>5
<1>7. /\ p \in DOMAIN b /\ b[p].op = "SW" /\ b[p].rs1 = X2
      /\ b[p].rs2 \in CSR_RV32I /\ b[p].imm = Slot(b, l, k)
  <2>1. p \in DOMAIN b
    BY <1>2, <1>3 DEF Regions
  <2> QED BY <1>2, <1>3, <2>1 DEF SavesFirst, SaveReg, Slot
<1> HIDE DEF p
<1>8. (a.sp - (-b[1].imm)) + b[p].imm = Word(b, l, a, k)
  BY <1>6, <1>7 DEF Word
<1>9. SaveWords(a) = {a.sp - (-b[1].imm) + b[q].imm :
                        q \in {q \in DOMAIN b : /\ b[q].op = "SW" /\ b[q].rs1 = X2
                                                /\ b[q].rs2 \in CSR_RV32I}}
  BY <1>5 DEF SaveWords, b, Code
<1> QED BY <1>7, <1>8, <1>9 DEF b, l

(* So does a store: through SP it goes to its own frame, through a pointer *)
(* to no word in which a register is kept.                                 *)
LEMMA ExecSWKept ==
    ASSUME LayoutInv, MachineInv, PointersMissSaves, ExecSW
    PROVE  MachineInv'
<1> DEFINE b == Code(Top)
           l == Lay(Top)
           x == Accessed
<1>1. /\ Running /\ Fetch.op = "SW" /\ x \in Addresses /\ Advance
      /\ mem' = [mem EXCEPT ![x] = regs[Fetch.rs2]] /\ regs' = regs
      /\ Executing("SW")
  BY DEF ExecSW, Executing
<1>2. PICK i : AtInstruction(i)
  BY <1>1, NextInstruction
<1>3. /\ i \in DOMAIN b /\ i \in Nat /\ LaidOut(b, l, DOMAIN prog)
      /\ Active(b, l, i, Top, regs, mem) /\ Fetch = b[i] /\ Top.sp \in Int
      /\ Top.fn \in DOMAIN binary /\ Len(shadow) \in Nat \ {0}
  BY <1>2 DEF AtInstruction
<1>4. /\ StackInv /\ RegsInv /\ pc' = NextPC
      /\ UNCHANGED <<binary, prog, shadow, pass>>
  BY <1>1, NextInstruction DEF MachineInv, Advance, compileVars, cgVars
<1>5. regs \in [GPR -> Int] /\ mem \in [Addresses -> Int] /\ b[i].rs2 \in GPR
  BY <1>1, <1>2, <1>3, <1>4, OperandsLemma DEF RegsInv
<1>6. RegsInv'
  BY <1>1, <1>3, <1>4, <1>5 DEF RegsInv
<1>7. Falls(b, i, regs, mem, regs')
  <2>1. \A n : ~IsAdjustment(b[i], n)
    BY <1>1, <1>3 DEF IsAdjustment
  <2> QED BY <1>1, <1>3, <2>1 DEF Falls
<1>8. x = regs[b[i].rs1] + b[i].imm
  BY <1>3 DEF Accessed
<1>9. ASSUME NEW j \in DOMAIN shadow, b[i].rs1 # X2,
             NEW k \in 1 .. Lay(shadow[j]).saves
      PROVE  x # Word(Code(shadow[j]), Lay(shadow[j]), shadow[j], k)
  <2>1. shadow[j].fn \in DOMAIN binary
    BY <1>4 DEF StackInv
  <2>2. Word(Code(shadow[j]), Lay(shadow[j]), shadow[j], k)
          \in SaveWords(shadow[j])
    BY <1>9, <2>1, WordsSaved
  <2> QED BY <1>1, <1>3, <1>9, <2>2 DEF PointersMissSaves
<1>10. KeepsWords(b, l, i, Top, mem, mem')
  <2>1. b[i].rs1 # X2 => \A k \in 1 .. l.saves : x # Word(b, l, Top, k)
    <3>1. Len(shadow) \in DOMAIN shadow /\ Top = shadow[Len(shadow)]
      BY <1>3, <1>4 DEF Top, StackInv
    <3> QED BY <1>9, <3>1
  <2>2. b[i].op = "SW" /\ x \in Addresses
        /\ mem' = [mem EXCEPT ![x] = regs[b[i].rs2]]
    BY <1>1, <1>3
  <2> HIDE DEF b, l, x
  <2> QED BY <1>3, <1>5, <1>8, <2>1, <2>2, StoreKeeps
<1>11. CallersKept
  <2>1. SUFFICES ASSUME NEW j \in DOMAIN shadow, j < Len(shadow),
                        NEW k \in 1 .. Lay(shadow[j]).saves
                 PROVE  LET w == Word(Code(shadow[j]), Lay(shadow[j]), shadow[j], k)
                        IN  mem'[w] = mem[w]
    BY DEF CallersKept
  <2> DEFINE c == shadow[j]
             w == Word(Code(c), Lay(c), c, k)
  <2>2. /\ Len(shadow) \in DOMAIN shadow /\ Top = shadow[Len(shadow)]
        /\ DOMAIN shadow = 1 .. Len(shadow) /\ j + 1 \in DOMAIN shadow
    <3>1. PICK S : shadow \in Seq(S)
      BY <1>4 DEF StackInv
    <3> QED BY <1>3, <2>1, <3>1 DEF Top
  <2>3. /\ c.sp \in Int /\ c.fn \in DOMAIN binary /\ w \in Addresses
        /\ Top.sp <= c.sp - Lay(c).size
    <3>1. /\ c.sp \in Int /\ c.fn \in DOMAIN binary
          /\ shadow[Len(shadow)].sp <= c.sp - Lay(c).size
          /\ Suspended(Code(c), Lay(c), c, shadow[j + 1], mem)
      BY <1>4, <2>1, <2>2 DEF StackInv
    <3>2. w \in Addresses
      BY <3>1 DEF Suspended, Holds
    <3> QED BY <2>2, <3>1, <3>2
  <2>4. CASE b[i].rs1 = X2
    <3>1. x = (Top.sp - Lowered(b, l, i)) + b[i].imm
      BY <1>3, <1>8, <2>4 DEF Active
    <3>2. x \in Int /\ x < Top.sp
      <4>1. b[i].op = "SW"
        BY <1>1, <1>3
      <4> HIDE DEF b, l, x
      <4> QED BY <1>3, <2>4, <3>1, <4>1, StoreLemma
    <3>3. w >= c.sp - Lay(c).size /\ w \in Int
      <4> DEFINE d == Code(c)
                 r == Lay(c)
      <4>1. LaidOut(d, r, DOMAIN prog)
        BY <2>3, LayLemma
      <4> HIDE DEF d, r, c
      <4>2. /\ SavesFirst(d, r) /\ Regions(d, r) /\ r.size \in Nat
            /\ \A p \in DOMAIN d : d[p] \in MCInst
            /\ r.pre \in {0, 1} /\ r.saves \in Nat
        BY <4>1, RegionsLemma DEF LaidOut
      <4>3. k \in 1 .. r.saves
        BY <2>1 DEF r, c
      <4>4. r.pre + k \in DOMAIN d
        BY <4>2, <4>3 DEF Regions
      <4>5. d[r.pre + k] \in MCInst
        BY <4>2, <4>4
      <4>6. Slot(d, r, k) \in Int /\ 0 <= Slot(d, r, k)
        BY <4>2, <4>3, <4>5 DEF SavesFirst, Slot, MCInst
      <4>7. w = (c.sp - r.size) + Slot(d, r, k)
        BY DEF Word, d, r
      <4> QED BY <2>3, <4>2, <4>6, <4>7 DEF r
    <3>4. x # w
      <4> HIDE DEF x, w, c
      <4>1. Lay(c).size \in Nat
        BY <2>3, LayLemma, RegionsLemma
      <4> QED BY <1>3, <2>3, <3>2, <3>3, <4>1
    <3> QED BY <1>1, <1>5, <2>3, <3>4
  <2>5. CASE b[i].rs1 # X2
    <3>1. x # w
      BY <1>9, <2>1, <2>5
    <3> QED BY <1>1, <1>5, <2>3, <3>1
  <2> QED BY <2>4, <2>5
<1>12. Fetch.op \notin {"PseudoCALL", "PseudoRET", "PseudoBR"}
  BY <1>1
<1> QED BY <1>1, <1>2, <1>4, <1>6, <1>7, <1>10, <1>11, <1>12, StraightKept

(* A jump that is taken.                                                   *)
LEMMA JumpKept ==
    ASSUME LayoutInv, MachineInv, Running, NEW i, AtInstruction(i),
           IsJump(Fetch), pc' = BranchTarget,
           UNCHANGED <<compileVars, regs, mem, shadow, retval>>
    PROVE  MachineInv'
<1> DEFINE b == Code(Top)
           l == Lay(Top)
           t == b[i].sym
<1>1. /\ i \in DOMAIN b /\ LaidOut(b, l, DOMAIN prog) /\ IsJump(b[i])
      /\ Active(b, l, i, Top, regs, mem) /\ Fetch = b[i] /\ Address[1] = Top.fn
  BY DEF AtInstruction
<1>2. t \in DOMAIN b /\ Active(b, l, t, Top, regs, mem)
  <2> HIDE DEF b, l
  <2> QED BY <1>1, ActiveJump DEF b, l
<1>3. UNCHANGED <<binary, prog, pass, regs, mem, shadow>>
  BY DEF compileVars, cgVars
<1>4. /\ StackInv /\ CodeFits /\ RegsInv /\ pass = "done"
  BY DEF MachineInv, Running
<1>5. CallersKept
  BY <1>3 DEF CallersKept
<1>6. StackInv'
  BY <1>3, <1>4, <1>5, StackKept
<1>7. pc' = FunctionSpace * Top.fn + t
  BY <1>1 DEF BranchTarget
<1>8. /\ Top' = Top /\ b' = b /\ l' = l
  BY <1>3 DEF Top, Code, Lay
<1>9. TopInv'
  BY <1>2, <1>3, <1>7, <1>8 DEF TopInv
<1>10. CodeFits' /\ RegsInv'
  BY <1>3, <1>4 DEF CodeFits, RegsInv
<1> QED BY <1>3, <1>4, <1>6, <1>9, <1>10 DEF MachineInv

(* So does a jump, which leads into the body of its procedure.             *)
LEMMA ExecJumpKept ==
    ASSUME LayoutInv, MachineInv, ExecBranch \/ ExecJ
    PROVE  MachineInv'
<1>1. /\ Running /\ IsJump(Fetch)
      /\ UNCHANGED <<compileVars, regs, mem, shadow, retval>>
      /\ pc' = BranchTarget \/ (pc' = NextPC /\ Fetch.op \in Branches)
  BY DEF ExecBranch, ExecJ, Executing, IsJump
<1>2. PICK i : AtInstruction(i)
  BY <1>1, NextInstruction
<1>3. CASE pc' = BranchTarget
  BY <1>1, <1>2, <1>3, JumpKept
<1>4. CASE pc' = NextPC /\ Fetch.op \in Branches
  <2>1. Fetch.op \notin {"ADDI", "LW", "SW", "PseudoCALL", "PseudoRET", "PseudoBR"}
    BY <1>4, JumpOpLemma
  <2>2. UNCHANGED <<binary, prog, shadow, pass, regs, mem>>
    BY <1>1 DEF compileVars, cgVars
  <2>3. RegsInv' /\ CallersKept
    BY <2>2 DEF MachineInv, RegsInv, CallersKept
  <2>4. Fetch = Code(Top)[i] /\ LaidOut(Code(Top), Lay(Top), DOMAIN prog)
    BY <1>2 DEF AtInstruction
  <2>5. Falls(Code(Top), i, regs, mem, regs')
    BY <2>1, <2>2, <2>4 DEF Falls, IsAdjustment
  <2>6. KeepsWords(Code(Top), Lay(Top), i, Top, mem, mem')
    <3>1. SavesFirst(Code(Top), Lay(Top))
      BY <2>4 DEF LaidOut
    <3>2. \A k \in 1 .. Lay(Top).saves : Lay(Top).pre + k # i
      BY <2>1, <2>4, <3>1 DEF SavesFirst
    <3> QED BY <2>2, <3>2 DEF KeepsWords
  <2> QED BY <1>1, <1>2, <1>4, <2>1, <2>2, <2>3, <2>5, <2>6, StraightKept
<1> QED BY <1>1, <1>3, <1>4

(* What an activation records of the registers it is entered with.         *)
LEMMA ActivatedLemma ==
    ASSUME NEW f, NEW r, NEW m
    PROVE  LET a == Activated(f, r, m)
           IN  /\ IsActivation(a) /\ a.fn = f /\ a.ra = r[X1] /\ a.sp = r[X2]
               /\ \A q \in PreservedRegs : a.saved[q] = r[q]
               /\ \A q \in CSR_RV32I : r[q] = EntryVal(a, q)
<1> DEFINE a == Activated(f, r, m)
<1>1. /\ IsActivation(a) /\ a.fn = f /\ a.ra = r[X1] /\ a.sp = r[X2]
      /\ a.saved = [q \in PreservedRegs |-> r[q]]
  BY DEF Activated, IsActivation
<1> HIDE DEF a
<1>2. \A q \in PreservedRegs : a.saved[q] = r[q]
  BY <1>1
<1>3. \A q \in CSR_RV32I : r[q] = EntryVal(a, q)
  BY <1>1, <1>2, PreservedLemma DEF EntryVal
<1> QED BY <1>1, <1>2, <1>3 DEF a

(* Counting a call leaves the rest of an activation.                       *)
LEMMA CountedLemma ==
    ASSUME NEW a, IsActivation(a), NEW n
    PROVE  LET c == [a EXCEPT !.done = n]
           IN  /\ IsActivation(c) /\ c.fn = a.fn /\ c.ra = a.ra /\ c.sp = a.sp
               /\ c.saved = a.saved
<1> DEFINE c == [a EXCEPT !.done = n]
<1>1. PICK fn, done, ra, sp, saved, args :
        a = [fn |-> fn, done |-> done, ra |-> ra, sp |-> sp, saved |-> saved,
             args |-> args]
  BY DEF IsActivation
<1>2. c =
        [fn |-> fn, done |-> n, ra |-> ra, sp |-> sp, saved |-> saved,
         args |-> args]
  BY <1>1
<1> HIDE DEF c
<1>3. IsActivation(c)
  BY <1>2, Zenon DEF IsActivation
<1>4. c.fn = a.fn /\ c.ra = a.ra /\ c.sp = a.sp /\ c.saved = a.saved
  BY <1>1, <1>2
<1> QED BY <1>3, <1>4 DEF c

(* Waiting depends on no more of the two activations.                      *)
Agrees(x, y) == x.fn = y.fn /\ x.ra = y.ra /\ x.sp = y.sp /\ x.saved = y.saved

(* Counting a call does not disturb a waiting procedure.                   *)
LEMMA SuspendedAgrees ==
    ASSUME NEW b, NEW l, NEW m, NEW c, NEW d, NEW x, NEW y,
           Suspended(b, l, c, d, m), Agrees(x, c), Agrees(y, d)
    PROVE  Suspended(b, l, x, y, m)
<1>1. \A r : EntryVal(x, r) = EntryVal(c, r)
  BY DEF EntryVal, Agrees
<1>2. \A k : Word(b, l, x, k) = Word(b, l, c, k)
  BY DEF Word, Agrees
<1>3. \A k \in 1 .. l.saves : Holds(b, l, x, m, k)
  BY <1>1, <1>2 DEF Holds, Suspended
<1> QED BY <1>1, <1>3 DEF Suspended, Agrees

(* A call puts an activation on top, below the frame of the caller.        *)
LEMMA ExecCALLKept ==
    ASSUME prog \in Seq(Function), LayoutInv, MachineInv, ExecCALL
    PROVE  MachineInv'
<1> DEFINE b == Code(Top)
           l == Lay(Top)
           n == Len(shadow)
           c == [Top EXCEPT !.done = Top.done + 1]
           d == Activated(Fetch.sym, regs', mem)
<1>1. /\ Running /\ Fetch.op = "PseudoCALL" /\ pc' = Entry(Fetch.sym)
      /\ regs' = [regs EXCEPT ![X1] = NextPC] /\ mem' = mem
      /\ shadow' = Append([shadow EXCEPT ![n] = c], d)
      /\ UNCHANGED <<binary, prog, pass>>
  BY DEF ExecCALL, Executing, compileVars, cgVars, Top
<1>2. StackInv /\ RegsInv /\ CodeFits /\ pass = "done"
  BY <1>1, NextInstruction DEF MachineInv, Running
<1>3. PICK i : AtInstruction(i)
  BY <1>1, NextInstruction
<1>4. /\ i \in DOMAIN b /\ LaidOut(b, l, DOMAIN prog) /\ i \in Nat
      /\ Active(b, l, i, Top, regs, mem) /\ Fetch = b[i]
      /\ i + 1 \in DOMAIN b => NextPC = FunctionSpace * Top.fn + (i + 1)
      /\ Top.sp \in Int /\ Top.sp % StackAlign = 0 /\ Top.fn \in DOMAIN binary
      /\ n \in Nat \ {0}
  BY <1>3 DEF AtInstruction
<1>5. /\ regs[X2] = Top.sp - l.size
      /\ \A k \in 1 .. l.saves : Holds(b, l, Top, mem, k)
      /\ \A r \in PreservedRegs : r \notin Kept(b, l) => regs[r] = EntryVal(Top, r)
      /\ b[i].sym \in DOMAIN prog /\ l.size % StackAlign = 0 /\ l.size \in Nat
      /\ i + 1 \in DOMAIN b
  <2>1. b[i].op = "PseudoCALL"
    BY <1>1, <1>4
  <2> HIDE DEF b, l
  <2> QED BY <1>4, <2>1, CallSuspends
<1>6. DOMAIN binary = DOMAIN prog
  BY <1>2 DEF LayoutInv
<1>7. /\ NextPC = FunctionSpace * Top.fn + (i + 1) /\ NextPC \in Int
  <2>1. NextPC = FunctionSpace * Top.fn + (i + 1)
    BY <1>4, <1>5
  <2>2. Top.fn \in Nat /\ i \in Nat
    BY <1>4, LayLemma
  <2> QED BY <2>1, <2>2 DEF FunctionSpace
<1>8. /\ regs' \in [GPR -> Int] /\ regs'[X1] = NextPC /\ regs'[X0] = 0
      /\ \A r \in GPR : r # X1 => regs'[r] = regs[r]
  <2>1. X1 \in GPR /\ X0 \in GPR /\ X0 # X1
    BY PreservedLemma DEF X0, X1
  <2> QED BY <1>1, <1>2, <1>7, <2>1 DEF RegsInv
<1>9. regs'[X2] = regs[X2] /\ \A r \in PreservedRegs : regs'[r] = regs[r]
  BY <1>8, PreservedLemma
<1>10. /\ IsActivation(d) /\ d.fn = b[i].sym /\ d.ra = NextPC
       /\ d.sp = Top.sp - l.size
       /\ \A r \in PreservedRegs : d.saved[r] = regs[r]
       /\ \A r \in CSR_RV32I : regs'[r] = EntryVal(d, r)
  BY <1>4, <1>5, <1>8, <1>9, ActivatedLemma
<1>11. d.sp \in Int /\ d.sp % StackAlign = 0
  <2> DEFINE y == Top.sp
             z == l.size
  <2>1. /\ y \in Int /\ z \in Int /\ y % StackAlign = 0 /\ z % StackAlign = 0
        /\ d.sp = y - z
    BY <1>4, <1>5, <1>10
  <2> HIDE DEF l, d, y, z
  <2> QED BY <2>1, AlignedDifference
<1>12. PICK S : shadow \in Seq(S)
  BY <1>2 DEF StackInv
<1>13. IsActivation(Top)
  BY <1>2, <1>4, <1>12 DEF StackInv, Top
<1>14. IsActivation(c) /\ Agrees(c, Top)
  BY <1>13, CountedLemma DEF Agrees
<1> HIDE DEF b, l, c, d
<1>15. /\ shadow' \in Seq(S \cup {c, d}) /\ Len(shadow') = n + 1
       /\ shadow'[n + 1] = d /\ shadow'[n] = c
       /\ \A j \in 1 .. n : j # n => shadow'[j] = shadow[j]
  <2> DEFINE s == [shadow EXCEPT ![n] = c]
  <2>1. /\ s \in Seq(S \cup {c, d}) /\ Len(s) = n /\ s[n] = c
        /\ \A j \in 1 .. n : j # n => s[j] = shadow[j]
    BY <1>4, <1>12
  <2> HIDE DEF s
  <2>2. shadow' = Append(s, d)
    BY <1>1 DEF s
  <2> QED BY <1>4, <2>1, <2>2
<1>16. \A j \in 1 .. n : Agrees(shadow'[j], shadow[j]) /\ IsActivation(shadow'[j])
  BY <1>2, <1>4, <1>12, <1>14, <1>15 DEF Agrees, StackInv, Top
<1>17. ASSUME NEW j \in 1 .. n
       PROVE  /\ Code(shadow'[j]) = Code(shadow[j])
              /\ Lay(shadow'[j]) = Lay(shadow[j])
  BY <1>16 DEF Agrees, Code, Lay
<1>18. DOMAIN shadow = 1 .. n /\ DOMAIN shadow' = 1 .. n + 1 /\ n \in Nat
  BY <1>4, <1>12, <1>15
<1>19. ASSUME NEW j \in 1 .. n, NEW k \in 1 .. n + 1, j < k
       PROVE  shadow'[k].sp <= shadow'[j].sp - Lay(shadow'[j]).size
  <2>1. shadow'[j].sp = shadow[j].sp /\ Lay(shadow'[j]) = Lay(shadow[j])
    BY <1>16, <1>17 DEF Agrees
  <2>2. CASE k <= n
    <3>1. shadow'[k].sp = shadow[k].sp
      BY <1>16, <1>18, <2>2 DEF Agrees
    <3> QED BY <1>2, <1>18, <1>19, <2>1, <2>2, <3>1 DEF StackInv
  <2>3. CASE k = n + 1
    <3>1. shadow'[k].sp = Top.sp - l.size
      BY <1>10, <1>15, <2>3
    <3>2. CASE j = n
      BY <2>1, <3>1, <3>2, <1>4, <1>5 DEF Top, l
    <3>3. CASE j # n
      <4>0. j \in DOMAIN shadow /\ n \in DOMAIN shadow /\ j < n
        <5> HIDE DEF n
        <5> QED BY <1>4, <1>18, <3>3
      <4>1. Top.sp <= shadow[j].sp - Lay(shadow[j]).size /\ shadow[j].sp \in Int
        <5>1. /\ shadow[j].sp \in Int
              /\ \A q \in DOMAIN shadow :
                   j < q => shadow[q].sp <= shadow[j].sp - Lay(shadow[j]).size
          BY <1>2, <4>0 DEF StackInv
        <5>2. Top = shadow[n]
          BY DEF Top
        <5> HIDE DEF n
        <5> QED BY <4>0, <5>1, <5>2
      <4>2. Lay(shadow[j]).size \in Nat
        <5>1. shadow[j].fn \in DOMAIN binary
          BY <1>2, <1>18 DEF StackInv
        <5> QED BY <5>1, LayLemma, RegionsLemma
      <4>3. PICK z \in Int : z = shadow[j].sp - Lay(shadow[j]).size
        BY <4>1, <4>2
      <4> QED BY <1>4, <1>5, <2>1, <3>1, <4>1, <4>3
    <3> QED BY <3>2, <3>3
  <2> QED BY <1>18, <2>2, <2>3
<1>20. ASSUME NEW j \in 1 .. n
       PROVE  Suspended(Code(shadow'[j]), Lay(shadow'[j]), shadow'[j],
                        shadow'[j + 1], mem)
  <2>1. CASE j # n
    <3>0. n \in Nat
      BY <1>4
    <3>1. j + 1 \in 1 .. n
      BY <2>1, <3>0
    <3>2. Suspended(Code(shadow[j]), Lay(shadow[j]), shadow[j], shadow[j + 1], mem)
      BY <1>2, <1>18, <3>1 DEF StackInv
    <3> QED BY <1>16, <1>17, <3>1, <3>2, SuspendedAgrees
  <2>2. CASE j = n
    <3>1. \E q \in DOMAIN b : /\ b[q].op = "PseudoCALL"
                              /\ d.ra = FunctionSpace * Top.fn + (q + 1)
      BY <1>1, <1>4, <1>7, <1>10
    <3>2. Suspended(b, l, Top, d, mem)
      BY <1>5, <1>10, <3>1 DEF Suspended
    <3>3. Agrees(d, d) /\ Agrees(c, Top)
      BY <1>14 DEF Agrees
    <3>4. Suspended(b, l, c, d, mem)
      BY <3>2, <3>3, SuspendedAgrees
    <3>5. Code(c) = b /\ Lay(c) = l
      BY <1>14 DEF Agrees, Code, Lay, b, l
    <3> QED BY <1>15, <2>2, <3>4, <3>5
  <2> QED BY <2>1, <2>2
<1>21. ASSUME NEW j \in 1 .. n + 1
       PROVE  /\ IsActivation(shadow'[j]) /\ shadow'[j].fn \in DOMAIN binary
              /\ shadow'[j].sp \in Int /\ shadow'[j].sp % StackAlign = 0
  <2>1. CASE j \in 1 .. n
    BY <1>2, <1>16, <1>18, <2>1 DEF StackInv, Agrees
  <2>2. CASE j = n + 1
    BY <1>5, <1>6, <1>10, <1>11, <1>15, <2>2
  <2> QED BY <1>18, <2>1, <2>2
<1>22. \A x : Code(x)' = binary[x.fn] /\ Lay(x)' = LayoutOf(binary[x.fn], DOMAIN prog)
  BY <1>1 DEF Code, Lay
<1>23. StackInv'
  <2>1. (\E T : shadow \in Seq(T))'
    BY <1>15
  <2>2. shadow' # <<>>
    <3>1. Len(shadow') # 0
      BY <1>4, <1>15
    <3>2. Len(<<>>) = 0
      OBVIOUS
    <3> QED BY <3>1, <3>2, Zenon
  <2>3. shadow'[1].ra = Halt
    <3>1. 1 \in 1 .. n
      BY <1>4
    <3> QED BY <1>2, <1>16, <3>1 DEF StackInv, Agrees
  <2>4. ASSUME NEW j \in DOMAIN shadow'
        PROVE  /\ IsActivation(shadow'[j]) /\ shadow'[j].fn \in DOMAIN binary'
               /\ shadow'[j].sp \in Int /\ shadow'[j].sp % StackAlign = 0
               /\ \A k \in DOMAIN shadow' : j < k =>
                    shadow'[k].sp <= shadow'[j].sp
                      - LayoutOf(binary'[shadow'[j].fn], DOMAIN prog').size
               /\ j + 1 \in DOMAIN shadow' =>
                    Suspended(binary'[shadow'[j].fn],
                              LayoutOf(binary'[shadow'[j].fn], DOMAIN prog'),
                              shadow'[j], shadow'[j + 1], mem')
    <3>1. /\ IsActivation(shadow'[j]) /\ shadow'[j].fn \in DOMAIN binary'
          /\ shadow'[j].sp \in Int /\ shadow'[j].sp % StackAlign = 0
      BY <1>1, <1>18, <1>21
    <3>2. ASSUME NEW k \in DOMAIN shadow', j < k
          PROVE  shadow'[k].sp <= shadow'[j].sp
                      - LayoutOf(binary'[shadow'[j].fn], DOMAIN prog').size
      <4>1. j \in 1 .. n
        BY <1>18, <3>2
      <4> QED BY <1>1, <1>18, <1>19, <3>2, <4>1 DEF Lay, Code
    <3>3. ASSUME j + 1 \in DOMAIN shadow'
          PROVE  Suspended(binary'[shadow'[j].fn],
                           LayoutOf(binary'[shadow'[j].fn], DOMAIN prog'),
                           shadow'[j], shadow'[j + 1], mem')
      <4>1. j \in 1 .. n
        BY <1>18, <3>3
      <4> QED BY <1>1, <1>20, <4>1 DEF Lay, Code
    <3> QED BY <3>1, <3>2, <3>3
  <2> QED BY <2>1, <2>2, <2>3, <2>4 DEF StackInv, Code, Lay
<1>24. TopInv'
  <2>1. Top' = d
    BY <1>15 DEF Top
  <2>2. d.fn \in DOMAIN binary
    BY <1>5, <1>6, <1>10
  <2>3. LaidOut(Code(d), Lay(d), DOMAIN prog)
    BY <2>2, LayLemma
  <2>4. 1 \in DOMAIN Code(d)
    BY <2>3, RegionsLemma
  <2>5. Active(Code(d), Lay(d), 1, d, regs', mem')
    <3>1. regs'[X2] = d.sp
      BY <1>5, <1>9, <1>10
    <3> QED BY <1>10, <1>11, <2>3, <3>1, ActiveEntry
  <2>6. pc' = FunctionSpace * d.fn + 1
    BY <1>1, <1>4, <1>10 DEF Entry
  <2> QED BY <1>1, <2>1, <2>4, <2>5, <2>6 DEF TopInv, Code, Lay
<1>25. RegsInv' /\ CodeFits' /\ pass' = "done"
  BY <1>1, <1>2, <1>8 DEF RegsInv, CodeFits
<1> QED BY <1>23, <1>24, <1>25 DEF MachineInv

(* All but the last element.                                               *)
LEMMA FrontLemma ==
    ASSUME NEW S, NEW s \in Seq(S), Len(s) >= 1
    PROVE  /\ Front(s) \in Seq(S) /\ Len(Front(s)) = Len(s) - 1
           /\ \A j \in 1 .. Len(s) - 1 : Front(s)[j] = s[j]
<1> DEFINE n == Len(s) - 1
           t == SubSeq(s, 1, n)
<1>1. n \in Int /\ \A j \in 1 .. n : s[j] \in S /\ j <= Len(s)
  OBVIOUS
<1>2. /\ t \in Seq(S) /\ Len(t) = IF 1 <= n THEN n - 1 + 1 ELSE 0
      /\ \A j \in 1 .. n - 1 + 1 : t[j] = s[1 + j - 1]
  BY <1>1, SubSeqProperties
<1>3. Front(s) = t
  BY DEF Front
<1>4. n >= 0 /\ n \in Nat
  OBVIOUS
<1> HIDE DEF n, t
<1>5. Len(t) = n /\ \A j \in 1 .. n : t[j] = s[j]
  BY <1>2, <1>4
<1> QED BY <1>2, <1>3, <1>5 DEF n

(* A return lands behind the call, or at Halt.                             *)
LEMMA ExecRETKept ==
    ASSUME LayoutInv, MachineInv, ExecRET
    PROVE  MachineInv'
<1> DEFINE n == Len(shadow)
           c == shadow[n - 1]
<1>1. /\ Running /\ Fetch.op = "PseudoRET" /\ pc' = regs[X1]
      /\ shadow' = Front(shadow) /\ UNCHANGED <<binary, prog, pass, regs, mem>>
  BY DEF ExecRET, Executing, compileVars, cgVars
<1>2. StackInv /\ RegsInv /\ CodeFits /\ pass = "done"
  BY <1>1, NextInstruction DEF MachineInv, Running
<1>3. PICK i : AtInstruction(i)
  BY <1>1, NextInstruction
<1>4. /\ i \in DOMAIN Code(Top) /\ LaidOut(Code(Top), Lay(Top), DOMAIN prog)
      /\ Active(Code(Top), Lay(Top), i, Top, regs, mem)
      /\ Fetch = Code(Top)[i] /\ Top.sp \in Int /\ n \in Nat \ {0}
  BY <1>3 DEF AtInstruction
<1>5. regs[X2] = Top.sp /\ \A r \in CSR_RV32I : regs[r] = EntryVal(Top, r)
  <2>1. IsReturn(Code(Top)[i])
    BY <1>1, <1>4 DEF IsReturn
  <2> QED BY <1>4, <2>1, ReturnRestores
<1>6. pc' = Top.ra
  BY <1>1, <1>5, PreservedLemma DEF EntryVal
<1>7. RegsInv' /\ CodeFits' /\ pass' = "done"
  BY <1>1, <1>2 DEF RegsInv, CodeFits
<1>8. CASE n = 1
  <2>1. Top.ra = Halt
    BY <1>2, <1>8 DEF StackInv, Top
  <2> QED BY <1>6, <1>7, <2>1 DEF MachineInv
<1>9. CASE n # 1
  <2>1. PICK S : shadow \in Seq(S)
    BY <1>2 DEF StackInv
  <2>3. /\ n \in Nat /\ n - 1 \in Nat /\ n - 1 \in 1 .. n /\ n \in 1 .. n
        /\ (n - 1) + 1 = n /\ n - 1 <= n
    <3>1. n \in Nat \ {0}
      BY <1>4
    <3> HIDE DEF n
    <3> QED BY <1>9, <3>1
  <2>2. /\ shadow' \in Seq(S) /\ Len(shadow') = n - 1
        /\ \A j \in 1 .. n - 1 : shadow'[j] = shadow[j]
    <3>1. Len(shadow) >= 1
      BY <2>3
    <3> QED BY <1>1, <2>1, <3>1, FrontLemma
  <2>4. DOMAIN shadow = 1 .. n /\ DOMAIN shadow' = 1 .. n - 1
    BY <2>1, <2>2
  <2>5. /\ Suspended(Code(c), Lay(c), c, Top, mem) /\ c.fn \in DOMAIN binary
    BY <1>2, <2>3, <2>4 DEF StackInv, Top
  <2>6. LaidOut(Code(c), Lay(c), DOMAIN prog)
    BY <2>5, LayLemma
  <2>7. PICK q \in DOMAIN Code(c) :
          /\ Code(c)[q].op = "PseudoCALL"
          /\ Top.ra = FunctionSpace * c.fn + (q + 1)
    BY <2>5 DEF Suspended
  <2>8. \A r \in PreservedRegs : regs[r] = Top.saved[r]
    BY <1>5, PreservedLemma DEF EntryVal, PreservedRegs
  <2>9. q + 1 \in DOMAIN Code(c) /\ Active(Code(c), Lay(c), q + 1, c, regs, mem)
    BY <1>5, <2>5, <2>6, <2>7, <2>8, ActiveReturned
  <2>10. Top' = c
    BY <2>2, <2>3 DEF Top
  <2> HIDE DEF c
  <2>11. TopInv'
    BY <1>1, <1>6, <2>7, <2>9, <2>10 DEF TopInv, Code, Lay
  <2>12. ASSUME NEW j \in 1 .. n - 1
         PROVE  /\ IsActivation(shadow'[j]) /\ shadow'[j].fn \in DOMAIN binary
                /\ shadow'[j].sp \in Int /\ shadow'[j].sp % StackAlign = 0
                /\ \A k \in 1 .. n - 1 : j < k =>
                     shadow'[k].sp <= shadow'[j].sp - Lay(shadow'[j]).size
                /\ j + 1 \in 1 .. n - 1 =>
                     Suspended(Code(shadow'[j]), Lay(shadow'[j]), shadow'[j],
                               shadow'[j + 1], mem)
    <3>1. /\ \A k \in 1 .. n - 1 : shadow'[k] = shadow[k] /\ k \in DOMAIN shadow
      BY <2>2, <2>3, <2>4
    <3>2. shadow'[j] = shadow[j] /\ j \in DOMAIN shadow
      BY <3>1
    <3>3. /\ IsActivation(shadow[j]) /\ shadow[j].fn \in DOMAIN binary
          /\ shadow[j].sp \in Int /\ shadow[j].sp % StackAlign = 0
          /\ \A k \in DOMAIN shadow : j < k =>
               shadow[k].sp <= shadow[j].sp - Lay(shadow[j]).size
          /\ j + 1 \in DOMAIN shadow =>
               Suspended(Code(shadow[j]), Lay(shadow[j]), shadow[j],
                         shadow[j + 1], mem)
      BY <1>2, <3>2 DEF StackInv
    <3> HIDE DEF n
    <3> QED BY <3>1, <3>2, <3>3
  <2>13. StackInv'
    <3>1. (\E T : shadow \in Seq(T))'
      BY <2>2
    <3>2. shadow' # <<>> /\ shadow'[1].ra = Halt
      <4>1. 1 \in DOMAIN shadow' /\ shadow'[1] = shadow[1]
        BY <1>9, <2>2, <2>3, <2>4
      <4> QED BY <1>2, <4>1 DEF StackInv
    <3>3. \A x : Code(x)' = Code(x) /\ Lay(x)' = Lay(x)
      BY <1>1 DEF Code, Lay
    <3>4. \A j \in DOMAIN shadow' :
            /\ IsActivation(shadow'[j]) /\ shadow'[j].fn \in DOMAIN binary'
            /\ shadow'[j].sp \in Int /\ shadow'[j].sp % StackAlign = 0
            /\ \A k \in DOMAIN shadow' : j < k =>
                 shadow'[k].sp <= shadow'[j].sp
                   - LayoutOf(binary'[shadow'[j].fn], DOMAIN prog').size
            /\ j + 1 \in DOMAIN shadow' =>
                 Suspended(binary'[shadow'[j].fn],
                           LayoutOf(binary'[shadow'[j].fn], DOMAIN prog'),
                           shadow'[j], shadow'[j + 1], mem')
      BY <1>1, <2>4, <2>12 DEF Lay, Code
    <3> QED BY <3>1, <3>2, <3>4 DEF StackInv, Code, Lay
  <2> QED BY <1>7, <2>11, <2>13 DEF MachineInv
<1> QED BY <1>8, <1>9

(* The machine does not start before everything is compiled.               *)
LEMMA CompileKept ==
    ASSUME SelectedInv, LayoutInv, LayoutInv', MachineInv, Compile, pass # "done"
    PROVE  MachineInv'
<1>1. /\ CompileStep /\ CodeFits' /\ UNCHANGED <<pc, regs, mem, shadow>>
  BY DEF Compile, machineVars
<1>2. AtBoot /\ RegsInv
  BY DEF MachineInv
<1>3. prog' = prog
  BY <1>1 DEF CompileStep, BeginFunction, LowerFormalArguments,
     SelectConstant, SelectAdd, SelectFrameIndex, SelectLoad, SelectStore,
     ExpandDynamicStackAlloc, StartBlock, SelectBR, SelectBR_CC, Select,
     LowerCall, LowerReturn, FinishISel, RegAlloc,
     EliminateCallFramePseudoInstrs, SpillCalleeSavedRegisters,
     CalculateFrameObjectOffsets, emitPrologue, emitEpilogue,
     ReplaceFrameIndices, ExpandCopies, EmitFunction
<1>4. RegsInv'
  BY <1>1, <1>2 DEF RegsInv
<1>5. AtBoot'
  <2>1. Activated(1, BootRegs, BootMem)' = Activated(1, BootRegs, BootMem)
    BY <1>3 DEF Activated
  <2> QED BY <1>1, <1>2, <2>1 DEF AtBoot
<1>6. ASSUME pass' = "done" PROVE StackInv' /\ TopInv'
  <2> DEFINE a == Activated(1, BootRegs, BootMem)
  <2>1. /\ IsActivation(a) /\ a.fn = 1 /\ a.ra = BootRegs[X1]
        /\ a.sp = BootRegs[X2]
        /\ \A q \in CSR_RV32I : BootRegs[q] = EntryVal(a, q)
    BY ActivatedLemma
  <2>2. BootRegs[X1] = Halt /\ BootRegs[X2] = StackTop
    BY PreservedLemma DEF BootRegs, X0, X1, X2
  <2> HIDE DEF a
  <2>3. a.sp \in Int /\ a.sp % StackAlign = 0
    BY <2>1, <2>2, StackAssumption DEF StackAlign
  <2>4. shadow' = <<a>> /\ regs' = BootRegs /\ pc' = Entry(1) /\ mem' = BootMem
    BY <1>1, <1>2 DEF AtBoot, a
  <2>5. DOMAIN binary' = DOMAIN prog /\ 1 \in DOMAIN prog
    <3>1. prog \in Seq(Function) /\ prog # <<>>
      BY ProgramsAssumption DEF SelectedInv
    <3> QED BY <1>3, <1>6, <3>1 DEF LayoutInv
  <2> DEFINE b == binary'[1]
             l == LayoutOf(binary'[1], DOMAIN prog')
  <2>7. LaidOut(b, l, DOMAIN prog')
    <3>1. \E x : LaidOut(b, x, DOMAIN prog')
      BY <2>5 DEF LayoutInv
    <3> QED BY <3>1, Zenon DEF LayoutOf
  <2>8. 1 \in DOMAIN b
    BY <2>7, RegionsLemma
  <2>9. Active(b, l, 1, a, BootRegs, BootMem)
    <3> HIDE DEF b, l
    <3> QED BY <2>1, <2>3, <2>7, ActiveEntry
  <2>10. Len(shadow') = 1 /\ shadow'[1] = a /\ DOMAIN shadow' = {1}
         /\ shadow' \in Seq({a}) /\ shadow' # <<>>
    BY <2>4
  <2>11. TopInv'
    <3>1. Top' = a
      BY <2>10 DEF Top
    <3>2. pc' = FunctionSpace * a.fn + 1
      BY <2>1, <2>4 DEF Entry
    <3> QED BY <2>1, <2>4, <2>8, <2>9, <3>1, <3>2 DEF TopInv, Code, Lay
  <2>12. StackInv'
    <3>1. (\E T : shadow \in Seq(T))'
      BY <2>10
    <3>2. ~(1 < 1) /\ 1 + 1 # 1
      OBVIOUS
    <3> QED BY <2>1, <2>2, <2>3, <2>5, <2>10, <3>1, <3>2 DEF StackInv
  <2> QED BY <2>11, <2>12
<1> QED BY <1>1, <1>4, <1>5, <1>6 DEF MachineInv

(* The machine starts as the start-up code leaves it.                      *)
LEMMA MachineInit == Init => MachineInv
<1> SUFFICES ASSUME Init PROVE MachineInv
  OBVIOUS
<1>1. /\ pass = "alloca" /\ binary = <<>> /\ pc = Entry(1) /\ regs = BootRegs
      /\ mem = BootMem /\ shadow = <<Activated(1, BootRegs, BootMem)>>
  BY DEF Init, CodegenInit
<1>2. CodeFits
  BY <1>1 DEF CodeFits
<1>3. GPR \subseteq Int /\ X0 \in GPR
  BY DEF GPR, X0
<1>4. BootRegs \in [GPR -> Int] /\ BootRegs[X0] = 0
  <2>1. ASSUME NEW r \in GPR PROVE BootRegs[r] \in Int
    <3>1. /\ BootRegs[r] = CASE r = X0 -> 0 [] r = X1 -> Halt
                              [] r = X2 -> StackTop [] OTHER -> -r
          /\ r \in Int
      BY <1>3 DEF BootRegs
    <3> QED BY <3>1, StackAssumption DEF Halt, X0, X1, X2
  <2>2. BootRegs[X0] = 0
    BY <1>3 DEF BootRegs, X0, X1, X2
  <2>3. BootRegs = [r \in GPR |-> BootRegs[r]]
    BY DEF BootRegs
  <2> QED BY <2>1, <2>2, <2>3
<1>5. BootMem \in [Addresses -> Int]
  BY StackAssumption DEF BootMem, Addresses
<1> QED BY <1>1, <1>2, <1>4, <1>5 DEF MachineInv, RegsInv, AtBoot

(* A step that changes none of its variables keeps the invariant.          *)
LEMMA MachineStutters == MachineInv /\ UNCHANGED vars => MachineInv'
<1> SUFFICES ASSUME MachineInv, UNCHANGED vars PROVE MachineInv'
  OBVIOUS
<1>1. /\ prog' = prog /\ binary' = binary /\ pass' = pass /\ pc' = pc
      /\ regs' = regs /\ mem' = mem /\ shadow' = shadow
  BY DEF vars, compileVars, cgVars, machineVars
<1>2. CodeFits' /\ RegsInv'
  BY <1>1 DEF MachineInv, CodeFits, RegsInv
<1>3. ASSUME pass # "done" PROVE AtBoot'
  BY <1>1, <1>3 DEF MachineInv, AtBoot, Activated
<1>4. ASSUME pass = "done", pc # Halt PROVE StackInv' /\ TopInv'
  BY <1>1, <1>4 DEF MachineInv, StackInv, TopInv, Top, Code, Lay
<1> QED BY <1>1, <1>2, <1>3, <1>4 DEF MachineInv

(* Nothing is compiled after the last pass of the last function.           *)
LEMMA CompileNotDone == CompileStep => pass # "done"
BY DEF CompileStep, BeginFunction, LowerFormalArguments, Selecting,
     SelectConstant, SelectAdd, SelectFrameIndex, SelectLoad, SelectStore,
     ExpandDynamicStackAlloc, StartBlock, SelectBR, SelectBR_CC,
     LowerCall, LowerReturn, FinishISel, RegAlloc,
     EliminateCallFramePseudoInstrs, SpillCalleeSavedRegisters,
     CalculateFrameObjectOffsets, emitPrologue, emitEpilogue,
     ReplaceFrameIndices, ExpandCopies, EmitFunction

(* Every step of the compiler or of the machine keeps the invariant.       *)
LEMMA MachineStep ==
    ASSUME SelectedInv, LayoutInv, LayoutInv', PointersMissSaves, MachineInv,
           [Next]_vars
    PROVE  MachineInv'
<1>1. CASE Compile
  <2>1. pass # "done"
    BY <1>1, CompileNotDone DEF Compile
  <2> QED BY <1>1, <2>1, CompileKept
<1>2. CASE ExecADDI \/ ExecADD \/ ExecSUB \/ ExecLW
  BY <1>2, ExecArithmeticKept
<1>3. CASE ExecSW
  BY <1>3, ExecSWKept
<1>4. CASE ExecBranch \/ ExecJ
  BY <1>4, ExecJumpKept
<1>5. CASE ExecCALL
  <2>1. prog \in Seq(Function)
    BY ProgramsAssumption DEF SelectedInv
  <2> QED BY <1>5, <2>1, ExecCALLKept
<1>6. CASE ExecRET
  BY <1>6, ExecRETKept
<1>7. CASE UNCHANGED vars
  BY <1>7, MachineStutters
<1>8. CASE Stopped
  BY <1>8, MachineStutters DEF Stopped
<1> QED BY <1>1, <1>2, <1>3, <1>4, <1>5, <1>6, <1>7, <1>8 DEF Next, ExecStep

(* The compiler inside the machine is the compiler.                        *)
LEMMA ExecCompiles == Spec => CompileSpec
<1>1. Init => CodegenInit
  BY DEF Init
<1>2. ASSUME [Next]_vars PROVE [CompileStep]_compileVars
  <2>1. CASE Compile
    BY <2>1 DEF Compile
  <2>2. CASE ExecStep
    BY <2>2 DEF ExecStep, ExecADDI, ExecADD, ExecSUB, ExecLW, ExecSW,
         ExecBranch, ExecJ, ExecCALL, ExecRET, Advance
  <2>3. CASE UNCHANGED vars
    BY <2>3 DEF vars
  <2> QED BY <1>2, <2>1, <2>2, <2>3 DEF Next, Stopped
<1> QED BY <1>1, <1>2, PTL DEF Spec, CompileSpec

(* What the code the machine runs has from the compiler.                   *)
CompiledInv == SelectedInv /\ LayoutInv

(* The compiler leaves such code of every plain program.                   *)
LEMMA CompilesPlain == Spec /\ PlainProgram => []CompiledInv
<1>1. ControlInv => LayoutInv
  BY DEF ControlInv
<1>2. CodegenInv => SelectedInv
  BY DEF CodegenInv
<1> QED BY <1>1, <1>2, ExecCompiles, CompiledControl, CodegenInvariant, PTL
          DEF CompiledInv

(* While compiled code runs, every activation on the stack has its frame   *)
(* below that of its caller, the callee-saved registers of every caller    *)
(* are in its frame or in the registers, and SP is where the prologue or   *)
(* the epilogue of the running procedure has brought it.                   *)
THEOREM MachineInvariant ==
    Spec /\ PlainProgram /\ []PointersMissSaves => []MachineInv
<1>1. ASSUME CompiledInv, CompiledInv', PointersMissSaves, MachineInv, [Next]_vars
      PROVE  MachineInv'
  BY <1>1, MachineStep DEF CompiledInv
<1> QED BY <1>1, CompilesPlain, MachineInit, PTL DEF Spec

(* The layout of the code and the machine that runs it, together.          *)
LEMMA ExecInvariant ==
    Spec /\ PlainProgram /\ []PointersMissSaves => [](LayoutInv /\ MachineInv)
<1>1. ControlInv => LayoutInv
  BY DEF ControlInv
<1> QED BY <1>1, ExecCompiles, CompiledControl, MachineInvariant, PTL

(* Prologue, epilogue, saves and restores of a compiled function cancel    *)
(* out across every call made in between: a procedure about to return has  *)
(* SP, the return address and the registers of CSR_RV32I as it found them. *)
THEOREM CompiledCallerStateRestored ==
    Spec /\ PlainProgram /\ []PointersMissSaves => []CallerStateRestored
<1>1. LayoutInv /\ MachineInv => CallerStateRestored
  <2> SUFFICES ASSUME LayoutInv, MachineInv, AtReturn,
                      NEW a, a = Last(shadow)
               PROVE  /\ regs[X2] = a.sp /\ regs[X1] = a.ra
                      /\ \A r \in PreservedRegs : regs[r] = a.saved[r]
    BY DEF CallerStateRestored
  <2>1. Running /\ Fetch.op = "PseudoRET"
    BY DEF AtReturn, Executing
  <2>2. PICK i : AtInstruction(i)
    BY <2>1, NextInstruction
  <2>3. /\ i \in DOMAIN Code(Top) /\ LaidOut(Code(Top), Lay(Top), DOMAIN prog)
        /\ Active(Code(Top), Lay(Top), i, Top, regs, mem)
        /\ Fetch = Code(Top)[i] /\ Top.sp \in Int /\ Top = a
    BY <2>2 DEF AtInstruction
  <2>4. regs[X2] = a.sp /\ \A r \in CSR_RV32I : regs[r] = EntryVal(a, r)
    <3>1. IsReturn(Code(Top)[i])
      BY <2>1, <2>3 DEF IsReturn
    <3> QED BY <2>3, <3>1, ReturnRestores
  <2> QED BY <2>4, PreservedLemma DEF EntryVal, PreservedRegs
<1> QED BY <1>1, ExecInvariant, PTL

(* A call is made with the stack pointer a multiple of 16.                 *)
THEOREM CompiledCalleeStackAligned ==
    Spec /\ PlainProgram /\ []PointersMissSaves => []CalleeStackAligned
<1>1. LayoutInv /\ MachineInv => CalleeStackAligned
  <2> SUFFICES ASSUME LayoutInv, MachineInv, Executing("PseudoCALL")
               PROVE  regs[X2] % StackAlign = 0
    BY DEF CalleeStackAligned
  <2>1. Running /\ Fetch.op = "PseudoCALL"
    BY DEF Executing
  <2>2. PICK i : AtInstruction(i)
    BY <2>1, NextInstruction
  <2>3. /\ i \in DOMAIN Code(Top) /\ LaidOut(Code(Top), Lay(Top), DOMAIN prog)
        /\ Active(Code(Top), Lay(Top), i, Top, regs, mem)
        /\ Code(Top)[i].op = "PseudoCALL"
        /\ Top.sp \in Int /\ Top.sp % StackAlign = 0
    BY <2>1, <2>2 DEF AtInstruction
  <2>4. /\ regs[X2] = Top.sp - Lay(Top).size
        /\ Lay(Top).size % StackAlign = 0 /\ Lay(Top).size \in Nat
    BY <2>3, CallSuspends
  <2> DEFINE y == Top.sp
             z == Lay(Top).size
  <2>5. /\ y \in Int /\ z \in Int /\ y % StackAlign = 0 /\ z % StackAlign = 0
        /\ regs[X2] = y - z
    BY <2>3, <2>4
  <2> HIDE DEF y, z
  <2> QED BY <2>5, AlignedDifference
<1> QED BY <1>1, ExecInvariant, PTL

(* Execution leaves a procedure only by its own return or into one it      *)
(* calls.                                                                  *)
THEOREM CompiledStaysInProcedure ==
    Spec /\ PlainProgram /\ []PointersMissSaves => []StaysInProcedure
<1>1. LayoutInv /\ MachineInv => StaysInProcedure
  <2> SUFFICES ASSUME LayoutInv, MachineInv, Running
               PROVE  Address[1] = Last(shadow).fn
    BY DEF StaysInProcedure
  <2>1. PICK i : AtInstruction(i)
    BY NextInstruction
  <2> QED BY <2>1 DEF AtInstruction
<1> QED BY <1>1, ExecInvariant, PTL

(* The program counter stays inside the emitted code, and the registers    *)
(* and the stack hold words.                                               *)
THEOREM ExecTypeCorrect ==
    Spec /\ PlainProgram /\ []PointersMissSaves => []ExecTypeOK
<1>1. LayoutInv /\ MachineInv => ExecTypeOK
  <2> SUFFICES ASSUME LayoutInv, MachineInv PROVE ExecTypeOK
    OBVIOUS
  <2>1. RegsInv
    BY DEF MachineInv
  <2>2. ASSUME pass = "done", pc # Halt PROVE InCode(pc)
    <3>1. PICK i : AtInstruction(i)
      BY <2>2, NextInstruction DEF Running
    <3> QED BY <3>1 DEF AtInstruction
  <2> QED BY <2>1, <2>2 DEF ExecTypeOK, RegsInv
<1> QED BY <1>1, ExecInvariant, PTL
-----------------------------------------------------------------------------
(* A save of a callee-saved register and a store to a local, spilled or    *)
(* saved object that goes through SP itself stays inside the frame of the  *)
(* running procedure: at or above SP, where the frame is allocated, and    *)
(* below the SP the procedure was entered with, where its caller's begins. *)
SPStoresInFrame ==
    Executing("SW") /\ Fetch.rs1 = X2 =>
      regs[X2] <= Accessed /\ Accessed < Last(shadow).sp

(* What is at hand when the machine stores through SP.                     *)
LEMMA SPStoreStays == LayoutInv /\ MachineInv => SPStoresInFrame
<1> SUFFICES ASSUME LayoutInv, MachineInv, Executing("SW"), Fetch.rs1 = X2
             PROVE  regs[X2] <= Accessed /\ Accessed < Last(shadow).sp
  BY DEF SPStoresInFrame
<1> DEFINE b == Code(Top)
           l == Lay(Top)
<1>1. Running /\ Fetch.op = "SW"
  BY DEF Executing
<1>2. PICK i : AtInstruction(i)
  BY <1>1, NextInstruction
<1>3. /\ i \in DOMAIN b /\ LaidOut(b, l, DOMAIN prog)
      /\ Active(b, l, i, Top, regs, mem)
      /\ Fetch = b[i] /\ Top.sp \in Int /\ Last(shadow) = Top
  BY <1>2 DEF AtInstruction
<1> HIDE DEF b, l
<1>4. b[i].op = "SW" /\ b[i].rs1 = X2
  BY <1>1, <1>3
<1>5. regs[X2] = Top.sp - Lowered(b, l, i)
  BY <1>3 DEF Active
<1>6. Accessed = (Top.sp - Lowered(b, l, i)) + b[i].imm
  BY <1>3, <1>4, <1>5 DEF Accessed
<1>7. Top.sp - l.size <= Accessed /\ Accessed < Top.sp
  BY <1>3, <1>4, <1>6, StoreLemma
<1>8. Lowered(b, l, i) = l.size
  BY <1>3, <1>4, LoweredLemma
<1> QED BY <1>3, <1>5, <1>7, <1>8

(* No store through SP leaves the frame of its procedure: the part of      *)
(* StoresStayInFrame that does not depend on what the program's pointers   *)
(* point to.                                                               *)
THEOREM CompiledSPStoresInFrame ==
    Spec /\ PlainProgram /\ []PointersMissSaves => []SPStoresInFrame
BY SPStoreStays, ExecInvariant, PTL
-----------------------------------------------------------------------------
(* Pointers that stay in their own frame.                                  *)

(* A procedure stores through pointers into its own frame only, and not    *)
(* where it keeps a callee-saved register.  Nothing is said of the frames  *)
(* of others.                                                              *)
PointersInFrame ==
    Executing("SW") /\ Fetch.rs1 # X2 =>
      /\ regs[X2] <= Accessed /\ Accessed < Last(shadow).sp
      /\ Accessed \notin SaveWords(Last(shadow))

(* The words of the saved registers of an activation lie in its frame.     *)
LEMMA SaveWordsInFrame ==
    ASSUME LayoutInv, NEW a, a.fn \in DOMAIN binary, a.sp \in Int,
           NEW w \in SaveWords(a)
    PROVE  w \in Int /\ a.sp - Lay(a).size <= w
<1> DEFINE b == Code(a)
           l == Lay(a)
           n == IF b[1].op = "ADDI" /\ b[1].rd = X2 THEN -b[1].imm ELSE 0
<1>1. LaidOut(b, l, DOMAIN prog)
  BY LayLemma
<1>2. PICK p \in DOMAIN b : /\ b[p].op = "SW" /\ b[p].rs1 = X2
                            /\ w = a.sp - n + b[p].imm
  BY DEF SaveWords, Code
<1> HIDE DEF b, l
<1>3. l.size \in Nat /\ l.size # 0 => l.pre = 1
  BY <1>1, RegionsLemma
<1>4. Lowered(b, l, p) = l.size
  BY <1>1, <1>2, LoweredLemma
<1>5. /\ (a.sp - l.size) + b[p].imm \in Int
      /\ a.sp - l.size <= (a.sp - l.size) + b[p].imm
      /\ (a.sp - l.size) + b[p].imm < a.sp
  BY <1>1, <1>2, <1>4, StoreLemma
<1>6. l.size \in Nat /\ l.pre \in {0, 1} /\ b[1] \in MCInst
  BY <1>1, RegionsLemma
<1>7. n = l.size
  <2>1. l.size # 0
    BY <1>5, <1>6
  <2>2. IsAdjustment(b[1], -l.size)
    BY <1>1, <1>3, <1>6, <2>1 DEF LaidOut, MovesSP
  <2> QED BY <1>6, <2>2 DEF IsAdjustment
<1> HIDE DEF n
<1> QED BY <1>2, <1>5, <1>7 DEF l

(* The frames of the callers lie above, out of reach of such a store.      *)
LEMMA OwnFrameSuffices ==
    ASSUME LayoutInv, MachineInv, PointersInFrame
    PROVE  PointersMissSaves
<1> SUFFICES ASSUME Executing("SW"), Fetch.rs1 # X2, NEW k \in DOMAIN shadow,
                    Accessed \in SaveWords(shadow[k])
             PROVE  FALSE
  BY DEF PointersMissSaves
<1> DEFINE n == Len(shadow)
<1>1. StackInv /\ \E i : AtInstruction(i)
  BY NextInstruction DEF Executing
<1>2. n \in Nat \ {0} /\ Top = Last(shadow) /\ Top = shadow[n] /\ Top.sp \in Int
  BY <1>1 DEF AtInstruction, Top
<1>3. Accessed < Top.sp /\ Accessed \notin SaveWords(Top)
  BY <1>2 DEF PointersInFrame
<1>4. DOMAIN shadow = 1 .. n
  BY <1>1 DEF StackInv
<1>5. /\ shadow[k].fn \in DOMAIN binary /\ shadow[k].sp \in Int
      /\ \A j \in DOMAIN shadow :
           k < j => shadow[j].sp <= shadow[k].sp - Lay(shadow[k]).size
  BY <1>1 DEF StackInv
<1>6. /\ Accessed \in Int
      /\ shadow[k].sp - Lay(shadow[k]).size <= Accessed
  BY <1>5, SaveWordsInFrame
<1>7. k # n
  BY <1>2, <1>3
<1> HIDE DEF n
<1>8. n \in DOMAIN shadow /\ k < n
  BY <1>2, <1>4, <1>7
<1>9. Top.sp <= shadow[k].sp - Lay(shadow[k]).size
  BY <1>2, <1>5, <1>8
<1>10. Lay(shadow[k]).size \in Nat
  BY <1>5, LayLemma, RegionsLemma
<1> QED BY <1>2, <1>3, <1>5, <1>6, <1>9, <1>10

(* Compiled code keeps the frames of all active procedures apart, so that  *)
(* pointers into one's own frame reach no saved register of a caller.      *)
THEOREM CompiledPointersMissSaves ==
    Spec /\ PlainProgram /\ []PointersInFrame => []PointersMissSaves
<1>1. ASSUME CompiledInv, CompiledInv', PointersInFrame, MachineInv, [Next]_vars
      PROVE  MachineInv'
  BY <1>1, OwnFrameSuffices, MachineStep DEF CompiledInv
<1>2. CompiledInv /\ PointersInFrame /\ MachineInv => PointersMissSaves
  BY OwnFrameSuffices DEF CompiledInv
<1> QED BY <1>1, <1>2, CompilesPlain, MachineInit, PTL DEF Spec

(* The stack changes by stores only.                                       *)
LEMMA StoresOnly ==
    ASSUME LayoutInv, MachineInv, PointersInFrame, [Next]_vars,
           NEW a \in Addresses, mem'[a] # mem[a]
    PROVE  regs[X2] <= a /\ a < Last(shadow).sp
<1>1. ExecSW
  BY DEF Next, Compile, Stopped, ExecStep, ExecADDI, ExecADD, ExecSUB, ExecLW,
       ExecBranch, ExecJ, ExecCALL, ExecRET, vars, machineVars
<1>2. /\ Executing("SW") /\ mem' = [mem EXCEPT ![Accessed] = regs[Fetch.rs2]]
      /\ mem \in [Addresses -> Int]
  BY <1>1 DEF ExecSW, MachineInv, RegsInv
<1>3. a = Accessed
  BY <1>2
<1> QED BY <1>2, <1>3, SPStoreStays DEF SPStoresInFrame, PointersInFrame

(* No store of a compiled procedure, be it of its own, a spill, a save or  *)
(* an outgoing argument, leaves its frame, whatever other procedures run.  *)
THEOREM CompiledStoresStayInFrame ==
    Spec /\ PlainProgram /\ []PointersInFrame => StoresStayInFrame
<1> DEFINE A == \A a \in Addresses :
                  mem'[a] # mem[a] => regs[X2] <= a /\ a < Last(shadow).sp
<1>1. ASSUME LayoutInv, MachineInv, PointersInFrame, [Next]_vars PROVE [A]_vars
  BY <1>1, StoresOnly DEF A
<1> HIDE DEF A
<1>2. Spec /\ PlainProgram /\ []PointersInFrame => [][A]_vars
  BY <1>1, CompiledPointersMissSaves, ExecInvariant, PTL DEF Spec
<1> QED BY <1>2 DEF StoresStayInFrame, A
=============================================================================
