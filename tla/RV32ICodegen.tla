---------------------------- MODULE RV32ICodegen ----------------------------
(***************************************************************************)
(* The code generator: one function after another goes through the         *)
(* pipeline RV32IPassConfig sets up, from LLVM IR to the instructions the  *)
(* AsmPrinter emits.                                                       *)
(*                                                                         *)
(* A program is a sequence of functions in layout order.  A function       *)
(*   [args, results : Nat, slots : Seq(Object), body : Seq(statement)]     *)
(* computes with SSA values 1, 2, ...; its arguments are 1 .. args.  The   *)
(* body lists the blocks in layout order, each after the first starting    *)
(* with a label; there are no phis (what a block leaves for others at run  *)
(* time is in slots).                                                      *)
(*                                                                         *)
(* A machine instruction is a record with a destination register, two      *)
(* sources, an immediate and, where rs1 stands for one, a frame index.     *)
(* Registers from 32 up are virtual.  NoReg marks an absent operand.       *)
(*                                                                         *)
(* The register allocator is LLVM's.  RegAlloc models it by its contract   *)
(* (values with overlapping live ranges, or clobbered by a call's register *)
(* mask, never share a register) over a choice of allocation orders and    *)
(* spilled values.                                                         *)
(*                                                                         *)
(* The constants of RV32IFrame bound what a function may contain; every    *)
(* step that touches the frame is one of RV32IFrame's, so that CompileSpec *)
(* implements FrameSpec (RV32ICodegen_proofs).                             *)
(***************************************************************************)
EXTENDS RV32IFrame, RV32ICondCodes, SequencesExt, FiniteSets

CONSTANTS
    Programs,          \* the programs that may be compiled
    AllocationOrders   \* the orders in which the allocator may try registers

VARIABLES
    prog,    \* the program being compiled
    cur,     \* the function being compiled
    pass,    \* the pass that runs next on it
    todo,    \* the statements of it not selected yet
    code,    \* its machine instructions so far
    binary   \* the emitted code of the functions before it

cgVars == <<prog, cur, pass, todo, code, binary>>
compileVars == <<cgVars, frameVars>>

Fn == prog[cur]
-----------------------------------------------------------------------------
(* The IR: every statement defines and reads SSA values, and takes the     *)
(* address of locals its function has.                                     *)

SSAValue == Nat \ {0}
Block == Nat
CondCodes == {"SETEQ", "SETNE", "SETLT", "SETGE", "SETLE", "SETGT",
              "SETULT", "SETUGE", "SETULE", "SETUGT"}
Statement ==
    [op : {"const"}, dst : SSAValue, imm : Int]
    \cup [op : {"add"}, dst : SSAValue, a : SSAValue, b : SSAValue]
    \cup [op : {"addr"}, dst : SSAValue, slot : Nat]
    \cup [op : {"load"}, dst : SSAValue, ptr : SSAValue]
    \cup [op : {"store"}, ptr : SSAValue, val : SSAValue]
    \cup [op : {"alloca"}, dst : SSAValue, bytes : SSAValue]
    \cup [op : {"call"}, dsts : Seq(SSAValue), fn : Nat,
          args : Seq(SSAValue), tail : BOOLEAN]
    \cup [op : {"ret"}, vals : Seq(SSAValue)]
    \cup [op : {"label"}, block : Block]
    \cup [op : {"br"}, to : Block]
    \cup [op : {"br_cc"}, cc : CondCodes, a : SSAValue, b : SSAValue,
          to : Block, else : Block]
Function == [args : Nat, results : Nat, slots : Seq(Object),
             body : Seq(Statement)]

(* What the IR verifier has made sure of: every block ends in a terminator, *)
(* branches go to blocks of the function, calls to functions of the        *)
(* program, and addresses are taken of locals the function has.            *)
Terminators == {"ret", "br", "br_cc"}
ASSUME ProgramsAssumption == \A p \in Programs :
    /\ p \in Seq(Function) /\ p # <<>>
    /\ \A f \in DOMAIN p :
         LET body == p[f].body
             blocks == {body[k].block : k \in {k \in DOMAIN body :
                                                 body[k].op = "label"}}
         IN  /\ body # <<>> /\ Last(body).op \in Terminators
             /\ \A k \in DOMAIN body :
                  /\ body[k].op = "addr" => body[k].slot \in DOMAIN p[f].slots
                  /\ body[k].op \in {"br", "br_cc"} => body[k].to \in blocks
                  /\ body[k].op = "br_cc" => body[k].else \in blocks
                  /\ body[k].op = "call" => body[k].fn \in DOMAIN p
ASSUME OrdersAssumption == AllocationOrders \subseteq Seq(GPR)
-----------------------------------------------------------------------------
(* Machine instructions.                                                   *)

NoReg == -1
IsVirtual(r) == r >= 32

Instr(op, rd, rs1, rs2, imm) ==
    [op |-> op, rd |-> rd, rs1 |-> rs1, rs2 |-> rs2, imm |-> imm,
     fi |-> 0, sym |-> 0, implicit |-> {}]

ADDI(rd, rs1, imm) == Instr("ADDI", rd, rs1, NoReg, imm)
ADD(rd, rs1, rs2) == Instr("ADD", rd, rs1, rs2, 0)
SUB(rd, rs1, rs2) == Instr("SUB", rd, rs1, rs2, 0)
LW(rd, rs1) == Instr("LW", rd, rs1, NoReg, 0)
SW(rs2, rs1) == Instr("SW", NoReg, rs1, rs2, 0)
COPY(rd, rs1) == Instr("COPY", rd, rs1, NoReg, 0)
ADJCALLSTACKDOWN(n) == Instr("ADJCALLSTACKDOWN", NoReg, NoReg, NoReg, n)
ADJCALLSTACKUP(n) == Instr("ADJCALLSTACKUP", NoReg, NoReg, NoReg, n)
PseudoCALL(f, uses) ==
    [Instr("PseudoCALL", NoReg, NoReg, NoReg, 0)
       EXCEPT !.sym = f, !.implicit = uses]
PseudoRET(uses) ==
    [Instr("PseudoRET", NoReg, NoReg, NoReg, 0) EXCEPT !.implicit = uses]

Branch(opc, rs1, rs2, blk) ==
    [Instr(opc, NoReg, rs1, rs2, 0) EXCEPT !.sym = blk]
PseudoBR(blk) == [Instr("PseudoBR", NoReg, NoReg, NoReg, 0) EXCEPT !.sym = blk]

(* Where a block starts; no instruction, but kept among them.              *)
LABEL(blk) == [Instr("LABEL", NoReg, NoReg, NoReg, 0) EXCEPT !.sym = blk]

Branches == {BranchOpcode[cc] : cc \in DOMAIN BranchOpcode}
IsJump(i) == i.op \in Branches \cup {"PseudoBR"}

(* rs1 is the frame index fi.                                              *)
WithFI(i, fi) == [i EXCEPT !.fi = fi]

Uses(i) == {i.rs1, i.rs2} \cup i.implicit

(* The physical registers an instruction leaves changed: the register mask *)
(* of a call preserves CSR_RV32I, but PseudoCALL itself defines X1.        *)
Clobbers_mask(i) ==    \* mutant: PseudoCALL without Defs = [X1]
    IF i.op = "PseudoCALL" THEN GPR \ CSR_RV32I ELSE {i.rd}
Clobbers(i) == IF i.op = "PseudoCALL" THEN (GPR \ CSR_RV32I) \cup {X1}
                                      ELSE {i.rd}
-----------------------------------------------------------------------------
(* Instruction selection, one action per kind of IR statement.             *)

VReg(v) == 31 + v
Temp(k) == 100 * (Len(code) + 1) + k    \* the k-th scratch value of a statement

CodegenInit ==
    /\ prog \in Programs
    /\ cur = 1 /\ pass = "alloca" /\ todo = <<>> /\ code = <<>>
    /\ binary = <<>>
    /\ FrameInit

(* FunctionLoweringInfo turns the static allocas into stack objects, so    *)
(* that the s-th one has frame index s.                                    *)
BeginFunction ==
    /\ pass = "alloca"
    /\ Fn.slots \in NewObjects
    /\ CreateStackObjects(Fn.slots)
    /\ pass' = "args"
    /\ todo' = Fn.body
    /\ UNCHANGED <<prog, cur, code, binary>>

LowerFormalArguments ==
    LET Incoming(i) ==
          LET VA == CC_RV32I(i)
          IN  IF VA.isReg THEN <<COPY(VReg(i), VA.loc)>>
              ELSE <<WithFI(ADDI(Temp(i), NoReg, 0), -(VA.loc \div 4 + 1)),
                     LW(VReg(i), Temp(i))>>
    IN  /\ pass = "args"
        /\ Fn.args \in ArgCounts
        /\ CreateFixedObjects(Fn.args)
        /\ code' = FlattenSeq([i \in 1 .. Fn.args |-> Incoming(i)])
        /\ pass' = "isel"
        /\ UNCHANGED <<prog, cur, todo, binary>>

(* The next statement is of kind op and is selected as instrs.             *)
Selecting(op) == pass = "isel" /\ todo # <<>> /\ Head(todo).op = op
Select(instrs) ==
    /\ code' = code \o instrs
    /\ todo' = Tail(todo)
    /\ UNCHANGED <<prog, cur, pass, binary>>

SelectConstant ==
    /\ Selecting("const")
    /\ isInt12(Head(todo).imm)
    /\ Select(<<ADDI(VReg(Head(todo).dst), X0, Head(todo).imm)>>)
    /\ UNCHANGED frameVars

SelectAdd ==
    /\ Selecting("add")
    /\ Select(<<ADD(VReg(Head(todo).dst), VReg(Head(todo).a),
                    VReg(Head(todo).b))>>)
    /\ UNCHANGED frameVars

(* ISD::FrameIndex becomes ADDI rd, <fi>, 0.                               *)
SelectFrameIndex ==
    /\ Selecting("addr")
    /\ Select(<<WithFI(ADDI(VReg(Head(todo).dst), NoReg, 0),
                       Head(todo).slot)>>)
    /\ UNCHANGED frameVars

SelectLoad ==
    /\ Selecting("load")
    /\ Select(<<LW(VReg(Head(todo).dst), VReg(Head(todo).ptr))>>)
    /\ UNCHANGED frameVars

SelectStore ==
    /\ Selecting("store")
    /\ Select(<<SW(VReg(Head(todo).val), VReg(Head(todo).ptr))>>)
    /\ UNCHANGED frameVars

StartBlock ==
    /\ Selecting("label")
    /\ Select(<<LABEL(Head(todo).block)>>)
    /\ UNCHANGED frameVars

(* SelectionDAGBuilder emits no branch to the block that follows, and      *)
(* inverts a condition whose true successor is that block.                 *)
Follows(blk) == Len(todo) > 1 /\ todo[2].op = "label" /\ todo[2].block = blk
Inverted == [SETEQ |-> "SETNE", SETNE |-> "SETEQ",
             SETLT |-> "SETGE", SETGE |-> "SETLT",
             SETLE |-> "SETGT", SETGT |-> "SETLE",
             SETULT |-> "SETUGE", SETUGE |-> "SETULT",
             SETULE |-> "SETUGT", SETUGT |-> "SETULE"]

SelectBR ==
    /\ Selecting("br")
    /\ Select(IF Follows(Head(todo).to) THEN <<>>
              ELSE <<PseudoBR(Head(todo).to)>>)
    /\ UNCHANGED frameVars

SelectBR_CC ==
    LET s == Head(todo)
        n == LoweredBR_CC(IF Follows(s.to) THEN Inverted[s.cc] ELSE s.cc,
                          VReg(s.a), VReg(s.b))
        dests == IF Follows(s.to) THEN <<s.else, s.to>> ELSE <<s.to, s.else>>
    IN  /\ Selecting("br_cc")
        /\ n.cc \in DOMAIN BranchOpcode
        /\ Select(<<Branch(BranchOpcode[n.cc], n.lhs, n.rhs, dests[1]),
                    PseudoBR(dests[2])>>)
        /\ UNCHANGED frameVars

(* DYNAMIC_STACKALLOC is Expand: LLVM subtracts the size from the register *)
(* setStackPointerRegisterToSaveRestore names.                             *)
ExpandDynamicStackAlloc_noSave ==    \* mutant: no stack pointer register named
    /\ Selecting("alloca")
    /\ Select(<<COPY(Temp(1), X2),
                SUB(VReg(Head(todo).dst), Temp(1), VReg(Head(todo).bytes))>>)
    /\ CreateVariableSizedObject
ExpandDynamicStackAlloc ==
    /\ Selecting("alloca")
    /\ Select(<<ADJCALLSTACKDOWN(0),
                COPY(Temp(1), X2),
                SUB(VReg(Head(todo).dst), Temp(1), VReg(Head(todo).bytes)),
                COPY(X2, VReg(Head(todo).dst)),
                ADJCALLSTACKUP(0)>>)
    /\ CreateVariableSizedObject

(* LowerCall, with LowerCallResult.  CLI.IsTailCall is left as it came:    *)
(* LLVM then takes the call for the end of the block and builds nothing    *)
(* after it, neither the copies of the results nor the return.             *)
OtherBlocks ==
    LET labels == {k \in DOMAIN todo : todo[k].op = "label"}
    IN  IF labels = {} THEN <<>> ELSE SubSeq(todo, Min(labels), Len(todo))
LowerCall ==
    LET s == Head(todo)
        n == Len(s.args)
        Loc(i) == CC_RV32I(i).loc
        InReg == {i \in 1 .. n : CC_RV32I(i).isReg}
        Stored(i) == <<COPY(Temp(2 * i), X2),
                       ADDI(Temp(2 * i + 1), Temp(2 * i), Loc(i)),
                       SW(VReg(s.args[i]), Temp(2 * i + 1))>>
        Passed(i) == <<COPY(Loc(i), VReg(s.args[i]))>>
        Result(k) == COPY(VReg(s.dsts[k]), RetCC_RV32I(k))
    IN  /\ Selecting("call")
        /\ n \in ArgCounts
        /\ NoteCallFrame(n)
        /\ code' = code \o <<ADJCALLSTACKDOWN(StackBytes(n))>>
                   \o FlattenSeq([i \in 1 .. n |->
                                    IF i \in InReg THEN <<>> ELSE Stored(i)])
                   \o FlattenSeq([i \in 1 .. n |->
                                    IF i \in InReg THEN Passed(i) ELSE <<>>])
                   \o <<PseudoCALL(s.fn, {Loc(i) : i \in InReg}),
                        ADJCALLSTACKUP(StackBytes(n))>>
                   \o IF s.tail THEN <<>>
                      ELSE [k \in 1 .. Len(s.dsts) |-> Result(k)]
        /\ todo' = IF s.tail THEN OtherBlocks ELSE Tail(todo)
        /\ UNCHANGED <<prog, cur, pass, binary>>

LowerReturn_noFlag ==    \* mutant: no RET_FLAG node is built
    /\ Selecting("ret")
    /\ Select([k \in 1 .. Len(Head(todo).vals) |->
                 COPY(RetCC_RV32I(k), VReg(Head(todo).vals[k]))])
    /\ UNCHANGED frameVars
LowerReturn ==
    LET vals == Head(todo).vals
    IN  /\ Selecting("ret")
        /\ Len(vals) <= MaxResults    \* AnalyzeReturn knows no other place
        /\ Select([k \in 1 .. Len(vals) |->
                     COPY(RetCC_RV32I(k), VReg(vals[k]))]
                  \o <<PseudoRET({X1} \cup {RetCC_RV32I(k) :
                                              k \in 1 .. Len(vals)})>>)
        /\ UNCHANGED frameVars

FinishISel ==
    /\ pass = "isel" /\ todo = <<>>
    /\ pass' = "regalloc"
    /\ UNCHANGED <<prog, cur, todo, code, binary, frameVars>>
-----------------------------------------------------------------------------
(* Register allocation (external).  A range [reg, from, to, val] says that *)
(* reg holds something from after instruction `from' until instruction     *)
(* `to' reads it; val is the SSA value, or NoReg for a use of the physical *)
(* register that the code itself prescribes.                               *)

Span(reg, from, to, val) ==
    [reg |-> reg, from |-> from, to |-> to, val |-> val]
Overlap(x, y) == x.from < y.to /\ y.from < x.to

(* Loops, from the label at the top to the branch back to it.  A value     *)
(* from before a loop stays alive to its end if it is read inside.         *)
Loops == {l \in (DOMAIN code) \X (DOMAIN code) :
            /\ l[1] < l[2] /\ code[l[1]].op = "LABEL"
            /\ IsJump(code[l[2]]) /\ code[l[2]].sym = code[l[1]].sym}
LiveRange(p) ==
    LET v == code[p].rd
        used == {q \in DOMAIN code : v \in Uses(code[q])}
        around == {l \in Loops : p < l[1] /\ \E q \in used : q \in l[1] .. l[2]}
    IN  Span(v, p, Max({p + 1} \cup used \cup {l[2] : l \in around}), v)

Defs == FlattenSeq([p \in DOMAIN code |->
                      IF IsVirtual(code[p].rd) THEN <<p>> ELSE <<>>])

(* A physical register is occupied where it is clobbered, and between the  *)
(* last write in the block (or the entry) and an instruction that reads it.*)
BlockStart(p) == Max({1} \cup {q \in 1 .. p : code[q].op = "LABEL"})
Occupied ==
    LET LastWrite(r, p) ==
          Max({0} \cup {q \in BlockStart(p) .. p - 1 : r \in Clobbers(code[q])})
    IN  UNION {{Span(r, p, p, NoReg) : r \in Clobbers(code[p])}
               \cup {Span(r, LastWrite(r, p), p, NoReg) : r \in Uses(code[p])}
               : p \in DOMAIN code}

(* Reloads and stores of spilled values go through two scratch registers.  *)
ScratchRegs == {30, 31}
Allocatable == GPR \ (ReservedRegs(hasFPImpl) \cup ScratchRegs)

(* Values in the order of their definitions take the first register of     *)
(* order that is free for them; a value for which none is free is spilled. *)
Assignment(order, spilled) ==
    LET Free(x, taken) ==
          {k \in DOMAIN order :
             /\ order[k] \in Allocatable
             /\ \A y \in taken : y.reg = order[k] => ~Overlap(x, y)}
        Take(taken, p) ==
          LET x == LiveRange(p)
              free == Free(x, taken)
          IN  IF x.val \in spilled \/ free = {} THEN taken
              ELSE taken \cup {[x EXCEPT !.reg = order[Min(free)]]}
    IN  FoldLeft(Take, Occupied, Defs)

CrossingCalls ==
    {code[p].rd : p \in {p \in ToSet(Defs) :
                          \E q \in DOMAIN code :
                            /\ code[q].op = "PseudoCALL"
                            /\ Overlap(LiveRange(p), Span(NoReg, q, q, NoReg))}}

storeRegToStackSlot_next(reg, fi) ==    \* mutant: the slot above
    WithFI(SW(reg, NoReg), fi + 1)
storeRegToStackSlot(reg, fi) == WithFI(SW(reg, NoReg), fi)
loadRegFromStackSlot(reg, fi) == WithFI(LW(reg, NoReg), fi)

(* Every operand of i gets its physical register; spilled sources are      *)
(* reloaded before i, a spilled destination is stored after it.            *)
Rewritten(i, asg, slot) ==
    LET Phys(r, scratch) == IF ~IsVirtual(r) THEN r
                            ELSE IF r \in DOMAIN asg THEN asg[r] ELSE scratch
        Reload(r, scratch) == IF r \in DOMAIN slot
                              THEN <<loadRegFromStackSlot(scratch, slot[r])>>
                              ELSE <<>>
    IN  Reload(i.rs1, 30) \o Reload(i.rs2, 31)
        \o <<[i EXCEPT !.rd = Phys(@, 30), !.rs1 = Phys(@, 30),
                       !.rs2 = Phys(@, 31)]>>
        \o IF i.rd \in DOMAIN slot
           THEN <<storeRegToStackSlot(30, slot[i.rd])>> ELSE <<>>

RegAlloc ==
    /\ pass = "regalloc"
    /\ \E order \in AllocationOrders, spilled \in {{}, CrossingCalls} :
       \E taken \in {Assignment(order, spilled)} :
         LET inRegister == {x.val : x \in taken} \ {NoReg}
             asg == [v \in inRegister |->
                       (CHOOSE x \in taken : x.val = v).reg]
             inMemory == FlattenSeq([p \in DOMAIN code |->
                           IF IsVirtual(code[p].rd) /\ code[p].rd \notin inRegister
                           THEN <<p>> ELSE <<>>])
             slot == [v \in {code[p].rd : p \in ToSet(inMemory)} |->
                        Len(objs) + CHOOSE k \in DOMAIN inMemory :
                                      code[inMemory[k]].rd = v]
             slots == [k \in DOMAIN inMemory |-> [size |-> 4, align |-> 4]]
         IN  /\ slots \in NewObjects
             /\ CreateStackObjects(slots)
             /\ code' = FlattenSeq([p \in DOMAIN code |->
                                      Rewritten(code[p], asg, slot)])
    /\ pass' = "callframes"
    /\ UNCHANGED <<prog, cur, todo, binary>>
-----------------------------------------------------------------------------
(* Prologue and epilogue insertion.                                        *)

(* The code with instrs before the return of every block that returns.     *)
BeforeReturns(instrs) ==
    FlattenSeq([p \in DOMAIN code |->
                  IF code[p].op = "PseudoRET" THEN Append(instrs, code[p])
                                              ELSE <<code[p]>>])

(* eliminateCallFramePseudoInstr on every pseudo: they are erased when the *)
(* call frame is reserved, and turned into adjustments of SP otherwise.    *)
EliminateCallFramePseudoInstrs ==
    LET Adjusted(i) ==
          IF i.op \notin {"ADJCALLSTACKDOWN", "ADJCALLSTACKUP"} THEN <<i>>
          ELSE IF hasReservedCallFrame \/ i.imm = 0 THEN <<>>
          ELSE <<ADDI(X2, X2, IF i.op = "ADJCALLSTACKDOWN" THEN -i.imm
                                                           ELSE i.imm)>>
    IN  /\ pass = "callframes"
        /\ code' = FlattenSeq([p \in DOMAIN code |-> Adjusted(code[p])])
        /\ pass' = "csr"
        /\ UNCHANGED <<prog, cur, todo, binary, frameVars>>

(* The callee-saved registers the function writes are stored at the start  *)
(* of the entry block and reloaded in reverse in every block that returns. *)
Written_byDefs == {code[p].rd : p \in DOMAIN code}    \* mutant
Written == UNION {Clobbers(code[p]) : p \in DOMAIN code}
CSI == FlattenSeq([k \in DOMAIN CSR_RV32I_SaveList |->
                     IF CSR_RV32I_SaveList[k] \in Written
                     THEN <<CSR_RV32I_SaveList[k]>> ELSE <<>>])

SpillCalleeSavedRegisters ==
    LET saves == [k \in DOMAIN CSI |->
                    storeRegToStackSlot(CSI[k], Len(objs) + k)]
        restores == [k \in DOMAIN CSI |->
                       loadRegFromStackSlot(CSI[k], Len(objs) + k)]
    IN  /\ pass = "csr"
        /\ Len(CSI) \in CSCounts
        /\ AssignCalleeSavedSpillSlots(Len(CSI))
        /\ code' = saves \o BeforeReturns(Reverse(restores))
        /\ pass' = "layout"
        /\ UNCHANGED <<prog, cur, todo, binary>>

CalculateFrameObjectOffsets ==
    /\ pass = "layout"
    /\ \/ \E i \in Unplaced : PlaceObject(i) /\ UNCHANGED pass
       \/ SetStackSize /\ pass' = "prologue"
    /\ UNCHANGED <<prog, cur, todo, code, binary>>

emitPrologue ==
    /\ pass = "prologue"
    /\ code' = IF stackSize = 0 /\ ~adjustsStack THEN code
               ELSE <<ADDI(X2, X2, PrologueImm)>> \o code
    /\ pass' = "epilogue"
    /\ UNCHANGED <<prog, cur, todo, binary, frameVars>>

(* PrologEpilogInserter calls emitEpilogue on the blocks that return.      *)
emitEpilogue_last ==    \* mutant: only in the last block
    /\ pass = "epilogue"
    /\ code' = IF stackSize = 0 \/ Last(code).op # "PseudoRET" THEN code
               ELSE Front(code) \o <<ADDI(X2, X2, EpilogueImm), Last(code)>>
    /\ pass' = "frameindex"
    /\ UNCHANGED <<prog, cur, todo, binary, frameVars>>
emitEpilogue ==
    /\ pass = "epilogue"
    /\ code' = IF stackSize = 0 THEN code
               ELSE BeforeReturns(<<ADDI(X2, X2, EpilogueImm)>>)
    /\ pass' = "frameindex"
    /\ UNCHANGED <<prog, cur, todo, binary, frameVars>>

(* eliminateFrameIndex on every instruction that refers to one.            *)
ReplaceFrameIndices ==
    /\ pass = "frameindex"
    /\ code' = [p \in DOMAIN code |->
                  IF code[p].fi = 0 THEN code[p]
                  ELSE [code[p] EXCEPT
                          !.rs1 = BaseReg, !.fi = 0,
                          !.imm = eliminateFrameIndex(code[p].fi, @)]]
    /\ pass' = "copies"
    /\ UNCHANGED <<prog, cur, todo, binary, frameVars>>

(* copyPhysReg on every copy that is not the identity.                     *)
ExpandCopies ==
    LET copyPhysReg(i) == IF i.op # "COPY" THEN <<i>>
                          ELSE IF i.rd = i.rs1 THEN <<>>
                          ELSE <<ADDI(i.rd, i.rs1, 0)>>
    IN  /\ pass = "copies"
        /\ code' = FlattenSeq([p \in DOMAIN code |-> copyPhysReg(code[p])])
        /\ pass' = "emit"
        /\ UNCHANGED <<prog, cur, todo, binary, frameVars>>

(* LowerRV32IMachineInstrToMCInst keeps registers, immediates, the called  *)
(* symbol and the label of a block, drops implicit operands, and takes no  *)
(* frame index.                                                            *)
LowerToMCInst(i) ==
    [op |-> i.op, rd |-> i.rd, rs1 |-> i.rs1, rs2 |-> i.rs2, imm |-> i.imm,
     sym |-> i.sym]

(* The assembler puts the number of the instruction a label stands before  *)
(* in the place of the label.                                              *)
Assembled(insts) ==
    LET Real(i) == IF i.op = "LABEL" THEN <<>> ELSE <<i>>
        Position(blk) ==
          LET k == CHOOSE k \in DOMAIN insts :
                     insts[k].op = "LABEL" /\ insts[k].sym = blk
          IN  Len(FlattenSeq([j \in 1 .. k |-> Real(insts[j])])) + 1
        WithTarget(i) == IF IsJump(i) THEN [i EXCEPT !.sym = Position(@)] ELSE i
    IN  FlattenSeq([k \in DOMAIN insts |-> Real(WithTarget(insts[k]))])

EmitFunction ==
    /\ pass = "emit"
    /\ \A p \in DOMAIN code : code[p].fi = 0
    /\ binary' = Append(binary, Assembled([p \in DOMAIN code |->
                                             LowerToMCInst(code[p])]))
    /\ cur' = cur + 1
    /\ pass' = IF cur = Len(prog) THEN "done" ELSE "alloca"
    /\ code' = <<>>
    /\ UNCHANGED <<prog, todo>>
    /\ NextFunction

CompileStep ==
    \/ BeginFunction \/ LowerFormalArguments
    \/ SelectConstant \/ SelectAdd \/ SelectFrameIndex
    \/ SelectLoad \/ SelectStore \/ ExpandDynamicStackAlloc
    \/ StartBlock \/ SelectBR \/ SelectBR_CC
    \/ LowerCall \/ LowerReturn \/ FinishISel
    \/ RegAlloc
    \/ EliminateCallFramePseudoInstrs \/ SpillCalleeSavedRegisters
    \/ CalculateFrameObjectOffsets
    \/ emitPrologue \/ emitEpilogue
    \/ ReplaceFrameIndices \/ ExpandCopies
    \/ EmitFunction

CompileSpec == CodegenInit /\ [][CompileStep]_compileVars
-----------------------------------------------------------------------------
(* What emitPrologue and emitEpilogue put around the other instructions.   *)
PrologueLen == IF stackSize = 0 /\ ~adjustsStack THEN 0 ELSE 1
EpilogueLen == IF stackSize = 0 THEN 0 ELSE 1
NumSaves == Len(objs) - minCS + 1
IsReturn(i) == i.op = "PseudoRET"

(* In a function without variable-sized objects the prologue lowers SP by  *)
(* the frame size, once and first of all; every return comes right after   *)
(* an addition of the same size; and nothing else writes SP: neither the   *)
(* lowering of calls, nor spill code, nor an allocated register.           *)
StackPointerBalanced ==
    pass = "emit" /\ ~varSized =>
      /\ \A p \in DOMAIN code : code[p].rd = X2 =>
           \/ p = 1 /\ code[p] = ADDI(X2, X2, -stackSize)
           \/ /\ code[p] = ADDI(X2, X2, stackSize)
              /\ p + 1 \in DOMAIN code /\ IsReturn(code[p + 1])
      /\ stackSize # 0 =>
           /\ 1 \in DOMAIN code /\ code[1] = ADDI(X2, X2, -stackSize)
           /\ \A p \in DOMAIN code : IsReturn(code[p]) =>
                p - 1 \in DOMAIN code /\ code[p - 1] = ADDI(X2, X2, stackSize)

(* Every callee-saved register that any instruction of the final code      *)
(* writes, or a call clobbers, is stored at the entry, right after the     *)
(* prologue; and right before the epilogue of every return it is loaded    *)
(* from the same slot.                                                     *)
CalleeSavedRestored ==
    LET Save(k) == code[PrologueLen + k]
        Slot(k) == eliminateFrameIndex(minCS + k - 1, 0)
    IN  pass = "emit" =>
          /\ PrologueLen + NumSaves <= Len(code)
          /\ \A k \in 1 .. NumSaves :
               Save(k) = Instr("SW", NoReg, X2, Save(k).rs2, Slot(k))
          /\ \A p \in DOMAIN code : \A r \in Clobbers(code[p]) \cap CSR_RV32I :
               \E k \in 1 .. NumSaves : Save(k).rs2 = r
          /\ \A p \in DOMAIN code : IsReturn(code[p]) =>
               \A k \in 1 .. NumSaves : \E j \in 1 .. NumSaves :
                 /\ p - EpilogueLen - j \in DOMAIN code
                 /\ code[p - EpilogueLen - j] =
                      Instr("LW", Save(k).rs2, X2, NoReg, Slot(k))

(* When frame indices are replaced each refers to an object of the frame,  *)
(* and the slots of the callee-saved registers are written by their saves  *)
(* alone; when instructions are printed no frame index is left.            *)
FrameIndicesOwned ==
    /\ pass = "frameindex" =>
         \A p \in DOMAIN code : code[p].fi # 0 =>
           /\ code[p].fi \in FrameIndices
           /\ code[p].fi >= minCS =>
                p <= PrologueLen + NumSaves \/ code[p].op = "LW"
    /\ pass = "emit" => \A p \in DOMAIN code : code[p].fi = 0
=============================================================================
