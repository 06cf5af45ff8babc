----------------------------- MODULE RV32IExec -----------------------------
(***************************************************************************)
(* A program is compiled by RV32ICodegen and its emitted code then runs on *)
(* an RV32I machine: the instruction semantics of RV32IInstrInfo.td, a     *)
(* register file, and one stack in memory.  The machine is the environment *)
(* of the backend; it is modelled because what the backend promises, a     *)
(* frame that is private, a caller whose registers survive, a result in    *)
(* a0, is only visible when code of two functions runs together.           *)
(*                                                                         *)
(* Addresses are bytes; only words are accessed.  Instruction i of         *)
(* function f has the address [f, i], kept in registers and in memory as   *)
(* the number FunctionSpace * f + i; Halt, where the first function        *)
(* returns to, is 0.  Words are not reduced modulo 2^32: the programs'     *)
(* values are small.                                                       *)
(***************************************************************************)
EXTENDS RV32ICodegen

CONSTANTS
    StackTop,    \* the stack pointer the first function is entered with
    StackLow     \* the lowest address of the stack

ASSUME StackAssumption ==
    /\ StackTop \in Nat /\ StackLow \in Nat
    /\ StackLow < StackTop /\ StackTop % 16 = 0 /\ StackLow % 4 = 0

VARIABLES
    pc,       \* address of the next instruction
    regs,     \* the registers
    mem,      \* the stack
    shadow,   \* history: the activations, with what each was entered with
    retval    \* history: the results of the last return

machineVars == <<pc, regs, mem, shadow, retval>>
vars == <<compileVars, machineVars>>

(* FunctionSpace bounds the code of a function, so that addresses are      *)
(* unambiguous.                                                            *)
FunctionSpace == 1000
CodeFits == \A f \in DOMAIN binary : Len(binary[f]) < FunctionSpace

Halt == 0
Entry(f) == FunctionSpace * f + 1
PreservedRegs == CSR_RV32I \ {X1}
Addresses == {StackLow + 4 * k : k \in 0 .. (StackTop - StackLow) \div 4 - 1}

(* The activation of f entered with registers r and stack m: the arguments *)
(* it finds, where it must return to, and what it must leave unchanged.    *)
Activated(f, r, m) ==
    [fn |-> f, done |-> 0, ra |-> r[X1], sp |-> r[X2],
     saved |-> [q \in PreservedRegs |-> r[q]],
     args |-> [i \in 1 .. prog[f].args |->
                 LET VA == CC_RV32I(i)
                 IN  IF VA.isReg THEN r[VA.loc] ELSE m[r[X2] + VA.loc]]]

(* The start-up code enters the first function; every other register and   *)
(* every word of the stack holds a value of its own.                       *)
BootRegs == [r \in GPR |-> CASE r = X0 -> 0
                             [] r = X1 -> Halt
                             [] r = X2 -> StackTop
                             [] OTHER -> -r]
BootMem == [a \in Addresses |-> -1000 - a]

Init ==
    /\ CodegenInit
    /\ pc = Entry(1) /\ regs = BootRegs /\ mem = BootMem
    /\ shadow = <<Activated(1, BootRegs, BootMem)>>
    /\ retval = <<>>
-----------------------------------------------------------------------------
Running == pass = "done" /\ pc # Halt

Address == <<pc \div FunctionSpace, pc % FunctionSpace>>
Fetch == binary[Address[1]][Address[2]]
InCode(a) == a \div FunctionSpace \in DOMAIN binary
             /\ a % FunctionSpace \in DOMAIN binary[a \div FunctionSpace]

(* The address after pc; the functions lie one behind the other.           *)
NextPC == IF InCode(pc + 1) THEN pc + 1 ELSE Entry(Address[1] + 1)

Executing(op) == Running /\ InCode(pc) /\ Fetch.op = op

(* A write to x0 has no effect.                                            *)
SetReg(r, v) == regs' = [regs EXCEPT ![r] = IF r = X0 THEN 0 ELSE v]
Advance == pc' = NextPC /\ UNCHANGED <<compileVars, shadow, retval>>

ExecADDI ==
    /\ Executing("ADDI")
    /\ SetReg(Fetch.rd, regs[Fetch.rs1] + Fetch.imm)
    /\ Advance /\ UNCHANGED mem

ExecADD ==
    /\ Executing("ADD")
    /\ SetReg(Fetch.rd, regs[Fetch.rs1] + regs[Fetch.rs2])
    /\ Advance /\ UNCHANGED mem

ExecSUB ==
    /\ Executing("SUB")
    /\ SetReg(Fetch.rd, regs[Fetch.rs1] - regs[Fetch.rs2])
    /\ Advance /\ UNCHANGED mem

Accessed == regs[Fetch.rs1] + Fetch.imm

ExecLW ==
    /\ Executing("LW")
    /\ Accessed \in Addresses
    /\ SetReg(Fetch.rd, mem[Accessed])
    /\ Advance /\ UNCHANGED mem

ExecSW ==
    /\ Executing("SW")
    /\ Accessed \in Addresses
    /\ mem' = [mem EXCEPT ![Accessed] = regs[Fetch.rs2]]
    /\ Advance /\ UNCHANGED regs

(* The branches compare signed words; BLTU and BGEU do not occur here.     *)
Taken(opc, x, y) ==
    \/ opc = "BEQ" /\ x = y
    \/ opc = "BNE" /\ x # y
    \/ opc = "BLT" /\ x < y
    \/ opc = "BGE" /\ x >= y
BranchTarget == FunctionSpace * Address[1] + Fetch.sym

ExecBranch ==
    /\ \E opc \in Branches : Executing(opc)
    /\ pc' = IF Taken(Fetch.op, regs[Fetch.rs1], regs[Fetch.rs2])
             THEN BranchTarget ELSE NextPC
    /\ UNCHANGED <<compileVars, regs, mem, shadow, retval>>

ExecJ ==
    /\ Executing("PseudoBR")
    /\ pc' = BranchTarget
    /\ UNCHANGED <<compileVars, regs, mem, shadow, retval>>

ExecCALL ==
    /\ Executing("PseudoCALL")
    /\ pc' = Entry(Fetch.sym)
    /\ regs' = [regs EXCEPT ![X1] = NextPC]
    /\ shadow' = Append([shadow EXCEPT ![Len(shadow)].done = @ + 1],
                        Activated(Fetch.sym, regs', mem))
    /\ UNCHANGED <<compileVars, mem, retval>>

ExecRET ==
    /\ Executing("PseudoRET")
    /\ pc' = regs[X1]
    /\ retval' = [k \in 1 .. prog[Last(shadow).fn].results |->
                    regs[RetCC_RV32I(k)]]
    /\ shadow' = Front(shadow)
    /\ UNCHANGED <<compileVars, regs, mem>>

ExecStep == ExecADDI \/ ExecADD \/ ExecSUB \/ ExecLW \/ ExecSW
            \/ ExecBranch \/ ExecJ \/ ExecCALL \/ ExecRET

Compile == CompileStep /\ CodeFits' /\ UNCHANGED machineVars

(* The machine stops at Halt, or at an instruction it cannot execute:      *)
(* there is none at pc, or it accesses something other than the stack.     *)
CanExecute ==
    /\ Running
    /\ InCode(pc)
    /\ Fetch.op \in {"LW", "SW"} => Accessed \in Addresses
Stopped == pass = "done" /\ ~CanExecute /\ UNCHANGED vars

Next == Compile \/ ExecStep \/ Stopped

(* The machine keeps executing; nothing is asked of the compiler.          *)
Spec == Init /\ [][Next]_vars /\ WF_vars(ExecStep)
-----------------------------------------------------------------------------
(* The instructions, registers and stack have the shape of an RV32I        *)
(* machine, and the program counter stays inside the emitted code.         *)
ExecTypeOK ==
    /\ pass = "done" => pc = Halt \/ InCode(pc)
    /\ regs \in [GPR -> Int] /\ regs[X0] = 0
    /\ mem \in [Addresses -> Int]

(* When a procedure is about to return, the stack pointer, the registers   *)
(* of CSR_RV32I and the return address are what it was entered with:       *)
(* prologue, epilogue, saves and restores cancel out across every call     *)
(* made in between.  A procedure with variable-sized arrays is excepted:   *)
(* see StackPointerRestored.                                               *)
AtReturn == Executing("PseudoRET")
HasArrays(fn) == \E s \in ToSet(prog[fn].body) : s.op = "alloca"
CallerStateRestored ==
    AtReturn /\ ~HasArrays(Last(shadow).fn) =>
        LET a == Last(shadow)
        IN  /\ regs[X2] = a.sp
            /\ regs[X1] = a.ra
            /\ \A r \in PreservedRegs : regs[r] = a.saved[r]

(* RV32IFrameLowering.cpp:59-61: at the end of a function, "immediately    *)
(* before the ret", the stack pointer is restored.                         *)
StackPointerRestored == AtReturn => regs[X2] = Last(shadow).sp

(* LowerReturn turns every `ret' into a return: execution leaves a         *)
(* procedure only by its own return or into a procedure it calls.          *)
StaysInProcedure == Running => Address[1] = Last(shadow).fn

(* A callee may count on a stack pointer that is a multiple of 16.         *)
CalleeStackAligned == Executing("PseudoCALL") => regs[X2] % StackAlign = 0

(* A store never reaches above the stack pointer its procedure was entered *)
(* with, into the frames of its callers, nor below the current one, where  *)
(* nothing is allocated.                                                   *)
StoresStayInFrame ==
    [][\A a \in Addresses :
         mem'[a] # mem[a] => regs[X2] <= a /\ a < Last(shadow).sp]_vars

(* No store through a pointer, be it to a local, to an array or to an      *)
(* outgoing argument, hits a word in which a procedure that has not yet    *)
(* returned keeps a callee-saved register.                                 *)
SaveWords(a) ==
    LET b == binary[a.fn]
        size == IF b[1].op = "ADDI" /\ b[1].rd = X2 THEN -b[1].imm ELSE 0
        saves == {p \in DOMAIN b : b[p].op = "SW" /\ b[p].rs1 = X2
                                   /\ b[p].rs2 \in CSR_RV32I}
    IN  {a.sp - size + b[p].imm : p \in saves}
PointersMissSaves ==
    Executing("SW") /\ Fetch.rs1 # X2 =>
        \A k \in DOMAIN shadow : Accessed \notin SaveWords(shadow[k])

(* A compiled program comes to its end: the first procedure returns to the *)
(* start-up code, whatever registers and slots hold the return addresses.  *)
ProgramReturns == pass = "done" ~> pc = Halt /\ shadow = <<>>
=============================================================================
