-------------------------- MODULE RV32ICallingConv --------------------------
(***************************************************************************)
(* The ilp32 calling convention of the backend: where the i-th word of an  *)
(* argument list travels, where a result comes back, and which registers   *)
(* survive a call.  A register is its hardware encoding, 0 .. 31           *)
(* (RV32IRegisterInfo.td), so X10 is the number 10.                        *)
(*                                                                         *)
(* These are constant operators; the code generator (RV32ICodegen) uses    *)
(* them on the caller's side in LowerCall and on the callee's side in      *)
(* LowerFormalArguments and LowerReturn.                                   *)
(***************************************************************************)
EXTENDS Integers, Sequences

X0 == 0
X1 == 1      \* ra
X2 == 2      \* sp
X8 == 8      \* s0 / fp
X10 == 10    \* a0

GPR == 0 .. 31

(* A CCValAssign: a value lives in a register or at an offset from the     *)
(* stack pointer at the moment of the call.                                *)
RegLoc(r) == [isReg |-> TRUE, loc |-> r]
MemLoc(o) == [isReg |-> FALSE, loc |-> o]

(* The location of argument i (from 1) when every argument is one i32.     *)
NumArgRegs == 8
CC_RV32I(i) == IF i <= NumArgRegs THEN RegLoc(X10 + i - 1)
                                  ELSE MemLoc(4 * (i - NumArgRegs - 1))

(* CCState::getStackSize() after n arguments were analysed.                *)
StackBytes_unclamped(n) == 4 * (n - NumArgRegs)   \* mutant
StackBytes(n) == IF n <= NumArgRegs THEN 0 ELSE 4 * (n - NumArgRegs)

(* The registers of the results, and how many results they can carry.      *)
RetCC_RV32I(i) == X10 + i - 1
MaxResults == 2

(* The callee-saved registers, in the order they are saved.                *)
CSR_RV32I_SaveList == <<1, 8, 9>> \o [k \in 1 .. 10 |-> 17 + k]
CSR_RV32I == {CSR_RV32I_SaveList[k] : k \in DOMAIN CSR_RV32I_SaveList}

(* getReservedRegs: what the register allocator never assigns.             *)
ReservedRegs(hasFP) == {X0, X2} \cup IF hasFP THEN {X8} ELSE {}
=============================================================================
