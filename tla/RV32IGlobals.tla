---------------------------- MODULE RV32IGlobals ----------------------------
(***************************************************************************)
(* The address of a global variable, from the GlobalAddress node of the    *)
(* SelectionDAG to the register that holds it: LowerGlobalAddress, the     *)
(* AsmPrinter, the InstPrinter, then the assembler and linker and the      *)
(* machine, which are not part of the repository.                          *)
(*                                                                         *)
(* An immediate of LUI counts in units of Low, one of ADDI has Low values  *)
(* around zero; addresses are taken modulo Low * High.  On RV32I Low is    *)
(* 2^12 and High is 2^20.                                                  *)
(***************************************************************************)
EXTENDS Integers

CONSTANTS
    Low, High,   \* the numbers of values of the two immediate fields
    Symbols,     \* the addresses the linker may give to a symbol
    Offsets      \* the offsets a program adds to one

AddressSpace == Low * High

ASSUME LowAssumption == Low \in Nat \ {0} /\ Low % 2 = 0
ASSUME HighAssumption == High \in Nat \ {0}
ASSUME SymbolsAssumption == Symbols \subseteq 0 .. AddressSpace - 1
ASSUME OffsetsAssumption == Offsets \subseteq Nat

VARIABLES
    global,   \* the GlobalAddress node: symbol and offset
    form,     \* what the two instructions are by now
    hi, lo,   \* the operands of LUI and ADDI in that form
    rd        \* the register they write

vars == <<global, form, hi, lo, rd>>

Forms == {"GlobalAddress", "MachineInstr", "MCInst", "linked",
          "after LUI", "after ADDI"}

(* The assembler's %hi and %lo: %lo is signed, %hi makes up for it.        *)
PercentHi(a) == ((a + Low \div 2) \div Low) % High
PercentLo(a) == ((a + Low \div 2) % Low) - Low \div 2
-----------------------------------------------------------------------------
Init ==
    /\ global \in [sym : Symbols, off : Offsets]
    /\ form = "GlobalAddress"
    /\ hi = 0 /\ lo = 0
    /\ rd \in {0, AddressSpace - 1}

(* Both instructions name the symbol and the offset.                       *)
LowerGlobalAddress ==
    /\ form = "GlobalAddress"
    /\ form' = "MachineInstr"
    /\ hi' = global /\ lo' = global
    /\ UNCHANGED <<global, rd>>

(* A MO_GlobalAddress operand becomes a reference to its symbol.           *)
SymbolRef(MO) == MO.sym
LowerRV32IMachineInstrToMCInst ==
    /\ form = "MachineInstr"
    /\ form' = "MCInst"
    /\ hi' = SymbolRef(hi) /\ lo' = SymbolRef(lo)
    /\ UNCHANGED <<global, rd>>

(* The InstPrinter writes the expression operands as %hi(..) and %lo(..);  *)
(* the linker puts numbers in their place.                                 *)
printUImm20Operand_lo(expr) == PercentLo(expr)    \* mutant
printUImm20Operand(expr) == PercentHi(expr)
printSimm12Operand_hi(expr) == PercentHi(expr)    \* mutant
printSimm12Operand(expr) == PercentLo(expr)
PrintAndLink ==
    /\ form = "MCInst"
    /\ form' = "linked"
    /\ hi' = printUImm20Operand(hi) /\ lo' = printSimm12Operand(lo)
    /\ UNCHANGED <<global, rd>>

ExecLUI ==
    /\ form = "linked"
    /\ form' = "after LUI"
    /\ rd' = hi * Low
    /\ UNCHANGED <<global, hi, lo>>

ExecADDI ==
    /\ form = "after LUI"
    /\ form' = "after ADDI"
    /\ rd' = (rd + lo) % AddressSpace
    /\ UNCHANGED <<global, hi, lo>>

(* The address is computed.                                                *)
Computed == form = "after ADDI" /\ UNCHANGED vars

Next == \/ LowerGlobalAddress \/ LowerRV32IMachineInstrToMCInst
        \/ PrintAndLink \/ ExecLUI \/ ExecADDI \/ Computed

Spec == Init /\ [][Next]_vars
-----------------------------------------------------------------------------
Machine == form \in {"linked", "after LUI", "after ADDI"}

(* Once linked, the immediates fit the 20-bit unsigned field of LUI and    *)
(* the 12-bit signed field of ADDI; the register holds an address.         *)
GlobalTypeOK ==
    /\ global \in [sym : Symbols, off : Offsets]
    /\ form \in Forms
    /\ Machine => /\ hi \in 0 .. High - 1
                  /\ lo \in -(Low \div 2) .. Low \div 2 - 1
    /\ rd \in 0 .. AddressSpace - 1

(* LUI and ADDI together build the whole address of a symbol a program     *)
(* takes without an offset: the sign of the low part never shifts the      *)
(* result to a neighbouring page, at the top of the address space          *)
(* included.                                                               *)
SymbolReached ==
    form = "after ADDI" /\ global.off = 0 => rd = global.sym

(* RV32ISelLowering.cpp:123-125, "Lower GlobalAddress using LUI + ADDI     *)
(* (absolute addressing)" of a node with an offset: the register holds the *)
(* address of the symbol plus the offset.                                  *)
AddressAsMeant ==
    form = "after ADDI" => rd = (global.sym + global.off) % AddressSpace
=============================================================================
