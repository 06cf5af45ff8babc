------------------------- MODULE RV32IGlobals_proofs -------------------------
(***************************************************************************)
(* LUI and ADDI reach every symbol of the address space, for fields of     *)
(* every even size.  The invariant follows the symbol through the forms of *)
(* the two operands.                                                       *)
(***************************************************************************)
EXTENDS RV32IGlobals, TLAPS

GlobalInv ==
    /\ GlobalTypeOK
    /\ form = "MachineInstr" => hi = global /\ lo = global
    /\ form = "MCInst" => hi = global.sym /\ lo = global.sym
    /\ Machine => hi = PercentHi(global.sym) /\ lo = PercentLo(global.sym)
    /\ form = "after LUI" => rd = hi * Low
    /\ form = "after ADDI" => rd = global.sym
-----------------------------------------------------------------------------
(* Division with remainder.                                                *)
LEMMA DivModLemma ==
    ASSUME NEW b \in Nat, NEW q \in Nat, NEW r \in Nat, NEW d \in Nat \ {0},
           q = b \div d, r = b % d
    PROVE  b = d * q + r /\ r < d
OBVIOUS

(* The two parts of an address are in the ranges of their fields, the high *)
(* part leaves room for a page, and together they give the address back.   *)
LEMMA HiLoLemma ==
    ASSUME NEW a \in 0 .. AddressSpace - 1
    PROVE  /\ PercentHi(a) \in 0 .. High - 1
           /\ PercentLo(a) \in -(Low \div 2) .. Low \div 2 - 1
           /\ PercentHi(a) * Low \in 0 .. AddressSpace - 1
           /\ (PercentHi(a) * Low + PercentLo(a)) % AddressSpace = a
<1> DEFINE m == Low \div 2
           b == a + m
           q == b \div Low
           r == b % Low
<1>1. Low \in Nat \ {0} /\ High \in Nat \ {0} /\ AddressSpace \in Nat \ {0}
  BY LowAssumption, HighAssumption DEF AddressSpace
<1>2. m \in Nat /\ Low = 2 * m
  BY LowAssumption, <1>1
<1>3. a \in Nat /\ a < AddressSpace /\ b \in Nat
  BY <1>1, <1>2
<1> HIDE DEF m, b
<1>4. q \in Nat /\ r \in Nat
  BY <1>1, <1>3
<1>5. b = Low * q + r /\ r < Low
  BY <1>1, <1>3, <1>4, DivModLemma
<1> HIDE DEF q, r
<1>6. b < AddressSpace + Low
  BY <1>1, <1>2, <1>3 DEF b
<1>7. q <= High
  <2>1. SUFFICES ASSUME q >= High + 1 PROVE FALSE
    BY <1>1, <1>4
  <2>2. Low * q >= Low * (High + 1)
    BY <1>1, <1>4, <2>1
  <2>3. Low * (High + 1) = AddressSpace + Low
    BY <1>1 DEF AddressSpace
  <2>4. Low * q \in Nat
    BY <1>1, <1>4
  <2> QED
    BY <1>1, <1>3, <1>4, <1>5, <1>6, <2>2, <2>3, <2>4
<1>8. PercentLo(a) = r - m
  BY DEF PercentLo, r, b, m
<1>9. PercentHi(a) = q % High
  BY DEF PercentHi, q, b, m
<1>10. PercentLo(a) \in -m .. m - 1
  BY <1>2, <1>4, <1>5, <1>8
<1>11. PercentHi(a) \in 0 .. High - 1
  BY <1>1, <1>4, <1>9
<1>12. PercentHi(a) * Low \in 0 .. AddressSpace - 1
  <2> DEFINE h == PercentHi(a)
  <2>1. h \in Nat /\ h + 1 <= High
    BY <1>1, <1>11
  <2> HIDE DEF h
  <2>2. (h + 1) * Low <= High * Low
    BY <1>1, <2>1
  <2>3. (h + 1) * Low = h * Low + Low /\ High * Low = AddressSpace
        /\ h * Low \in Nat
    BY <1>1, <2>1 DEF AddressSpace
  <2>4. h * Low \in 0 .. AddressSpace - 1
    BY <1>1, <2>2, <2>3
  <2> QED
    BY <2>4 DEF h
<1>13. (PercentHi(a) * Low + PercentLo(a)) % AddressSpace = a
  <2>1. CASE q < High
    <3>1. q % High = q
      BY <1>1, <1>4, <2>1
    <3>2. PercentHi(a) * Low + PercentLo(a) = a
      <4>1. q * Low = Low * q /\ Low * q \in Nat
        BY <1>1, <1>4
      <4>2. Low * q + (r - m) = b - m
        BY <1>2, <1>4, <1>5, <4>1
      <4> QED
        BY <1>2, <1>3, <1>8, <1>9, <3>1, <4>1, <4>2 DEF b
    <3> QED
      BY <1>1, <1>3, <3>2
  <2>2. CASE q = High
    <3>1. q % High = 0
      BY <1>1, <2>2
    <3>2. PercentHi(a) * Low + PercentLo(a) = a - AddressSpace
      <4>1. Low * q = AddressSpace
        BY <2>2 DEF AddressSpace
      <4>2. r - m = a - AddressSpace
        BY <1>1, <1>2, <1>3, <1>4, <1>5, <4>1 DEF b
      <4>3. 0 * Low = 0
        BY <1>1
      <4> QED
        BY <1>1, <1>2, <1>3, <1>4, <1>8, <1>9, <3>1, <4>2, <4>3
    <3>3. (a - AddressSpace) % AddressSpace = a
      BY <1>1, <1>3
    <3> QED
      BY <3>2, <3>3
  <2> QED
    BY <1>1, <1>4, <1>7, <2>1, <2>2
<1> QED
  BY <1>10, <1>11, <1>12, <1>13 DEF m
-----------------------------------------------------------------------------
(* The program starts with the node alone.                                 *)
LEMMA InitInv == Init => GlobalInv
<1> SUFFICES ASSUME Init PROVE GlobalInv
  OBVIOUS
<1>1. AddressSpace \in Nat \ {0}
  BY LowAssumption, HighAssumption DEF AddressSpace
<1>2. rd \in 0 .. AddressSpace - 1
  BY <1>1 DEF Init
<1> QED
  BY <1>2 DEF Init, GlobalInv, GlobalTypeOK, Machine, Forms

(* Every form of the two instructions still stands for the symbol.         *)
LEMMA NextInv == GlobalInv /\ [Next]_vars => GlobalInv'
<1> SUFFICES ASSUME GlobalInv, [Next]_vars PROVE GlobalInv'
  OBVIOUS
<1>1. global.sym \in 0 .. AddressSpace - 1
  BY SymbolsAssumption DEF GlobalInv, GlobalTypeOK
<1>2. CASE LowerGlobalAddress
  BY <1>2 DEF LowerGlobalAddress, GlobalInv, GlobalTypeOK, Machine, Forms
<1>3. CASE LowerRV32IMachineInstrToMCInst
  BY <1>3 DEF LowerRV32IMachineInstrToMCInst, SymbolRef, GlobalInv,
              GlobalTypeOK, Machine, Forms
<1>4. CASE PrintAndLink
  <2>1. hi' = PercentHi(global.sym) /\ lo' = PercentLo(global.sym)
        /\ form' = "linked" /\ UNCHANGED <<global, rd>>
    BY <1>4 DEF PrintAndLink, printUImm20Operand, printSimm12Operand, GlobalInv
  <2>2. hi' \in 0 .. High - 1 /\ lo' \in -(Low \div 2) .. Low \div 2 - 1
    BY <1>1, <2>1, HiLoLemma
  <2>3. GlobalTypeOK'
    BY <2>1, <2>2 DEF GlobalInv, GlobalTypeOK, Forms
  <2>4. PercentHi(global.sym)' = PercentHi(global.sym)
        /\ PercentLo(global.sym)' = PercentLo(global.sym)
    BY <2>1
  <2> QED
    BY <2>1, <2>3, <2>4 DEF GlobalInv
<1>5. CASE ExecLUI
  <2>1. rd' = hi * Low /\ form = "linked" /\ form' = "after LUI"
        /\ UNCHANGED <<global, hi, lo>>
    BY <1>5 DEF ExecLUI
  <2>2. hi = PercentHi(global.sym) /\ lo = PercentLo(global.sym)
    BY <2>1 DEF GlobalInv, Machine
  <2>3. rd' \in 0 .. AddressSpace - 1
    BY <1>1, <2>1, <2>2, HiLoLemma
  <2>4. GlobalTypeOK'
    BY <2>1, <2>3 DEF GlobalInv, GlobalTypeOK, Forms, Machine
  <2>5. hi' = PercentHi(global.sym)' /\ lo' = PercentLo(global.sym)'
    BY <2>1, <2>2
  <2> QED
    BY <2>1, <2>4, <2>5 DEF GlobalInv
<1>6. CASE ExecADDI
  <2>1. rd' = (rd + lo) % AddressSpace /\ form = "after LUI"
        /\ form' = "after ADDI" /\ UNCHANGED <<global, hi, lo>>
    BY <1>6 DEF ExecADDI
  <2>2. /\ hi = PercentHi(global.sym) /\ lo = PercentLo(global.sym)
        /\ rd = hi * Low
    BY <2>1 DEF GlobalInv, Machine
  <2>3. rd' = global.sym
    BY <1>1, <2>1, <2>2, HiLoLemma
  <2>4. GlobalTypeOK'
    BY <1>1, <2>1, <2>3 DEF GlobalInv, GlobalTypeOK, Forms, Machine
  <2>5. hi' = PercentHi(global.sym)' /\ lo' = PercentLo(global.sym)'
    BY <2>1, <2>2
  <2>6. global'.sym = global.sym
    BY <2>1
  <2> QED
    BY <2>1, <2>3, <2>4, <2>5, <2>6 DEF GlobalInv
<1>7. CASE UNCHANGED vars
  BY <1>7 DEF GlobalInv, GlobalTypeOK, Machine, PercentHi, PercentLo, vars
<1> QED
  BY <1>2, <1>3, <1>4, <1>5, <1>6, <1>7 DEF Next, Computed

(* The operands stand for the symbol at every step of every program.       *)
THEOREM GlobalInvariant == Spec => []GlobalInv
<1> QED
  BY InitInv, NextInv, PTL DEF Spec

(* For fields of every even size, the linked immediates fit them.          *)
THEOREM GlobalTypeCorrect == Spec => []GlobalTypeOK
<1>1. GlobalInv => GlobalTypeOK
  BY DEF GlobalInv
<1> QED
  BY <1>1, GlobalInvariant, PTL

(* For every address the linker may choose, LUI and ADDI reach the symbol. *)
THEOREM EverySymbolReached == Spec => []SymbolReached
<1>1. GlobalInv => SymbolReached
  BY DEF GlobalInv, SymbolReached
<1> QED
  BY <1>1, GlobalInvariant, PTL
=============================================================================
