------------------------ MODULE RV32IConditions_proofs ------------------------
(***************************************************************************)
(* For words of every width and every set of condition codes, a selected   *)
(* comparison has the outcome the program means.  The inductive invariant  *)
(* says what every intermediate node means: each rewriting step keeps it.  *)
(***************************************************************************)
EXTENDS RV32IConditions, TLAPS

(* The meaning of a node at any point of the lowering.                     *)
CurrentMeaning ==
    \/ node.op \in {"BRCOND", "BR_CC", "SETCC"} /\ Meaning(node)
    \/ node.op = "RV32IISD::BR_CC" /\ Holds(node.cc, node.lhs, node.rhs)
    \/ /\ node.op \in BranchOpcodes \cup CompareOpcodes
       /\ Computes(node.op, node.lhs, node.rhs)

ConditionInv ==
    /\ ConditionTypeOK
    /\ CurrentMeaning <=> Meaning(source)
    /\ OutcomeAsMeant
-----------------------------------------------------------------------------
(* The condition codes and operands LowerBR_CC produces mean the same as   *)
(* the ones it was given, and Select has a branch for them.                *)
LEMMA LoweredLemma ==
    ASSUME NEW cc \in IntCondCodes, NEW x \in Words, NEW y \in Words,
           NEW l, l = LoweredBR_CC(cc, x, y)
    PROVE  /\ l \in [op : {"RV32IISD::BR_CC"}, cc : DOMAIN BranchOpcode,
                     lhs : Words, rhs : Words]
           /\ Holds(l.cc, l.lhs, l.rhs) <=> Holds(cc, x, y)
<1>1. ASSUME NEW w \in Words
      PROVE  Signed(w) \in Int
  BY <1>1, HalfAssumption DEF Words, Signed
<1>2. CASE cc \in DOMAIN Swap
  <2>1. /\ l.op = "RV32IISD::BR_CC" /\ l.cc = Swap[cc]
        /\ l.lhs = y /\ l.rhs = x
    BY <1>2 DEF LoweredBR_CC, Node
  <2>2. l = [op |-> l.op, cc |-> l.cc, lhs |-> l.lhs, rhs |-> l.rhs]
    BY <1>2 DEF LoweredBR_CC, Node
  <2>3. Swap[cc] \in DOMAIN BranchOpcode
    BY <1>2 DEF Swap, BranchOpcode
  <2>4. Holds(Swap[cc], y, x) <=> Holds(cc, x, y)
    <3>1. x \in Int /\ y \in Int
      BY HalfAssumption DEF Words
    <3> QED
      BY <1>1, <1>2, <3>1 DEF Swap, Holds
  <2> QED
    BY <2>1, <2>2, <2>3, <2>4
<1>3. CASE cc \notin DOMAIN Swap
  <2>1. /\ l.op = "RV32IISD::BR_CC" /\ l.cc = cc /\ l.lhs = x /\ l.rhs = y
    BY <1>3 DEF LoweredBR_CC, Node
  <2>2. l = [op |-> l.op, cc |-> l.cc, lhs |-> l.lhs, rhs |-> l.rhs]
    BY <1>3 DEF LoweredBR_CC, Node
  <2>3. cc \in DOMAIN BranchOpcode
    BY <1>3 DEF Swap, BranchOpcode, IntCondCodes
  <2> QED
    BY <2>1, <2>2, <2>3
<1> QED
  BY <1>2, <1>3

(* The branch Select has for a condition code computes that condition.     *)
LEMMA BranchLemma ==
    ASSUME NEW cc \in DOMAIN BranchOpcode, NEW x, NEW y
    PROVE  /\ BranchOpcode[cc] \in BranchOpcodes
           /\ Computes(BranchOpcode[cc], x, y) <=> Holds(cc, x, y)
BY DEF BranchOpcode, BranchOpcodes, Computes, Holds

(* So does the instruction a SETCC pattern names.                          *)
LEMMA CompareLemma ==
    ASSUME NEW cc \in DOMAIN CompareOpcode, NEW x, NEW y
    PROVE  /\ CompareOpcode[cc] \in CompareOpcodes
           /\ Computes(CompareOpcode[cc], x, y) <=> Holds(cc, x, y)
BY DEF CompareOpcode, CompareOpcodes, Computes, Holds
-----------------------------------------------------------------------------
(* A node just lowered keeps the invariant when its condition is the one   *)
(* the node before it had.                                                 *)
LEMMA LowerInv ==
    ASSUME ConditionInv, UNCHANGED <<source, outcome>>,
           NEW cc \in IntCondCodes, NEW x \in Words, NEW y \in Words,
           node' = LoweredBR_CC(cc, x, y),
           node.op \in {"BRCOND", "BR_CC", "SETCC"},
           Meaning(node) <=> Holds(cc, x, y)
    PROVE  ConditionInv'
<1>1. /\ node' \in [op : {"RV32IISD::BR_CC"}, cc : DOMAIN BranchOpcode,
                    lhs : Words, rhs : Words]
      /\ Holds(node'.cc, node'.lhs, node'.rhs) <=> Holds(cc, x, y)
  BY LoweredLemma
<1>2. node'.op = "RV32IISD::BR_CC"
  BY <1>1
<1>3. ConditionTypeOK'
  BY <1>1 DEF ConditionInv, ConditionTypeOK
<1>4. CurrentMeaning' <=> Holds(node'.cc, node'.lhs, node'.rhs)
  BY <1>2 DEF CurrentMeaning, BranchOpcodes, CompareOpcodes
<1>5. CurrentMeaning <=> Meaning(node)
  BY DEF CurrentMeaning, BranchOpcodes, CompareOpcodes
<1>6. Meaning(source)' <=> Meaning(source)
  OBVIOUS
<1>7. OutcomeAsMeant'
  BY <1>6 DEF ConditionInv, OutcomeAsMeant
<1> QED
  BY <1>1, <1>3, <1>4, <1>5, <1>6, <1>7 DEF ConditionInv

(* A selected instruction keeps it when it computes that condition.        *)
LEMMA SelectInv ==
    ASSUME ConditionInv, UNCHANGED <<source, outcome>>,
           NEW opc \in BranchOpcodes \cup CompareOpcodes,
           node' = Node(opc, "none", node.lhs, node.rhs),
           node.lhs \in Words, node.rhs \in Words,
           Computes(opc, node.lhs, node.rhs) <=> CurrentMeaning
    PROVE  ConditionInv'
<1>1. /\ node' \in [op : BranchOpcodes \cup CompareOpcodes, cc : {"none"},
                    lhs : Words, rhs : Words]
      /\ node'.op = opc /\ node'.lhs = node.lhs /\ node'.rhs = node.rhs
  BY DEF Node
<1>2. ConditionTypeOK'
  BY <1>1 DEF ConditionInv, ConditionTypeOK
<1>3. opc \notin {"BRCOND", "BR_CC", "SETCC", "RV32IISD::BR_CC"}
  BY DEF BranchOpcodes, CompareOpcodes
<1>4. CurrentMeaning' <=> Computes(opc, node.lhs, node.rhs)
  BY <1>1, <1>3 DEF CurrentMeaning
<1>5. Meaning(source)' <=> Meaning(source)
  OBVIOUS
<1>6. OutcomeAsMeant'
  BY <1>5 DEF ConditionInv, OutcomeAsMeant
<1> QED
  BY <1>2, <1>4, <1>5, <1>6 DEF ConditionInv
-----------------------------------------------------------------------------
(* A program starts with a node that means itself.                         *)
LEMMA InitInv == Init => ConditionInv
<1> SUFFICES ASSUME Init PROVE ConditionInv
  OBVIOUS
<1>1. source \in Sources /\ node = source /\ outcome = "unknown"
  BY DEF Init
<1>2. node.op \in {"BRCOND", "BR_CC", "SETCC"}
  BY <1>1 DEF Sources
<1> QED
  BY <1>1, <1>2 DEF ConditionInv, ConditionTypeOK, OutcomeAsMeant,
                    CurrentMeaning, BranchOpcodes, CompareOpcodes

(* Every step of the lowering, of Select and of the machine keeps the      *)
(* meaning of the comparison.                                              *)
LEMMA NextInv == ConditionInv /\ [Next]_vars => ConditionInv'
<1> SUFFICES ASSUME ConditionInv, [Next]_vars PROVE ConditionInv'
  OBVIOUS
<1>1. CASE LowerBRCOND
  <2>1. node.op = "BRCOND" /\ node.lhs \in {0, 1}
    BY <1>1 DEF LowerBRCOND, ConditionInv, ConditionTypeOK, Sources,
                BranchOpcodes, CompareOpcodes
  <2>2. Meaning(node) <=> Holds("SETNE", node.lhs, 0)
    BY <2>1 DEF Meaning, Holds
  <2>3. node.lhs \in Words /\ 0 \in Words
    BY <2>1, HalfAssumption DEF Words
  <2> QED
    BY <1>1, <2>1, <2>2, <2>3, LowerInv DEF LowerBRCOND, IntCondCodes
<1>2. CASE LowerBR_CC
  <2>1. /\ node.op = "BR_CC" /\ node.cc \in IntCondCodes
        /\ node.lhs \in Words /\ node.rhs \in Words
    BY <1>2 DEF LowerBR_CC, ConditionInv, ConditionTypeOK, Sources,
                BranchOpcodes, CompareOpcodes
  <2> QED
    BY <1>2, <2>1, LowerInv DEF LowerBR_CC, Meaning
<1>3. CASE SelectBR_CC
  <2>1. /\ node.cc \in DOMAIN BranchOpcode
        /\ node.lhs \in Words /\ node.rhs \in Words
    BY <1>3 DEF SelectBR_CC, ConditionInv, ConditionTypeOK, Sources,
                BranchOpcodes, CompareOpcodes
  <2>2. CurrentMeaning <=> Holds(node.cc, node.lhs, node.rhs)
    BY <1>3 DEF SelectBR_CC, CurrentMeaning, BranchOpcodes, CompareOpcodes
  <2> QED
    BY <1>3, <2>1, <2>2, BranchLemma, SelectInv DEF SelectBR_CC
<1>4. CASE SelectSETCC
  <2>1. /\ node.cc \in DOMAIN CompareOpcode
        /\ node.lhs \in Words /\ node.rhs \in Words
    BY <1>4 DEF SelectSETCC, ConditionInv, ConditionTypeOK, Sources,
                BranchOpcodes, CompareOpcodes
  <2>2. CurrentMeaning <=> Holds(node.cc, node.lhs, node.rhs)
    BY <1>4 DEF SelectSETCC, CurrentMeaning, Meaning, BranchOpcodes,
                CompareOpcodes
  <2> QED
    BY <1>4, <2>1, <2>2, CompareLemma, SelectInv DEF SelectSETCC
<1>5. CASE Execute
  <2>1. CurrentMeaning <=> Computes(node.op, node.lhs, node.rhs)
    BY <1>5 DEF Execute, CurrentMeaning, BranchOpcodes, CompareOpcodes
  <2>2. outcome' = "yes" <=> Meaning(source)
    BY <1>5, <2>1 DEF Execute, ConditionInv
  <2>3. outcome' \in {"yes", "no"} /\ UNCHANGED <<node, source>>
    BY <1>5 DEF Execute
  <2>4. ConditionTypeOK'
    BY <2>3 DEF ConditionInv, ConditionTypeOK
  <2>5. (CurrentMeaning <=> Meaning(source))'
    BY <2>3 DEF ConditionInv, CurrentMeaning
  <2>6. OutcomeAsMeant'
    BY <2>2, <2>3 DEF OutcomeAsMeant
  <2> QED
    BY <2>4, <2>5, <2>6 DEF ConditionInv
<1>6. CASE UNCHANGED vars
  BY <1>6 DEF ConditionInv, ConditionTypeOK, OutcomeAsMeant, CurrentMeaning,
              vars
<1> QED
  BY <1>1, <1>2, <1>3, <1>4, <1>5, <1>6 DEF Next

(* At every step of every program the node means what the program asked.   *)
THEOREM ConditionInvariant == Spec => []ConditionInv
<1> QED
  BY InitInv, NextInv, PTL DEF Spec

(* Lowering only produces nodes Select and the patterns know how to read,  *)
(* with condition codes that have a branch.                                *)
THEOREM ConditionTypeCorrect == Spec => []ConditionTypeOK
<1>1. ConditionInv => ConditionTypeOK
  BY DEF ConditionInv
<1> QED
  BY <1>1, ConditionInvariant, PTL

(* For words of every width, the machine branches, or computes 1, exactly  *)
(* when the comparison of the program holds.                               *)
THEOREM SelectedAsMeant == Spec => []OutcomeAsMeant
<1>1. ConditionInv => OutcomeAsMeant
  BY DEF ConditionInv
<1> QED
  BY <1>1, ConditionInvariant, PTL
=============================================================================
