--------------------------- MODULE RV32IConditions ---------------------------
(***************************************************************************)
(* Lowering and selection of comparisons.  A BRCOND, BR_CC or SETCC node   *)
(* of the SelectionDAG is rewritten by the custom lowering of              *)
(* RV32ITargetLowering and by Select until it is one of the instructions   *)
(* of RV32I; the machine then executes it.                                 *)
(*                                                                         *)
(* A word is a natural number below 2 * Half; the words from Half up are   *)
(* the negative ones (Half = 2^31 for i32).                                *)
(***************************************************************************)
EXTENDS Integers, RV32ICondCodes

CONSTANTS
    Half,      \* half the number of words
    SetCCs     \* the condition codes a program uses as values

IntCondCodes == {"SETEQ", "SETNE", "SETLT", "SETLE", "SETGT", "SETGE",
                 "SETULT", "SETULE", "SETUGT", "SETUGE"}

ASSUME HalfAssumption == Half \in Nat \ {0}
ASSUME SetCCsAssumption == SetCCs \subseteq IntCondCodes

VARIABLES
    node,     \* the DAG node of the comparison, or the selected instruction
    source,   \* history: the node the program asked for
    outcome   \* what the machine made of it: branch taken, or value 1

vars == <<node, source, outcome>>

Words == 0 .. 2 * Half - 1
Signed(x) == IF x < Half THEN x ELSE x - 2 * Half

(* The meaning of ISD::CondCode on integers.                               *)
Holds(cc, x, y) ==
    \/ cc = "SETEQ" /\ x = y
    \/ cc = "SETNE" /\ x # y
    \/ cc = "SETLT" /\ Signed(x) < Signed(y)
    \/ cc = "SETLE" /\ Signed(x) <= Signed(y)
    \/ cc = "SETGT" /\ Signed(x) > Signed(y)
    \/ cc = "SETGE" /\ Signed(x) >= Signed(y)
    \/ cc = "SETULT" /\ x < y
    \/ cc = "SETULE" /\ x <= y
    \/ cc = "SETUGT" /\ x > y
    \/ cc = "SETUGE" /\ x >= y

(* What the selected instructions compute from their two registers.        *)
BranchOpcodes == {"BEQ", "BNE", "BLT", "BGE", "BLTU", "BGEU"}
CompareOpcodes == {"SLT", "SLTU"}
Computes(opc, rs1, rs2) ==
    \/ opc = "BEQ" /\ rs1 = rs2
    \/ opc = "BNE" /\ rs1 # rs2
    \/ opc \in {"BLT", "SLT"} /\ Signed(rs1) < Signed(rs2)
    \/ opc = "BGE" /\ Signed(rs1) >= Signed(rs2)
    \/ opc \in {"BLTU", "SLTU"} /\ rs1 < rs2
    \/ opc = "BGEU" /\ rs1 >= rs2

(* A BRCOND carries an i1, kept as 0 or 1 (ZeroOrOneBooleanContent).       *)
Sources == [op : {"BRCOND"}, cc : {"none"}, lhs : {0, 1}, rhs : {0}]
           \cup [op : {"BR_CC"}, cc : IntCondCodes, lhs : Words, rhs : Words]
           \cup [op : {"SETCC"}, cc : SetCCs, lhs : Words, rhs : Words]

(* What the program means by a node.                                       *)
Meaning(n) == IF n.op = "BRCOND" THEN n.lhs = 1
                                 ELSE Holds(n.cc, n.lhs, n.rhs)
-----------------------------------------------------------------------------
Init ==
    /\ source \in Sources
    /\ node = source
    /\ outcome = "unknown"

(* BRCOND becomes a comparison with X0, lowered at once.                   *)
LowerBRCOND ==
    /\ node.op = "BRCOND"
    /\ node' = LoweredBR_CC("SETNE", node.lhs, 0)
    /\ UNCHANGED <<source, outcome>>

LowerBR_CC ==
    /\ node.op = "BR_CC"
    /\ node' = LoweredBR_CC(node.cc, node.lhs, node.rhs)
    /\ UNCHANGED <<source, outcome>>

(* A condition code without a branch is llvm_unreachable.                  *)
SelectBR_CC ==
    /\ node.op = "RV32IISD::BR_CC"
    /\ node.cc \in DOMAIN BranchOpcode
    /\ node' = Node(BranchOpcode[node.cc], "none", node.lhs, node.rhs)
    /\ UNCHANGED <<source, outcome>>

(* SETCC is Legal: the pattern matcher selects it or reports an error.     *)
SelectSETCC ==
    /\ node.op = "SETCC"
    /\ node.cc \in DOMAIN CompareOpcode
    /\ node' = Node(CompareOpcode[node.cc], "none", node.lhs, node.rhs)
    /\ UNCHANGED <<source, outcome>>

Execute ==
    /\ node.op \in BranchOpcodes \cup CompareOpcodes
    /\ outcome = "unknown"
    /\ outcome' = IF Computes(node.op, node.lhs, node.rhs) THEN "yes" ELSE "no"
    /\ UNCHANGED <<node, source>>

Next == LowerBRCOND \/ LowerBR_CC \/ SelectBR_CC \/ SelectSETCC \/ Execute

(* The compiler and the machine do not stop in the middle.                 *)
Spec == Init /\ [][Next]_vars /\ WF_vars(Next)
-----------------------------------------------------------------------------
(* A node names two words and, unless it is an instruction or a BRCOND, a  *)
(* condition code its operation accepts: after LowerBR_CC only the codes   *)
(* Select has a branch for.                                                *)
ConditionTypeOK ==
    /\ source \in Sources
    /\ node \in Sources
         \cup [op : {"RV32IISD::BR_CC"}, cc : DOMAIN BranchOpcode,
               lhs : Words, rhs : Words]
         \cup [op : BranchOpcodes \cup CompareOpcodes, cc : {"none"},
               lhs : Words, rhs : Words]
    /\ outcome \in {"unknown", "yes", "no"}

(* However a comparison travels through LowerBRCOND, LowerBR_CC with its   *)
(* exchanged operands and Select, the machine branches (or computes 1)     *)
(* exactly when the program's comparison holds, signed and unsigned.       *)
OutcomeAsMeant ==
    outcome # "unknown" => (outcome = "yes" <=> Meaning(source))

(* RV32ISelLowering.cpp:60-63: every comparison is selected ("Other        *)
(* conditions (EQ, NE, GT, GE) are synthesized by the legalizer") and so   *)
(* comes to an outcome.                                                    *)
ComparisonDecided == <>(outcome # "unknown")
=============================================================================
