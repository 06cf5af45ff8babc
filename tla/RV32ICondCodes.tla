--------------------------- MODULE RV32ICondCodes ---------------------------
(***************************************************************************)
(* The condition codes as LowerBR_CC, Select and the patterns of SETCC     *)
(* treat them: which are replaced, and which instruction each selects.     *)
(***************************************************************************)
Node(op, cc, lhs, rhs) == [op |-> op, cc |-> cc, lhs |-> lhs, rhs |-> rhs]

(* The condition codes LowerBR_CC replaces, exchanging the operands; the   *)
(* branch Select has for each remaining code; the patterns of SETCC.       *)
Swap == [SETGT |-> "SETLT", SETLE |-> "SETGE",
         SETUGT |-> "SETULT", SETULE |-> "SETUGE"]
BranchOpcode == [SETEQ |-> "BEQ", SETNE |-> "BNE", SETLT |-> "BLT",
                 SETGE |-> "BGE", SETULT |-> "BLTU", SETUGE |-> "BGEU"]
CompareOpcode == [SETLT |-> "SLT", SETULT |-> "SLTU"]

(* RV32IISD::BR_CC with the operands a branch instruction can compare.     *)
LoweredBR_CC_noSwap(cc, lhs, rhs) ==    \* mutant: no case but the default
    Node("RV32IISD::BR_CC", cc, lhs, rhs)
LoweredBR_CC_sameOperands(cc, lhs, rhs) ==    \* mutant: std::swap forgotten
    Node("RV32IISD::BR_CC", IF cc \in DOMAIN Swap THEN Swap[cc] ELSE cc,
         lhs, rhs)
LoweredBR_CC(cc, lhs, rhs) ==
    IF cc \in DOMAIN Swap THEN Node("RV32IISD::BR_CC", Swap[cc], rhs, lhs)
                          ELSE Node("RV32IISD::BR_CC", cc, lhs, rhs)
=============================================================================
