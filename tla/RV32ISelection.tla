--------------------------- MODULE RV32ISelection ---------------------------
(***************************************************************************)
(* The other operations: how a value, a store or a call of a basic block   *)
(* becomes instructions.  LLVM legalizes the SelectionDAG by the table of  *)
(* operation actions RV32ITargetLowering fills in, matches what is left    *)
(* with the patterns of RV32IInstrInfo.td, and the AsmPrinter emits the    *)
(* instructions; each step rewrites or emits one node, in any order.       *)
(*                                                                         *)
(* A DAG is written as the term of its root: equal subterms are one node.  *)
(* Comparisons other than SETLT and SETULT, and branches on them, are in   *)
(* RV32IConditions, global addresses in RV32IGlobals, frame indices in     *)
(* RV32ICodegen.                                                           *)
(***************************************************************************)
EXTENDS Integers, Sequences

CONSTANTS
    WordBits,     \* width of i32
    ImmBits,      \* width of simm12
    Memory,       \* the word at each address
    Inputs,       \* values tried in the two argument registers
    Sources,      \* the DAGs a program may ask for
    MaxDepth      \* bound on how deep a DAG may become

VARIABLES
    assertions, \* whether LLVM was built with assertions
    source,     \* history: the DAG the program asked for
    dag,        \* what has become of it
    emitted,    \* the instructions handed to the streamer
    phase       \* "legalize", "select", "print", then "done", "failed", or
                \* "undefined": gone on beyond an llvm_unreachable

vars == <<assertions, source, dag, emitted, phase>>

Pow2[k \in 0 .. 32] == IF k = 0 THEN 1 ELSE 2 * Pow2[k - 1]
Modulus == Pow2[WordBits]
Word == 0 .. Modulus - 1

ASSUME WidthAssumption == /\ \E k \in 2 .. 5 : WordBits = Pow2[k]
                          /\ ImmBits \in 1 .. WordBits
ASSUME WordsAssumption == Inputs \subseteq Word /\ Memory \in [Word -> Word]
ASSUME DepthAssumption == MaxDepth \in Nat
-----------------------------------------------------------------------------
(***************************************************************************)
(* The patterns of RV32IInstrInfo.td: the operation each instruction is    *)
(* selected for.  (setcc x, y, SETLT) is written setlt.                    *)
(***************************************************************************)
RegisterPattern == [add |-> "ADD", sub |-> "SUB", shl |-> "SLL",
    setlt |-> "SLT", setult |-> "SLTU", xor |-> "XOR", srl |-> "SRL",
    sra |-> "SRA", or |-> "OR", and |-> "AND"]
Imm12Pattern == [add |-> "ADDI", setlt |-> "SLTI", setult |-> "SLTIU",
    xor |-> "XORI", or |-> "ORI", and |-> "ANDI"]
ShamtPattern == [shl |-> "SLLI", srl |-> "SRLI", sra |-> "SRAI"]

RegisterOpcodes == {RegisterPattern[p] : p \in DOMAIN RegisterPattern}
Imm12Opcodes == {Imm12Pattern[p] : p \in DOMAIN Imm12Pattern}
ShamtOpcodes == {ShamtPattern[p] : p \in DOMAIN ShamtPattern}
Opcodes == RegisterOpcodes \cup Imm12Opcodes \cup ShamtOpcodes
           \cup {"LW", "SW", "PseudoCALL"}
Operands == {"register", "X0", "tglobaladdr", "texternalsym"}

Libcalls == [mul |-> 1, sdiv |-> 2, udiv |-> 3, srem |-> 4, urem |-> 5]
BitOperations == {"cttz", "ctlz", "ctpop", "bswap"}
CondCodes == {"setlt", "setult", "setne"}

(***************************************************************************)
(* Terms.  c is a constant, a register number, or a width in bits.         *)
(***************************************************************************)
T(op, c, kids) == [op |-> op, c |-> c, kids |-> kids]
Const(c) == T("constant", c, <<>>)
Binary(op, x, y) == T(op, 0, <<x, y>>)

(* The nodes whose operands are in S.  A condition code is a comparison,   *)
(* or a leaf that select_cc has as its last operand.                       *)
Nodes(ops, widths, n, S) == [op : ops, c : widths, kids : [1 .. n -> S]]
Shapes(S) ==
    Nodes({"register"}, 1 .. 2, 0, S)
    \cup Nodes({"constant", "X0", "tglobaladdr", "texternalsym", "jumptable"}
                 \cup CondCodes, Int, 0, S)
    \cup Nodes({"sign_extend_inreg"}, 1 .. WordBits - 1, 1, S)
    \cup Nodes({"load", "LW", "brind"} \cup BitOperations
                 \cup Imm12Opcodes \cup ShamtOpcodes, Int, 1, S)
    \cup Nodes(DOMAIN RegisterPattern \cup RegisterOpcodes
                 \cup DOMAIN Libcalls
                 \cup {"setne", "rotl", "rotr", "store", "SW", "br_jt"},
               Int, 2, S)
    \cup Nodes({"call", "PseudoCALL", "select"}, Int, 3, S)
    \cup Nodes({"select_cc"}, Int, 5, S)

(* The terms that are less than d nodes deep, and those considered.        *)
OfDepth[d \in 0 .. MaxDepth] ==
    IF d = 0 THEN {} ELSE Shapes(OfDepth[d - 1])
Terms == OfDepth[MaxDepth]

ASSUME SourcesAssumption == \A s \in Sources : s \in Terms

Subterms(t) ==
    LET below[s \in Terms] ==
          {s} \cup UNION {below[s.kids[i]] : i \in DOMAIN s.kids}
    IN  below[t]

(* t with v in the place of every u.                                       *)
Replace(t, u, v) ==
    LET with[s \in Terms] ==
          IF s = u THEN v
          ELSE [s EXCEPT !.kids = [i \in DOMAIN s.kids |-> with[s.kids[i]]]]
    IN  with[t]
-----------------------------------------------------------------------------
Signed(x) == IF x < Modulus \div 2 THEN x ELSE x - Modulus
Bool(b) == IF b THEN 1 ELSE 0
Poison == -1

Signextended(x, bits) ==
    LET low == x % Pow2[bits]
    IN  (IF low < Pow2[bits - 1] THEN low ELSE low - Pow2[bits]) % Modulus

(* The word with table[b][c] wherever x and y have the bits b and c.       *)
Bitwise(table, x, y) ==
    LET z[k \in 0 .. WordBits] ==
          [m \in Nat |-> [n \in Nat |->
             IF k = 0 THEN 0
             ELSE table[m % 2][n % 2] + 2 * z[k - 1][m \div 2][n \div 2]]]
    IN  z[WordBits][x][y]
And == [b \in 0 .. 1 |-> [c \in 0 .. 1 |-> b * c]]
Or == [b \in 0 .. 1 |-> [c \in 0 .. 1 |-> b + c - b * c]]
Xor == [b \in 0 .. 1 |-> [c \in 0 .. 1 |-> (b + c) % 2]]

(***************************************************************************)
(* What the nodes and the instructions compute from two words; a shift     *)
(* takes its amount modulo WordBits.  Functions return a value that tells  *)
(* their arguments apart, and what a store does is a word of that kind.    *)
(***************************************************************************)
Computes(op, x, y) ==
    LET k == y % WordBits
    IN  CASE op \in {"add", "ADD", "ADDI"} -> (x + y) % Modulus
          [] op \in {"sub", "SUB"} -> (x - y) % Modulus
          [] op \in {"and", "AND", "ANDI"} -> Bitwise(And, x, y)
          [] op \in {"or", "OR", "ORI"} -> Bitwise(Or, x, y)
          [] op \in {"xor", "XOR", "XORI"} -> Bitwise(Xor, x, y)
          [] op \in {"setlt", "SLT", "SLTI"} -> Bool(Signed(x) < Signed(y))
          [] op \in {"setult", "SLTU", "SLTIU"} -> Bool(x < y)
          [] op \in {"shl", "SLL", "SLLI"} -> (x * Pow2[k]) % Modulus
          [] op \in {"srl", "SRL", "SRLI"} -> x \div Pow2[k]
          [] op \in {"sra", "SRA", "SRAI"} ->
                 (Signed(x) \div Pow2[k]) % Modulus
          [] op = "rotl" ->
                 ((x * Pow2[k]) % Modulus) + (x \div Pow2[WordBits - k])
          [] op = "rotr" ->
                 (x \div Pow2[k]) + ((x * Pow2[WordBits - k]) % Modulus)
          [] op \in {"store", "SW"} -> (5 * x + y) % Modulus
Returned(f, x, y) == (f * x + y) % Modulus

(* The value of node t when its operands have the values a and the         *)
(* registers hold in.  A shift by WordBits or more is poison in the DAG.   *)
(* Operations that never become instructions are given no value.  An       *)
(* instruction with one register has its immediate, sign-extended unless   *)
(* it is a shift amount, as second operand.                                *)
Unvalued == {"jumptable", "setne", "br_jt", "brind", "select", "select_cc"}
            \cup DOMAIN Libcalls \cup BitOperations
NodeValue(t, a, in) ==
    CASE t.op = "register" -> in[t.c]
      [] t.op = "X0" -> 0
      [] t.op \in {"constant", "tglobaladdr", "texternalsym"} -> t.c % Modulus
      [] OTHER ->
           IF \/ t.op \in Unvalued \/ DOMAIN a = {}
              \/ \E i \in DOMAIN a : a[i] = Poison
              \/ t.op \in DOMAIN ShamtPattern /\ a[2] >= WordBits
           THEN Poison
           ELSE CASE t.op = "sign_extend_inreg" -> Signextended(a[1], t.c)
                  [] t.op \in {"load", "LW"} -> Memory[a[1]]
                  [] t.op \in {"call", "PseudoCALL"} ->
                         Returned(a[1], a[2], a[3])
                  [] t.op \in Imm12Opcodes ->
                         Computes(t.op, a[1], Signextended(t.c, ImmBits))
                  [] t.op \in ShamtOpcodes -> Computes(t.op, a[1], t.c)
                  [] OTHER -> Computes(t.op, a[1], a[2])

Value(t, in) ==
    LET v[s \in Terms] ==
          NodeValue(s, [i \in DOMAIN s.kids |-> v[s.kids[i]]], in)
    IN  v[t]
-----------------------------------------------------------------------------
(***************************************************************************)
(* Legalization.  The operations whose action is not Legal, and what LLVM  *)
(* expands each into.                                                      *)
(***************************************************************************)
ExpandOps_noSignExtend ==    \* mutant: i8, i16 of SIGN_EXTEND_INREG left out
    {"br_jt", "select_cc", "select", "rotl", "rotr"}
        \cup DOMAIN Libcalls \cup BitOperations
ExpandOps ==
    {"br_jt", "select_cc", "select", "sign_extend_inreg", "rotl", "rotr"}
        \cup DOMAIN Libcalls \cup BitOperations

(* A rotation needs both shifts, a select the comparison of its condition; *)
(* multiplication and division become calls that pass through LowerCall;   *)
(* of the masks a bit operation is made of, one stands for all.            *)
Rotation(x, y, there, back) ==
    LET Amount(n) == Binary("and", n, Const(WordBits - 1))
    IN  Binary("or", Binary(there, x, Amount(y)),
                     Binary(back, x, Amount(Binary("sub", Const(0), y))))

Expansion(t) ==
    LET x == t.kids[1]
        y == t.kids[2]
        away == Const(WordBits - t.c)
    IN  CASE t.op = "sign_extend_inreg" /\ t.c = 1 ->
                 Binary("sub", Const(0), Binary("and", x, Const(1)))
          [] t.op = "sign_extend_inreg" /\ t.c > 1 ->
                 Binary("sra", Binary("shl", x, away), away)
          [] t.op = "rotl" -> Rotation(x, y, "shl", "srl")
          [] t.op = "rotr" -> Rotation(x, y, "srl", "shl")
          [] t.op = "select" /\ x.op \in CondCodes ->
                 T("select_cc", 0, x.kids \o Tail(t.kids) \o
                                       <<T(x.op, 0, <<>>)>>)
          [] t.op = "select" /\ x.op \notin CondCodes ->
                 T("select_cc", 0, <<x, Const(0)>> \o Tail(t.kids) \o
                                       <<T("setne", 0, <<>>)>>)
          [] t.op = "select_cc" ->
                 T("select", 0, <<Binary(t.kids[5].op, x, y),
                                  t.kids[3], t.kids[4]>>)
          [] t.op \in DOMAIN Libcalls ->
                 T("call", 0, <<T("texternalsym", Libcalls[t.op], <<>>), x, y>>)
          [] t.op \in BitOperations ->
                 Binary("and", x, Const(Modulus \div 3))    \* 0x55555555
          [] t.op = "br_jt" ->
                 T("brind", 0, <<T("load", WordBits,
                     <<Binary("add", x, Binary("shl", y, Const(2)))>>)>>)

(* Every use of t becomes one of u.                                        *)
Rewrite(t, u) == dag' = Replace(dag, t, u) /\ dag' \in Terms

Init ==
    /\ assertions \in BOOLEAN
    /\ source \in Sources
    /\ dag = source
    /\ emitted = {}
    /\ phase = "legalize"

(* LLVM asserts that a SELECT_CC is not expanded while SELECT is too; a    *)
(* build without assertions expands the one into the other and back.       *)
LegalizeOp ==
    /\ phase = "legalize"
    /\ \E t \in Subterms(dag) :
           /\ t.op \in ExpandOps
           /\ IF t.op = "select_cc" /\ assertions
              THEN phase' = "failed" /\ UNCHANGED dag
              ELSE Rewrite(t, Expansion(t)) /\ UNCHANGED phase
    /\ UNCHANGED <<assertions, source, emitted>>

Legalized ==
    /\ phase = "legalize"
    /\ \A t \in Subterms(dag) : t.op \notin ExpandOps
    /\ phase' = "select"
    /\ UNCHANGED <<assertions, source, dag, emitted>>
-----------------------------------------------------------------------------
(* Selection.                                                              *)

simm12_unsigned(c) == 0 <= c /\ c < Pow2[ImmBits]    \* mutant: isUInt<12>
simm12(c) == -Pow2[ImmBits - 1] <= c /\ c < Pow2[ImmBits - 1]
shamt(c) == 0 <= c /\ c < WordBits

(* A pattern with an immediate is preferred to the one with registers.     *)
FoldsImm12(t) == /\ t.op \in DOMAIN Imm12Pattern
                 /\ t.kids[2].op = "constant" /\ simm12(t.kids[2].c)
FoldsShamt(t) == /\ t.op \in DOMAIN ShamtPattern
                 /\ t.kids[2].op = "constant" /\ shamt(t.kids[2].c)

(* Nodes are selected from the root down: a constant that an instruction   *)
(* has taken as its immediate is no longer there.                          *)
Unselected_noConstants ==    \* mutant: constants taken for target constants
    {t \in Subterms(dag) : t.op \notin Opcodes \cup Operands \cup {"constant"}}
Unselected == {t \in Subterms(dag) : t.op \notin Opcodes \cup Operands}
Ready == {t \in Unselected :
             \A u \in Unselected : \A i \in DOMAIN u.kids : u.kids[i] # t}

Select(t, instr) ==
    /\ phase = "select"
    /\ Rewrite(t, instr)
    /\ UNCHANGED <<assertions, source, emitted, phase>>

SelectImm12 == \E t \in Ready :
    /\ FoldsImm12(t)
    /\ Select(t, T(Imm12Pattern[t.op], t.kids[2].c, <<t.kids[1]>>))

SelectShamt == \E t \in Ready :
    /\ FoldsShamt(t)
    /\ Select(t, T(ShamtPattern[t.op], t.kids[2].c, <<t.kids[1]>>))

SelectRegisters == \E t \in Ready :
    /\ t.op \in DOMAIN RegisterPattern
    /\ ~FoldsImm12(t) /\ ~FoldsShamt(t)
    /\ Select(t, T(RegisterPattern[t.op], 0, t.kids))

SelectConstant == \E t \in Ready :
    /\ t.op = "constant"
    /\ simm12(t.c)
    /\ Select(t, T("ADDI", t.c, <<T("X0", 0, <<>>)>>))

(* Only loads and stores of a whole word have a pattern.                   *)
SelectLoad == \E t \in Ready :
    /\ t.op = "load"
    /\ t.c = WordBits
    /\ Select(t, T("LW", 0, t.kids))

SelectStore == \E t \in Ready :
    /\ t.op = "store"
    /\ t.c = WordBits
    /\ Select(t, T("SW", 0, t.kids))

(* The callees PseudoCALL has a pattern for.                               *)
Callees == {"tglobaladdr", "texternalsym"}
SelectCall == \E t \in Ready :
    /\ t.op = "call"
    /\ t.kids[1].op \in Callees
    /\ Select(t, T("PseudoCALL", 0, t.kids))

(* "Cannot select": no pattern matches, a fatal error.  LowerCall leaves a *)
(* callee that is in a register as it is.                                  *)
CannotSelect ==
    /\ phase = "select"
    /\ \E t \in Ready :
           /\ t.op \notin DOMAIN RegisterPattern
           /\ ~ (t.op = "constant" /\ simm12(t.c))
           /\ ~ (t.op \in {"load", "store"} /\ t.c = WordBits)
           /\ ~ (t.op = "call" /\ t.kids[1].op \in Callees)
    /\ phase' = "failed"
    /\ UNCHANGED <<assertions, source, dag, emitted>>

Selected ==
    /\ phase = "select"
    /\ Unselected = {}
    /\ phase' = "print"
    /\ UNCHANGED <<assertions, source, dag, emitted>>
-----------------------------------------------------------------------------
(* AsmPrinter: an operand that is an external symbol has no case and is    *)
(* llvm_unreachable.  A build with assertions stops there; without them    *)
(* the behaviour is undefined, and no more is said of the block.           *)
Instructions == {t \in Subterms(dag) : t.op \in Opcodes}

EmitInstruction ==
    /\ phase = "print"
    /\ \E t \in Instructions \ emitted :
           /\ \A i \in DOMAIN t.kids :
                  t.kids[i].op \in Opcodes => t.kids[i] \in emitted
           /\ IF \E i \in DOMAIN t.kids : t.kids[i].op = "texternalsym"
              THEN /\ phase' \in IF assertions THEN {"failed"}
                               ELSE {"failed", "undefined"}
                   /\ UNCHANGED emitted
              ELSE emitted' = emitted \cup {t} /\ UNCHANGED phase
    /\ UNCHANGED <<assertions, source, dag>>

Finish ==
    /\ phase = "print"
    /\ emitted = Instructions
    /\ phase' = "done"
    /\ UNCHANGED <<assertions, source, dag, emitted>>

Next == \/ LegalizeOp \/ Legalized
        \/ SelectImm12 \/ SelectShamt \/ SelectRegisters \/ SelectConstant
        \/ SelectLoad \/ SelectStore \/ SelectCall \/ CannotSelect \/ Selected
        \/ EmitInstruction \/ Finish

(* The compiler is one thread that does not pause.                         *)
Spec == Init /\ [][Next]_vars /\ WF_vars(Next)
-----------------------------------------------------------------------------
(* What is emitted are instructions of the DAG, each after the ones whose  *)
(* results it reads, and a finished block has emitted them all.            *)
SelectionTypeOK ==
    /\ phase \in {"legalize", "select", "print", "done", "failed", "undefined"}
    /\ emitted \subseteq Instructions
    /\ \A t \in emitted : \A u \in Subterms(t) :
           u.op \in Opcodes => u \in emitted
    /\ phase = "done" => Subterms(dag) \subseteq
           emitted \cup {t \in Subterms(dag) : t.op \in Operands}

(* Through every expansion and every pattern, with immediates folded or    *)
(* kept in registers, the block computes the value the program asked for,  *)
(* for all contents of the registers for which that value is defined.      *)
ValueAsMeant == \A in \in [1 .. 2 -> Inputs] :
    Value(source, in) # Poison => Value(dag, in) = Value(source, in)

(* The compiler comes to an end with the emitted block: whatever nodes the *)
(* expansions make of the source, each of them is selected and emitted.    *)
EveryBlockCompiled == <>(phase = "done")
=============================================================================
