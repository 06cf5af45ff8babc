---------------------------- MODULE MCSelection -----------------------------
(* Words of 8 bits and immediates of 5, so that constants on both sides of *)
(* the immediate range occur; types of 1, 2 and 4 bits take the place of   *)
(* i1, i8 and i16.                                                         *)
EXTENDS RV32ISelection

A == T("register", 1, <<>>)
B == T("register", 2, <<>>)

(* Zero, small values, both ends of the immediates and of the signed words.*)
SomeWords == {0, 1, 3, 7, 8, 15, 16, 127, 128, 165, 240, 255}

RegisterOps == {Binary(op, A, B) : op \in DOMAIN RegisterPattern}
ImmediateOps == {Binary(op, A, Const(c)) :
                     op \in DOMAIN Imm12Pattern, c \in {-16, -1, 15}}
Shifts == {Binary(op, A, Const(c)) : op \in DOMAIN ShamtPattern, c \in {0, 1, 7}}
SignExtensions == {T("sign_extend_inreg", k, <<Binary("add", A, B)>>) :
                      k \in {1, 2, 4}}
Rotations == {Binary(op, Binary("xor", A, Const(3)), B) : op \in {"rotl", "rotr"}}
Nested == {
    \* the high word of a 64-bit addition, with the carry of the low words
    Binary("add", Binary("add", A, B),
           Binary("setult", Binary("add", A, B), A)),
    \* a constant that is also the left operand
    Binary("sub", Const(5), Binary("rotl", A, B)),
    T("store", WordBits, <<T("load", WordBits, <<Binary("add", A, Const(4))>>),
                           Binary("sra", B, Const(2))>>),
    T("call", 0, <<T("tglobaladdr", 9, <<>>),
                   T("sign_extend_inreg", 1, <<A>>), Binary("sub", A, B)>>)}

Supported == RegisterOps \cup ImmediateOps \cup Shifts \cup SignExtensions
             \cup Rotations \cup Nested

Selects == {T("select", 0, <<c, A, B>>) : c \in {A, Binary("setlt", A, B)}}
Multiplications == {Binary(op, A, B) : op \in DOMAIN Libcalls}
Bytes == {T("load", k, <<A>>) : k \in {2, 4}}
         \cup {T("store", k, <<A, B>>) : k \in {2, 4}}
WideConstants == {Binary("add", A, Const(16)), Const(-17)}
         \cup {T(op, 0, <<A>>) : op \in BitOperations}
Comparisons == {Binary("setne", A, B)}
IndirectCalls == {T("call", 0, <<A, B, Const(3)>>)}
JumpTables == {Binary("br_jt", T("jumptable", 0, <<>>), A)}

Unsupported == Selects \cup Multiplications \cup Bytes \cup WideConstants
               \cup Comparisons \cup JumpTables \cup IndirectCalls

SomeMemory == [a \in Word |-> (3 * a + 7) % Modulus]

EverySource == Supported \cup Unsupported

(* A block of operations that have a pattern, or an expansion into such,   *)
(* is compiled: expansion ends, and each node it leaves is selected and    *)
(* emitted.                                                                *)
SupportedCompiled == source \in Supported => EveryBlockCompiled
=============================================================================
