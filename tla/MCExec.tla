------------------------------- MODULE MCExec -------------------------------
(* Programs of three functions that call each other with 0 to 10           *)
(* arguments, keep values alive across calls and loops, use locals and     *)
(* return 0, 1 or 2 words; and allocation orders that reach every kind of  *)
(* register.                                                               *)
EXTENDS RV32IExecCalls

Const(d, c) == [op |-> "const", dst |-> d, imm |-> c]
Add(d, a, b) == [op |-> "add", dst |-> d, a |-> a, b |-> b]
Addr(d, s) == [op |-> "addr", dst |-> d, slot |-> s]
Load(d, p) == [op |-> "load", dst |-> d, ptr |-> p]
Store(p, v) == [op |-> "store", ptr |-> p, val |-> v]
Alloca(d, b) == [op |-> "alloca", dst |-> d, bytes |-> b]
CallF(ds, f, as) ==
    [op |-> "call", dsts |-> ds, fn |-> f, args |-> as, tail |-> FALSE]
TailCall(f, as) ==
    [op |-> "call", dsts |-> <<>>, fn |-> f, args |-> as, tail |-> TRUE]
Ret(vs) == [op |-> "ret", vals |-> vs]

Fun(args, results, slots, body) ==
    [args |-> args, results |-> results, slots |-> slots, body |-> body]
Obj(s, a) == [size |-> s, align |-> a]

(* A leaf with two locals of different sizes, returning the sum of its     *)
(* two arguments through one of them, and the second argument.             *)
Leaf == Fun(2, 2, <<Obj(6, 2), Obj(4, 4)>>,
            <<Addr(3, 2), Store(3, 1), Load(4, 3), Add(5, 4, 2),
              Ret(<<5, 2>>)>>)

(* Two arguments, both needed after the call of the leaf.                  *)
Middle == Fun(2, 1, <<Obj(4, 4)>>,
              <<Addr(3, 1), Store(3, 2), CallF(<<4, 5>>, 3, <<2, 1>>),
                Load(6, 3), Add(7, 4, 6), Add(8, 7, 5), Add(9, 8, 1),
                Ret(<<9>>)>>)

Main == Fun(0, 1, <<>>,
            <<Const(1, 3), Const(2, 40), CallF(<<3>>, 2, <<1, 2>>),
              CallF(<<4>>, 2, <<3, 1>>), Add(5, 3, 4), Add(6, 5, 2),
              Ret(<<6>>)>>)

(* Nine arguments: the last one comes and goes on the stack.               *)
LeafNine == Fun(9, 1, <<Obj(4, 4)>>,
                <<Addr(10, 1), Store(10, 9), Add(11, 1, 8), Load(12, 10),
                  Add(13, 11, 12), Ret(<<13>>)>>)

(* Ten arguments, passed on in another order to a callee with nine.        *)
MiddleTen == Fun(10, 1, <<Obj(4, 4)>>,
                 <<Addr(11, 1), Store(11, 9),
                   CallF(<<12>>, 3, <<10, 9, 8, 7, 6, 5, 4, 3, 2>>),
                   Load(13, 11), Add(14, 12, 13), Add(15, 14, 10),
                   Ret(<<15>>)>>)

MainTen == Fun(0, 1, <<>>,
               [i \in 1 .. 10 |-> Const(i, i * i)]
               \o <<CallF(<<11>>, 2, <<1, 2, 3, 4, 5, 6, 7, 8, 9, 10>>),
                    Add(12, 11, 10), Ret(<<12>>)>>)

(* A callee without arguments, results or frame.                           *)
Empty == Fun(0, 0, <<>>, <<Ret(<<>>)>>)
MainEmpty == Fun(0, 0, <<Obj(4, 4)>>,
                 <<Const(1, 9), Addr(2, 1), Store(2, 1),
                   CallF(<<>>, 2, <<>>), Load(3, 2), Ret(<<>>)>>)

Label(b) == [op |-> "label", block |-> b]
Br(b) == [op |-> "br", to |-> b]
BrCC(cc, a, b, t, e) ==
    [op |-> "br_cc", cc |-> cc, a |-> a, b |-> b, to |-> t, else |-> e]

(* The larger of two arguments, returned by one of two blocks, each with a *)
(* frame and registers to restore; only one of them calls.                 *)
Larger == Fun(2, 1, <<Obj(4, 4)>>,
              <<Addr(3, 1), Store(3, 2), BrCC("SETLE", 1, 2, 2, 3),
                Label(2), CallF(<<>>, 3, <<>>), Load(4, 3), Ret(<<4>>),
                Label(3), Ret(<<1>>)>>)

(* A loop around a call: i and the result are in slots, the bound, the     *)
(* step and the addresses are computed before and needed in every round.   *)
Loop == Fun(0, 1, <<Obj(4, 4), Obj(4, 4)>>,
            <<Const(1, 3), Const(2, 1), Addr(3, 1), Addr(4, 2),
              Store(3, 2), Store(4, 2), Br(2),
              Label(2), Load(5, 3), Load(6, 4), CallF(<<7>>, 2, <<6, 5>>),
                Add(9, 5, 2), Store(3, 9), Add(8, 7, 1), Store(4, 8),
                BrCC("SETGT", 9, 1, 3, 2),
              Label(3), Load(10, 4), Add(11, 10, 1), Ret(<<11>>)>>)

(* Two variable-sized arrays in an entry procedure that refers to nothing  *)
(* else on its stack; LLVM's builder has rounded their sizes up to 16.     *)
TwoArrays(m, n) ==
    <<Fun(0, 2, <<>>,
          <<Const(1, m), Const(2, n), Const(8, 11), Const(9, 12),
            Alloca(3, 1), Alloca(4, 2), Store(3, 8), Store(4, 9),
            Load(5, 3), Load(6, 4), Add(7, 5, 6), Ret(<<7, 5>>)>>)>>

MCPrograms == {<<Main, Middle, Leaf>>, <<MainTen, MiddleTen, LeafNine>>,
               <<MainEmpty, Empty>>, <<Loop, Larger, Empty>>,
               TwoArrays(16, 32), TwoArrays(48, 16), TwoArrays(16, 16)}

(* A variable-sized array next to a local, and a call after it.            *)
MainAlloca == Fun(0, 1, <<Obj(4, 4)>>,
                  <<Const(1, 16), Addr(2, 1), Store(2, 1), Alloca(3, 1),
                    Const(4, 7), Store(3, 4), CallF(<<>>, 2, <<>>),
                    Load(5, 2), Load(6, 3), Add(7, 5, 6), Ret(<<7>>)>>)
AllocaPrograms == {<<MainAlloca, Empty>>}

(* A call marked `tail' right before the return.                           *)
MainTail == Fun(0, 0, <<>>, <<TailCall(3, <<>>), Ret(<<>>)>>)
TailPrograms == {<<MainTail, Empty, Empty>>}

(* The order of the register class, its reverse, and callee-saved first.   *)
Increasing == [k \in 1 .. 32 |-> k - 1]
MCOrders == {Increasing, Reverse(Increasing),
             <<8, 9, 18, 19, 20, 1, 10, 11, 5, 6, 7, 28, 29>>}

(* The locals of the programs, and up to 14 spilled values.                *)
MCNewObjects ==
    {[k \in 1 .. n |-> Obj(4, 4)] : n \in 0 .. 14}
    \cup UNION {{p[f].slots : f \in DOMAIN p} :
                p \in MCPrograms \cup AllocaPrograms \cup TailPrograms}
MCArgCounts == 0 .. 10
MCCSCounts == 0 .. 13
=============================================================================
