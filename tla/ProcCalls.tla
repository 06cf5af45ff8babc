----------------------------- MODULE ProcCalls -----------------------------
(***************************************************************************)
(* What a compiled program promises: its procedures call each other with   *)
(* the arguments the source program computes, in the order it computes     *)
(* them, and return the values it computes.  Nothing is said of registers, *)
(* frames or memory; RV32IExec is checked to implement this module.        *)
(*                                                                         *)
(* The source language is the IR of RV32ICodegen.  A pointer to a local    *)
(* variable is the number of its slot; it does not leave the procedure.    *)
(***************************************************************************)
EXTENDS Integers, SequencesExt

CONSTANT Programs

VARIABLES
    prog,     \* the program that runs
    calls,    \* the stack of activations [fn, args, done]
    results   \* what the procedure that returned last returned

vars == <<prog, calls, results>>
-----------------------------------------------------------------------------
MaxBlocks == 6    \* bound on the blocks a procedure executes

(* The statements of a block; the entry block is number 1.                 *)
Block(body, blk) ==
    LET labels == {k \in DOMAIN body : body[k].op = "label"}
        first == IF blk = 1 THEN 1
                 ELSE 1 + CHOOSE k \in labels : body[k].block = blk
    IN  SubSeq(body, first,
               Min({k - 1 : k \in {k \in labels : k >= first}}
                   \cup {Len(body)}))

Compare(cc, x, y) ==
    \/ cc = "SETEQ" /\ x = y
    \/ cc = "SETNE" /\ x # y
    \/ cc = "SETLT" /\ x < y
    \/ cc = "SETLE" /\ x <= y
    \/ cc = "SETGT" /\ x > y
    \/ cc = "SETGE" /\ x >= y

(* One statement, given the number of the block to execute next (0 at the  *)
(* end), the values and cells computed so far, the calls made so far and   *)
(* what a call returns.                                                    *)
Effect(st, s, returned) ==
    LET set(v) == [st EXCEPT !.env = (s.dst :> v) @@ @]
    IN  CASE s.op = "br" -> [st EXCEPT !.at = s.to]
          [] s.op = "br_cc" ->
               [st EXCEPT !.at = IF Compare(s.cc, st.env[s.a], st.env[s.b])
                                 THEN s.to ELSE s.else]
          [] s.op = "const" -> set(s.imm)
          [] s.op = "add" -> set(st.env[s.a] + st.env[s.b])
          [] s.op = "addr" -> set(s.slot)
          [] s.op = "alloca" -> set(100 + s.dst)
          [] s.op = "load" -> set(st.cells[st.env[s.ptr]])
          [] s.op = "store" ->
               [st EXCEPT !.cells = (st.env[s.ptr] :> st.env[s.val]) @@ @]
          [] s.op = "call" ->
               [st EXCEPT
                  !.env = [v \in ToSet(s.dsts) |->
                             returned[CHOOSE k \in DOMAIN s.dsts :
                                        s.dsts[k] = v]] @@ @,
                  !.calls = Append(@, [fn |-> s.fn,
                                       args |-> [i \in DOMAIN s.args |->
                                                   st.env[s.args[i]]]])]
          [] s.op = "ret" ->
               [st EXCEPT !.at = 0,
                          !.results = [k \in DOMAIN s.vals |->
                                         st.env[s.vals[k]]]]

(* The calls procedure f makes and the results it returns, given its       *)
(* arguments.  Call graphs are acyclic.                                    *)
RECURSIVE Run(_, _, _)
Run(p, f, args) ==
    LET step(st, s) ==
          Effect(st, s, IF s.op # "call" THEN <<>>
                        ELSE Run(p, s.fn, [i \in DOMAIN s.args |->
                                             st.env[s.args[i]]]).results)
        execute(st, k) ==
          IF st.at = 0 THEN st ELSE FoldLeft(step, st, Block(p[f].body, st.at))
    IN  FoldLeft(execute,
                 [at |-> 1, env |-> args, cells |-> <<>>, calls |-> <<>>,
                  results |-> <<>>],
                 [k \in 1 .. MaxBlocks |-> k])

Activation(f, args) == [fn |-> f, args |-> args, done |-> 0]
-----------------------------------------------------------------------------
Init ==
    /\ prog \in Programs
    /\ calls = <<Activation(1, <<>>)>>
    /\ results = <<>>

Top == Last(calls)
ToMake == Run(prog, Top.fn, Top.args).calls

Call ==
    /\ calls # <<>>
    /\ Top.done < Len(ToMake)
    /\ LET c == ToMake[Top.done + 1]
       IN  calls' = Append([calls EXCEPT ![Len(calls)].done = @ + 1],
                           Activation(c.fn, c.args))
    /\ UNCHANGED <<prog, results>>

Return ==
    /\ calls # <<>>
    /\ Top.done = Len(ToMake)
    /\ calls' = Front(calls)
    /\ results' = Run(prog, Top.fn, Top.args).results
    /\ UNCHANGED prog

Next == Call \/ Return

Spec == Init /\ [][Next]_vars
=============================================================================
