--------------------------- MODULE RV32IExecCalls ---------------------------
(***************************************************************************)
(* The machine of RV32IExec against the abstract specification of the      *)
(* procedure calls of the source program.                                  *)
(***************************************************************************)
EXTENDS RV32IExec

(* The code implements the procedure calls of the source program.          *)
Calls == INSTANCE ProcCalls
           WITH calls <- [k \in DOMAIN shadow |->
                            [fn |-> shadow[k].fn, args |-> shadow[k].args,
                             done |-> shadow[k].done]],
                results <- retval
ImplementsCalls == Calls!Spec
=============================================================================
