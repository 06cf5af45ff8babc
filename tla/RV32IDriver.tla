---------------------------- MODULE RV32IDriver -----------------------------
(***************************************************************************)
(* The driver, rv32i-compiler: what an invocation does from the            *)
(* registration of the target to its exit, and what becomes of output.s.   *)
(* Invocations share the directory they run in.  The output is written     *)
(* through a buffer, a write may fail, and an invocation may be stopped at *)
(* any point by a signal LLVM catches or by one it cannot, or exit in the  *)
(* middle of code generation.                                              *)
(*                                                                         *)
(* The name output.s refers to an inode; removing the name does not stop   *)
(* the writes of an invocation that has the inode open.                    *)
(***************************************************************************)
EXTENDS Integers, Sequences, FiniteSets

CONSTANTS
    Procs,     \* invocations of the driver
    Earlier,   \* the invocation an output.s already there comes from
    Size       \* number of pieces an output is written in

ASSUME SizeAssumption == Size \in Nat \ {0}
ASSUME EarlierAssumption == Earlier \notin Procs

VARIABLES
    run,      \* the state of each invocation
    name,     \* the inode called output.s: a set of at most one
    data,     \* the content of the inodes
    latest    \* history: the invocation begun last

vars == <<run, name, data, latest>>

(* An inode is called after the invocation that created it.  A piece tells *)
(* which output it is of; a hole is what a write beyond the end leaves.    *)
Inodes == Procs \cup {Earlier}
Hole == <<Earlier, 0>>
Complete(p) == [i \in 1 .. Size |-> <<p, i>>]
Output == {data[i] : i \in name}

(***************************************************************************)
(* What is registered or constructed, in the order it is, and what must    *)
(* have been before: adds and needs.                                       *)
(***************************************************************************)
Step(needs, adds) == [needs |-> needs, adds |-> adds]

MCParts == {"MCAsmInfo", "MCInstrInfo", "MCRegInfo", "MCSubtargetInfo",
            "MCInstPrinter", "MCCodeEmitter", "AsmTargetStreamer"}
Initializers ==
    << Step({}, {"Target"}),               \* LLVMInitializeRV32ITargetInfo
       Step({}, {"TargetMachineCtor"}),    \* LLVMInitializeRV32ITarget
       Step({}, MCParts),                  \* LLVMInitializeRV32ITargetMC
       Step({}, {"AsmPrinter"}) >>         \* LLVMInitializeRV32IAsmPrinter

(* The members of RV32ISubtarget in the order they are declared.  TLInfo   *)
(* computes its register properties from the RegisterInfo in InstrInfo.    *)
SubtargetMembers_loweringFirst ==    \* mutant: TLInfo declared first
    << Step({"RegisterInfo"}, {"TLInfo"}), Step({}, {"InstrInfo", "RegisterInfo"}),
       Step({}, {"FrameLowering"}) >>
SubtargetMembers ==
    << Step({}, {"InstrInfo", "RegisterInfo"}), Step({}, {"FrameLowering"}),
       Step({"RegisterInfo"}, {"TLInfo"}) >>

(* lookupTarget, then the constructor of RV32ITargetMachine, which ends    *)
(* with initAsmInfo.                                                       *)
Constructors ==
    << Step({"Target"}, {}), Step({"TargetMachineCtor"}, {"TLOF"}) >>
    \o SubtargetMembers \o
    << Step({"MCRegInfo", "MCAsmInfo", "MCInstrInfo", "MCSubtargetInfo"},
            {"TargetMachine"}) >>

(* What the passes of addPassesToEmitFile are made of.                     *)
PassParts == {"TargetMachine", "MCInstPrinter", "AsmTargetStreamer",
              "AsmPrinter", "TLOF", "InstrInfo", "TLInfo", "FrameLowering"}

Init ==
    /\ run = [p \in Procs |->
         [pc |-> "idle", todo |-> Initializers, built |-> {},
          inode |-> Earlier, at |-> 0, made |-> 0, buffer |-> <<>>,
          error |-> FALSE, registered |-> FALSE, keep |-> FALSE,
          status |-> "none", alone |-> TRUE, before |-> {}]]
    /\ name \in {{}, {Earlier}}
    /\ data = [i \in Inodes |-> IF i = Earlier THEN Complete(i) ELSE <<>>]
    /\ latest = Earlier

Ended(p) == run[p].pc = "ended"
Running(p) == run[p].pc \notin {"idle", "ended"}
Update(p, r) == run' = [run EXCEPT ![p] = r]
Goto(p, pc) == Update(p, [run[p] EXCEPT !.pc = pc])
End(p, status) == Update(p, [run[p] EXCEPT !.pc = "ended", !.status = status])
NameUnlinked(p) == name' = IF run[p].registered THEN {} ELSE name

-----------------------------------------------------------------------------
Begin(p) ==
    /\ run[p].pc = "idle"
    /\ LET others == {q \in Procs : Running(q)}
       IN  run' = [q \in Procs |->
             IF q = p THEN [run[p] EXCEPT !.pc = "start", !.before = Output,
                                          !.alone = (others = {})]
             ELSE [run[q] EXCEPT !.alone = @ /\ q \notin others]]
    /\ latest' = p
    /\ UNCHANGED <<name, data>>

(* One registration or construction.                                       *)
Build(p) ==
    /\ run[p].pc \in {"start", "construct"}
    /\ run[p].todo # <<>>
    /\ LET step == Head(run[p].todo)
       IN  IF step.needs \subseteq run[p].built
           THEN Update(p, [run[p] EXCEPT !.todo = Tail(@),
                                         !.built = @ \cup step.adds])
           ELSE End(p, "crash")
    /\ UNCHANGED <<name, data, latest>>

(* parseIRFile: an input that cannot be read or parsed ends the driver.    *)
ParseIR(p) ==
    /\ run[p].pc = "start"
    /\ run[p].todo = <<>>
    /\ \/ Update(p, [run[p] EXCEPT !.pc = "construct", !.todo = Constructors])
       \/ End(p, "1")
    /\ UNCHANGED <<name, data, latest>>

(* ToolOutputFile: the name is registered for removal on a signal, then    *)
(* the file is created, or an existing one emptied.                        *)
Register_plainStream(p) ==    \* mutant: raw_fd_ostream, not ToolOutputFile
    /\ run[p].pc = "construct"
    /\ run[p].todo = <<>>
    /\ Goto(p, "open")
    /\ UNCHANGED <<name, data, latest>>
Register(p) ==
    /\ run[p].pc = "construct"
    /\ run[p].todo = <<>>
    /\ Update(p, [run[p] EXCEPT !.pc = "open", !.registered = TRUE])
    /\ UNCHANGED <<name, data, latest>>

Open_noTruncate(p) ==    \* mutant: an existing file is not emptied
    /\ run[p].pc = "open"
    /\ name' = IF name = {} THEN {p} ELSE name
    /\ Update(p, [run[p] EXCEPT !.pc = "passes",
                                !.inode = CHOOSE j \in name' : TRUE])
    /\ UNCHANGED <<data, latest>>
Open(p) ==
    /\ run[p].pc = "open"
    /\ name' = IF name = {} THEN {p} ELSE name
    /\ LET i == CHOOSE j \in name' : TRUE
       IN  /\ data' = [data EXCEPT ![i] = <<>>]
           /\ Update(p, [run[p] EXCEPT !.pc = "passes", !.inode = i])
    /\ UNCHANGED latest

OpenFails(p) ==
    /\ run[p].pc = "open"
    /\ End(p, "1")
    /\ UNCHANGED <<name, data, latest>>

(* addPassesToEmitFile; if it cannot, the file is not kept.                *)
AddPasses(p) ==
    /\ run[p].pc = "passes"
    /\ Goto(p, IF PassParts \subseteq run[p].built THEN "codegen" ELSE "destroy")
    /\ UNCHANGED <<name, data, latest>>

-----------------------------------------------------------------------------
(* Pass.run: the printer adds a piece to the buffer.                       *)
Emit(p) ==
    /\ run[p].pc = "codegen"
    /\ run[p].made < Size
    /\ LET n == run[p].made + 1
       IN  Update(p, [run[p] EXCEPT !.made = n,
                                    !.buffer = Append(@, <<p, n>>)])
    /\ UNCHANGED <<name, data, latest>>

(* The buffer written at the offset of the file descriptor.  If only its   *)
(* first k pieces could be, the stream keeps the error and drops the rest. *)
Written(s, at, pieces) ==
    LET end == at + Len(pieces)
    IN  [i \in 1 .. IF end > Len(s) THEN end ELSE Len(s) |->
            IF i \in at + 1 .. end THEN pieces[i - at]
            ELSE IF i <= Len(s) THEN s[i] ELSE Hole]

Flush(p, pc) ==
    \E k \in 0 .. Len(run[p].buffer) :
        LET r == run[p]
        IN  /\ data' = [data EXCEPT ![r.inode] =
                            Written(@, r.at, SubSeq(r.buffer, 1, k))]
            /\ Update(p, [r EXCEPT !.pc = pc, !.at = @ + k, !.buffer = <<>>,
                                   !.error = @ \/ k < Len(r.buffer)])

Spill(p) ==    \* the buffer is full
    /\ run[p].pc = "codegen"
    /\ run[p].buffer # <<>>
    /\ Flush(p, "codegen")
    /\ UNCHANGED <<name, latest>>

(* report_fatal_error, as in "Cannot select".                              *)
Fatal(p) ==
    /\ run[p].pc = "codegen"
    /\ NameUnlinked(p)
    /\ End(p, "abort")
    /\ UNCHANGED <<data, latest>>

(* An error diagnostic, as for an inline asm constraint: no handler is     *)
(* set, so LLVM prints it and calls exit(1).  The locals of main are not   *)
(* destroyed and no interrupt handler runs: what is in the buffer is lost, *)
(* and output.s stays as far as it was written.                            *)
Diagnose(p) ==
    /\ run[p].pc = "codegen"
    /\ End(p, "diagnosed")
    /\ UNCHANGED <<name, data, latest>>

Keep_first(p) ==    \* mutant: Out.keep() before Pass.run
    /\ run[p].pc = "codegen"
    /\ Update(p, [run[p] EXCEPT !.pc = "destroy", !.keep = TRUE])
    /\ UNCHANGED <<name, data, latest>>
Keep(p) ==
    /\ run[p].pc = "codegen"
    /\ run[p].made = Size
    /\ Update(p, [run[p] EXCEPT !.pc = "destroy", !.keep = TRUE])
    /\ UNCHANGED <<name, data, latest>>

(* "Successfully compiled to output.s" is in the buffer of outs() by now.  *)
(* The locals of main are destroyed: Pass, with the streamer that holds    *)
(* the buffer of output.s, then Out, which closes the file and takes the   *)
(* name off the list for signals.  A pending error is only reported now,   *)
(* as a fatal one.                                                         *)
DestroyPass(p) ==
    /\ run[p].pc = "destroy"
    /\ Flush(p, "close")
    /\ UNCHANGED <<name, latest>>

Closed(p) ==
    /\ name' = IF run[p].keep THEN name ELSE {}
    /\ Update(p, [run[p] EXCEPT !.pc = "exit", !.registered = FALSE])

DestroyOut_silent(p) ==    \* mutant: the pending error is cleared
    /\ run[p].pc = "close"
    /\ Closed(p)
    /\ UNCHANGED <<data, latest>>
DestroyOut(p) ==
    /\ run[p].pc = "close"
    /\ \E closeFails \in BOOLEAN :
           IF run[p].error \/ closeFails
           THEN NameUnlinked(p) /\ End(p, "1")
           ELSE Closed(p)
    /\ UNCHANGED <<data, latest>>

(* The other locals, then the static objects: outs() is flushed last, and  *)
(* a standard output that takes no data turns the exit status into 1.      *)
Exit(p) ==
    /\ run[p].pc = "exit"
    /\ \E said \in BOOLEAN : End(p, IF run[p].keep /\ said THEN "0" ELSE "1")
    /\ UNCHANGED <<name, data, latest>>

-----------------------------------------------------------------------------
(* A signal LLVM handles removes the registered file; SIGKILL does not.    *)
Signal(p) ==
    /\ Running(p)
    /\ NameUnlinked(p)
    /\ End(p, "signal")
    /\ UNCHANGED <<data, latest>>

Kill(p) ==
    /\ Running(p)
    /\ End(p, "killed")
    /\ UNCHANGED <<name, data, latest>>

Next == \E p \in Procs :
    \/ Begin(p) \/ Build(p) \/ ParseIR(p) \/ Register(p) \/ Open(p)
    \/ OpenFails(p) \/ AddPasses(p) \/ Emit(p) \/ Spill(p) \/ Fatal(p)
    \/ Diagnose(p) \/ Keep(p) \/ DestroyPass(p) \/ DestroyOut(p)
    \/ Exit(p) \/ Signal(p) \/ Kill(p)

Spec == Init /\ [][Next]_vars
-----------------------------------------------------------------------------
(* One file at most is called output.s, and a file descriptor is only used *)
(* by an invocation that opened it; nothing is produced out of order.      *)
DriverTypeOK ==
    /\ \E i \in Inodes : name \subseteq {i}
    /\ \A i \in Inodes : \A k \in DOMAIN data[i] :
           data[i][k] \in (Inodes \X (1 .. Size)) \cup {Hole}
    /\ \A p \in Procs :
           /\ run[p].at + Len(run[p].buffer) <= run[p].made
           /\ run[p].made \in 0 .. Size
           /\ run[p].keep => run[p].made = Size

(* p overlapped no other invocation, and none has begun since.             *)
Undisturbed(p) == Ended(p) /\ run[p].alone /\ latest = p

(* Exit status 0 means that output.s is there and is the whole output of   *)
(* this invocation, whatever an earlier one left behind and whichever      *)
(* writes failed on the way.                                               *)
SuccessMeansOutput == \A p \in Procs :
    Undisturbed(p) /\ run[p].status = "0" => Output = {Complete(p)}

(* What an invocation leaves in output.s: what was there before, if        *)
(* anything, or all of its own output.                                     *)
LeavesNoPart(p) == Output \subseteq run[p].before \cup {Complete(p)}

(* Fatal errors, failing writes and signals cost the whole output or       *)
(* nothing, whichever instant they come at: in code generation, between    *)
(* the message and the close, or after it.  Only SIGKILL and error         *)
(* diagnostics go past the clean-up of ToolOutputFile.                     *)
AllOrNothing == \A p \in Procs :
    Undisturbed(p) /\ run[p].status \notin {"killed", "diagnosed"}
        => LeavesNoPart(p)

(* However an invocation ends, SIGKILL and diagnostics included: when it   *)
(* has put anything into output.s, nothing of an older output is left in   *)
(* there, and no hole.                                                     *)
OwnPieces(p, s) == \A k \in DOMAIN s : s[k] \in {p} \X (1 .. Size)
NeverMixed == \A p \in Procs :
    Undisturbed(p) =>
        \A s \in Output : s \in run[p].before \/ OwnPieces(p, s)

(* Nothing is used before it is registered or constructed: the four        *)
(* initialization calls, the members of RV32ISubtarget and of              *)
(* RV32ITargetMachine come in an order that serves each its needs.         *)
StartsUp == \A p \in Procs :
    run[p].status # "crash" /\ (run[p].pc = "destroy" => run[p].keep)
=============================================================================
