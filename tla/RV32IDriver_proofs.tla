------------------------- MODULE RV32IDriver_proofs -------------------------
(***************************************************************************)
(* Proofs about the driver, for every number of invocations and every      *)
(* length of an output.                                                    *)
(*                                                                         *)
(* PartsInv follows what is constructed.  FileInv follows output.s: while  *)
(* an invocation overlaps no other one, the name refers to the inode it    *)
(* has open, what is in it are pieces of its own, and unless a write has   *)
(* failed, file and buffer together are the pieces made so far.            *)
(***************************************************************************)
EXTENDS RV32IDriver, SequenceTheorems, TLAPS

-----------------------------------------------------------------------------
(* What is left to construct finds what it needs, and adds what is wanted. *)
Served(todo, built, wanted) ==
    /\ \A k \in 1 .. Len(todo) : \A x \in todo[k].needs :
           x \in built \/ \E j \in 1 .. k - 1 : x \in todo[j].adds
    /\ \A x \in wanted :
           x \in built \/ \E j \in 1 .. Len(todo) : x \in todo[j].adds

Registered == {"Target", "TargetMachineCtor", "AsmPrinter"} \cup MCParts
Parts == Registered \cup PassParts \cup {"RegisterInfo"}
Steps == [needs : SUBSET Parts, adds : SUBSET Parts]

(* One construction brings its parts to the rest.                          *)
LEMMA ServedTail ==
    ASSUME NEW todo \in Seq(Steps), NEW built, NEW wanted,
           Served(todo, built, wanted), todo # <<>>
    PROVE  /\ Head(todo).needs \subseteq built
           /\ Served(Tail(todo), built \cup Head(todo).adds, wanted)
<1>1. /\ Head(todo) = todo[1]
      /\ Len(todo) \in Nat /\ Len(todo) >= 1
      /\ Len(Tail(todo)) = Len(todo) - 1
      /\ \A k \in 1 .. Len(Tail(todo)) : Tail(todo)[k] = todo[k + 1]
  OBVIOUS
<1>2. Head(todo).needs \subseteq built
  BY <1>1 DEF Served
<1>3. ASSUME NEW k \in 1 .. Len(Tail(todo)), NEW x \in Tail(todo)[k].needs
      PROVE  \/ x \in built \cup Head(todo).adds
             \/ \E j \in 1 .. k - 1 : x \in Tail(todo)[j].adds
  <2>1. x \in todo[k + 1].needs /\ k + 1 \in 1 .. Len(todo)
    BY <1>1, <1>3
  <2>2. x \in built \/ \E j \in 1 .. k : x \in todo[j].adds
    BY <2>1, <1>3, <1>1 DEF Served
  <2>3. CASE \E j \in 1 .. k : x \in todo[j].adds
    <3>1. PICK j \in 1 .. k : x \in todo[j].adds
      BY <2>3
    <3>2. CASE j = 1
      BY <3>1, <3>2, <1>1
    <3>3. CASE j > 1
      <4>1. j - 1 \in 1 .. k - 1 /\ Tail(todo)[j - 1] = todo[j]
        BY <3>3, <1>1, <1>3
      <4> QED BY <4>1, <3>1
    <3> QED BY <3>2, <3>3
  <2> QED BY <2>2, <2>3
<1>4. ASSUME NEW x \in wanted
      PROVE  \/ x \in built \cup Head(todo).adds
             \/ \E j \in 1 .. Len(Tail(todo)) : x \in Tail(todo)[j].adds
  <2>1. CASE \E j \in 1 .. Len(todo) : x \in todo[j].adds
    <3>1. PICK j \in 1 .. Len(todo) : x \in todo[j].adds
      BY <2>1
    <3>2. CASE j = 1
      BY <3>1, <3>2, <1>1
    <3>3. CASE j > 1
      <4>1. /\ j - 1 \in 1 .. Len(Tail(todo))
            /\ Tail(todo)[j - 1] = todo[j]
        BY <3>3, <1>1
      <4> QED BY <4>1, <3>1
    <3> QED BY <3>2, <3>3
  <2> QED BY <2>1 DEF Served
<1> QED BY <1>2, <1>3, <1>4 DEF Served

(* A construction is made of known parts.                                  *)
LEMMA StepType ==
    ASSUME NEW needs \in SUBSET Parts, NEW adds \in SUBSET Parts
    PROVE  Step(needs, adds) \in Steps
BY DEF Step, Steps

(* The four initialization calls need nothing and register everything.     *)
LEMMA InitializersServed ==
    /\ Initializers \in Seq(Steps)
    /\ Served(Initializers, {}, Registered)
<1>1. /\ Initializers \in Seq(Steps) /\ Len(Initializers) = 4
      /\ Initializers[1] = Step({}, {"Target"})
      /\ Initializers[2] = Step({}, {"TargetMachineCtor"})
      /\ Initializers[3] = Step({}, MCParts)
      /\ Initializers[4] = Step({}, {"AsmPrinter"})
  <2>1. /\ {} \in SUBSET Parts /\ MCParts \in SUBSET Parts
        /\ {"Target"} \in SUBSET Parts
        /\ {"TargetMachineCtor"} \in SUBSET Parts
        /\ {"AsmPrinter"} \in SUBSET Parts
    BY DEF Parts, Registered
  <2>2. /\ Step({}, {"Target"}) \in Steps
        /\ Step({}, {"TargetMachineCtor"}) \in Steps
        /\ Step({}, MCParts) \in Steps
        /\ Step({}, {"AsmPrinter"}) \in Steps
    BY <2>1, StepType
  <2> QED BY <2>2 DEF Initializers
<1>2. \A k \in 1 .. 4 : Initializers[k].needs = {}
  BY <1>1 DEF Step
<1>3. /\ "Target" \in Initializers[1].adds
      /\ "TargetMachineCtor" \in Initializers[2].adds
      /\ MCParts \subseteq Initializers[3].adds
      /\ "AsmPrinter" \in Initializers[4].adds
  BY <1>1 DEF Step
<1>4. \A x \in Registered : \E j \in 1 .. 4 : x \in Initializers[j].adds
  BY <1>3 DEF Registered
<1> QED BY <1>1, <1>2, <1>4 DEF Served

(* What they register is all that the constructors need.                   *)
LEMMA ConstructorsServed ==
    ASSUME NEW built, Registered \subseteq built
    PROVE  /\ Constructors \in Seq(Steps)
           /\ Served(Constructors, built, PassParts)
<1>1. /\ Constructors \in Seq(Steps) /\ Len(Constructors) = 6
      /\ Constructors[1] = Step({"Target"}, {})
      /\ Constructors[2] = Step({"TargetMachineCtor"}, {"TLOF"})
      /\ Constructors[3] = Step({}, {"InstrInfo", "RegisterInfo"})
      /\ Constructors[4] = Step({}, {"FrameLowering"})
      /\ Constructors[5] = Step({"RegisterInfo"}, {"TLInfo"})
      /\ Constructors[6] = Step({"MCRegInfo", "MCAsmInfo", "MCInstrInfo",
                                 "MCSubtargetInfo"}, {"TargetMachine"})
  <2> DEFINE lookup == << Step({"Target"}, {}),
                          Step({"TargetMachineCtor"}, {"TLOF"}) >>
             asmInfo == << Step({"MCRegInfo", "MCAsmInfo", "MCInstrInfo",
                                 "MCSubtargetInfo"}, {"TargetMachine"}) >>
  <2>1. lookup \in Seq(Steps) /\ SubtargetMembers \in Seq(Steps)
        /\ asmInfo \in Seq(Steps)
    <3>1. /\ {} \in SUBSET Parts /\ {"Target"} \in SUBSET Parts
          /\ {"TargetMachineCtor"} \in SUBSET Parts
          /\ {"TLOF"} \in SUBSET Parts
          /\ {"InstrInfo", "RegisterInfo"} \in SUBSET Parts
          /\ {"FrameLowering"} \in SUBSET Parts
          /\ {"RegisterInfo"} \in SUBSET Parts /\ {"TLInfo"} \in SUBSET Parts
          /\ {"MCRegInfo", "MCAsmInfo", "MCInstrInfo", "MCSubtargetInfo"}
                 \in SUBSET Parts
          /\ {"TargetMachine"} \in SUBSET Parts
      BY DEF Parts, Registered, MCParts, PassParts
    <3>2. /\ Step({"Target"}, {}) \in Steps
          /\ Step({"TargetMachineCtor"}, {"TLOF"}) \in Steps
          /\ Step({}, {"InstrInfo", "RegisterInfo"}) \in Steps
          /\ Step({}, {"FrameLowering"}) \in Steps
          /\ Step({"RegisterInfo"}, {"TLInfo"}) \in Steps
          /\ Step({"MCRegInfo", "MCAsmInfo", "MCInstrInfo",
                   "MCSubtargetInfo"}, {"TargetMachine"}) \in Steps
      BY <3>1, StepType
    <3> QED BY <3>2 DEF SubtargetMembers
  <2>2. Len(lookup) = 2 /\ Len(SubtargetMembers) = 3 /\ Len(asmInfo) = 1
    BY DEF SubtargetMembers
  <2>3. Constructors = lookup \o SubtargetMembers \o asmInfo
    BY DEF Constructors
  <2>4. /\ lookup[1] = Step({"Target"}, {})
        /\ lookup[2] = Step({"TargetMachineCtor"}, {"TLOF"})
        /\ SubtargetMembers[1] = Step({}, {"InstrInfo", "RegisterInfo"})
        /\ SubtargetMembers[2] = Step({}, {"FrameLowering"})
        /\ SubtargetMembers[3] = Step({"RegisterInfo"}, {"TLInfo"})
        /\ asmInfo[1] = Step({"MCRegInfo", "MCAsmInfo", "MCInstrInfo",
                              "MCSubtargetInfo"}, {"TargetMachine"})
    BY DEF SubtargetMembers
  <2> HIDE DEF lookup, asmInfo
  <2> DEFINE front == lookup \o SubtargetMembers
  <2>5. /\ front \in Seq(Steps)
        /\ Len(front) = Len(lookup) + Len(SubtargetMembers)
        /\ \A k \in 1 .. Len(lookup) + Len(SubtargetMembers) :
               front[k] = IF k <= Len(lookup) THEN lookup[k]
                          ELSE SubtargetMembers[k - Len(lookup)]
    BY <2>1, ConcatProperties, Zenon
  <2>6. Constructors = front \o asmInfo
    BY <2>3
  <2> HIDE DEF front
  <2>7. /\ Constructors \in Seq(Steps)
        /\ Len(Constructors) = Len(front) + Len(asmInfo)
        /\ \A k \in 1 .. Len(front) + Len(asmInfo) :
               Constructors[k] = IF k <= Len(front) THEN front[k]
                                 ELSE asmInfo[k - Len(front)]
    <3>1. front \in Seq(Steps) /\ asmInfo \in Seq(Steps)
      BY <2>1, <2>5
    <3> HIDE DEF front, asmInfo
    <3> QED BY <3>1, <2>6, ConcatProperties, Zenon
  <2>8. /\ Len(front) = 5 /\ Len(Constructors) = 6
        /\ front[1] = lookup[1] /\ front[2] = lookup[2]
        /\ front[3] = SubtargetMembers[1] /\ front[4] = SubtargetMembers[2]
        /\ front[5] = SubtargetMembers[3]
    BY <2>2, <2>5, <2>7
  <2>9. /\ Constructors[1] = front[1] /\ Constructors[2] = front[2]
        /\ Constructors[3] = front[3] /\ Constructors[4] = front[4]
        /\ Constructors[5] = front[5] /\ Constructors[6] = asmInfo[1]
    BY <2>2, <2>7, <2>8
  <2> QED BY <2>4, <2>7, <2>8, <2>9
<1>2. ASSUME NEW k \in 1 .. 6, NEW x \in Constructors[k].needs
      PROVE  x \in built \/ \E j \in 1 .. k - 1 : x \in Constructors[j].adds
  <2>1. CASE k = 5
    BY <2>1, <1>1, <1>2 DEF Step
  <2>2. CASE k # 5
    BY <2>2, <1>1, <1>2 DEF Step, Registered, MCParts
  <2> QED BY <2>1, <2>2
<1>3. /\ "TLOF" \in Constructors[2].adds
      /\ "InstrInfo" \in Constructors[3].adds
      /\ "FrameLowering" \in Constructors[4].adds
      /\ "TLInfo" \in Constructors[5].adds
      /\ "TargetMachine" \in Constructors[6].adds
  BY <1>1 DEF Step
<1>4. \A x \in PassParts : x \in built \/ \E j \in 1 .. 6 : x \in Constructors[j].adds
  BY <1>3 DEF PassParts, Registered, MCParts
<1> QED BY <1>1, <1>2, <1>4 DEF Served
-----------------------------------------------------------------------------
(* The types of the variables.                                             *)
Phases == {"idle", "start", "construct", "open", "passes", "codegen",
           "destroy", "close", "exit", "ended"}
Statuses == {"none", "crash", "1", "0", "abort", "diagnosed", "signal",
             "killed"}
Pieces == (Inodes \X (1 .. Size)) \cup {Hole}
Runs == [pc : Phases, todo : Seq(Steps), built : SUBSET Parts,
         inode : Inodes, at : Nat, made : 0 .. Size, buffer : Seq(Pieces),
         error : BOOLEAN, registered : BOOLEAN, keep : BOOLEAN,
         status : Statuses, alone : BOOLEAN, before : SUBSET Seq(Pieces)]

TypeInv ==
    /\ run \in [Procs -> Runs]
    /\ name \in SUBSET Inodes /\ \E i \in Inodes : name \subseteq {i}
    /\ data \in [Inodes -> Seq(Pieces)]
    /\ latest \in Inodes

(* A write leaves a sequence of pieces and holes.                          *)
LEMMA WrittenType ==
    ASSUME NEW s \in Seq(Pieces), NEW at \in Nat, NEW pieces \in Seq(Pieces)
    PROVE  Written(s, at, pieces) \in Seq(Pieces)
<1> DEFINE end == at + Len(pieces)
           len == IF end > Len(s) THEN end ELSE Len(s)
           W(i) == IF i \in at + 1 .. end THEN pieces[i - at]
                   ELSE IF i <= Len(s) THEN s[i] ELSE Hole
<1>1. end \in Nat /\ len \in Nat
  OBVIOUS
<1>2. ASSUME NEW i \in 1 .. len PROVE W(i) \in Pieces
  <2>1. CASE i \in at + 1 .. end
    <3>1. i - at \in 1 .. Len(pieces)
      BY <2>1
    <3> QED BY <2>1, <3>1
  <2>2. CASE i \notin at + 1 .. end /\ i <= Len(s)
    <3>1. i \in 1 .. Len(s)
      BY <2>2, <1>2, <1>1
    <3> QED BY <2>2, <3>1
  <2>3. CASE i \notin at + 1 .. end /\ ~ (i <= Len(s))
    BY <2>3 DEF Pieces
  <2> QED BY <2>1, <2>2, <2>3
<1>3. [i \in 1 .. len |-> W(i)] \in [1 .. len -> Pieces]
  BY <1>2
<1>4. [i \in 1 .. len |-> W(i)] \in Seq(Pieces)
  BY <1>1, <1>3
<1> QED BY <1>4 DEF Written

(* One invocation changes, the others stay as they are.                    *)
LEMMA UpdateLemma ==
    ASSUME TypeInv, NEW p \in Procs, NEW r \in Runs, Update(p, r)
    PROVE  /\ run' \in [Procs -> Runs]
           /\ run'[p] = r
           /\ \A q \in Procs : q # p => run'[q] = run[q]
BY DEF TypeInv, Update

(* How a write fails or succeeds.                                          *)
LEMMA FlushType ==
    ASSUME TypeInv, NEW p \in Procs, NEW pc \in Phases, Flush(p, pc)
    PROVE  run' \in [Procs -> Runs] /\ data' \in [Inodes -> Seq(Pieces)]
<1>1. PICK k \in 0 .. Len(run[p].buffer) :
        /\ data' = [data EXCEPT ![run[p].inode] =
                       Written(@, run[p].at, SubSeq(run[p].buffer, 1, k))]
        /\ Update(p, [run[p] EXCEPT !.pc = pc, !.at = @ + k, !.buffer = <<>>,
                         !.error = @ \/ k < Len(run[p].buffer)])
  BY DEF Flush
<1>2. /\ run[p] \in Runs /\ run[p].at \in Nat /\ run[p].buffer \in Seq(Pieces)
      /\ run[p].inode \in Inodes
  BY DEF TypeInv, Runs
<1>3. k \in Nat /\ SubSeq(run[p].buffer, 1, k) \in Seq(Pieces)
  BY <1>2
<1>4. data' \in [Inodes -> Seq(Pieces)]
  BY <1>1, <1>2, <1>3, WrittenType DEF TypeInv
<1>5. [run[p] EXCEPT !.pc = pc, !.at = @ + k, !.buffer = <<>>,
          !.error = @ \/ k < Len(run[p].buffer)] \in Runs
  <2>1. run[p].at + k \in Nat /\ <<>> \in Seq(Pieces)
    BY <1>2, <1>3
  <2>2. (run[p].error \/ k < Len(run[p].buffer)) \in BOOLEAN
    BY <1>2
  <2> HIDE DEF Pieces
  <2> QED BY <1>2, <2>1, <2>2 DEF Runs
<1> QED BY <1>1, <1>4, <1>5, UpdateLemma

(* What output.s contains is a sequence of pieces.                         *)
LEMMA OutputType ==
    ASSUME TypeInv
    PROVE  Output \in SUBSET Seq(Pieces)
BY DEF TypeInv, Output

(* The types hold at the start, before any invocation.                     *)
LEMMA TypeInit == Init => TypeInv
<1> SUFFICES ASSUME Init PROVE TypeInv
  OBVIOUS
<1>1. run \in [Procs -> Runs]
  <2>1. /\ Initializers \in Seq(Steps) /\ <<>> \in Seq(Pieces)
        /\ Earlier \in Inodes /\ 0 \in 0 .. Size
    BY InitializersServed, SizeAssumption DEF Inodes
  <2> QED BY <2>1 DEF Init, Runs, Phases, Statuses
<1>2. data \in [Inodes -> Seq(Pieces)]
  <2>1. Complete(Earlier) \in Seq(Pieces)
    <3>1. \A i \in 1 .. Size : <<Earlier, i>> \in Pieces
      BY DEF Pieces, Inodes
    <3> QED BY <3>1, SizeAssumption DEF Complete
  <2> QED BY <2>1 DEF Init
<1> QED BY <1>1, <1>2 DEF Init, TypeInv, Inodes

(* An invocation that ends stays well-formed.                              *)
LEMMA EndType ==
    ASSUME TypeInv, NEW p \in Procs, NEW status \in Statuses, End(p, status)
    PROVE  run' \in [Procs -> Runs]
<1>1. run[p] \in Runs
  BY DEF TypeInv
<1>2. [run[p] EXCEPT !.pc = "ended", !.status = status] \in Runs
  BY <1>1 DEF Runs, Phases
<1> QED BY <1>2, UpdateLemma DEF End

(* So does one that goes on to its next phase.                             *)
LEMMA GotoType ==
    ASSUME TypeInv, NEW p \in Procs, NEW pc \in Phases, Goto(p, pc)
    PROVE  run' \in [Procs -> Runs]
<1>1. run[p] \in Runs
  BY DEF TypeInv
<1>2. [run[p] EXCEPT !.pc = pc] \in Runs
  BY <1>1 DEF Runs
<1> QED BY <1>2, UpdateLemma DEF Goto

(* Every action of the driver keeps the types.                             *)
LEMMA TypeStep == TypeInv /\ [Next]_vars => TypeInv'
<1> SUFFICES ASSUME TypeInv, [Next]_vars PROVE TypeInv'
  OBVIOUS
<1>0. \A p \in Procs : run[p] \in Runs
  BY DEF TypeInv
<1>1. CASE UNCHANGED vars
  BY <1>1 DEF vars, TypeInv
<1>2. ASSUME NEW p \in Procs, Begin(p) PROVE TypeInv'
  <2>1. Output \in SUBSET Seq(Pieces)
    BY OutputType
  <2>2. run' \in [Procs -> Runs]
    <3> DEFINE others == {q \in Procs : Running(q)}
    <3>1. \A q \in Procs : run[q] \in Runs
      BY DEF TypeInv
    <3>2. [run[p] EXCEPT !.pc = "start", !.before = Output,
                         !.alone = (others = {})] \in Runs
      BY <3>1, <2>1, ZenonT(60) DEF Runs, Phases
    <3>3. \A q \in Procs :
             [run[q] EXCEPT !.alone = @ /\ q \notin others] \in Runs
      BY <3>1 DEF Runs
    <3>4. run' = [q \in Procs |->
             IF q = p THEN [run[p] EXCEPT !.pc = "start", !.before = Output,
                                          !.alone = (others = {})]
             ELSE [run[q] EXCEPT !.alone = @ /\ q \notin others]]
      BY <1>2 DEF Begin
    <3> HIDE DEF others
    <3> QED BY <3>2, <3>3, <3>4
  <2> QED BY <1>2, <2>2 DEF Begin, TypeInv, Inodes
<1>3. ASSUME NEW p \in Procs, Build(p) PROVE TypeInv'
  <2>1. run[p] \in Runs /\ run[p].todo \in Seq(Steps) /\ run[p].todo # <<>>
    BY <1>3 DEF TypeInv, Runs, Build
  <2>2. Tail(run[p].todo) \in Seq(Steps) /\ Head(run[p].todo) \in Steps
    BY <2>1
  <2>3. Head(run[p].todo).adds \in SUBSET Parts
    BY <2>2 DEF Steps
  <2>4. [run[p] EXCEPT !.todo = Tail(@),
                       !.built = @ \cup Head(run[p].todo).adds] \in Runs
    BY <2>1, <2>2, <2>3 DEF Runs
  <2>5. run' \in [Procs -> Runs]
    BY <1>3, <2>4, UpdateLemma, EndType DEF Build, Statuses
  <2> QED BY <1>3, <2>5 DEF Build, TypeInv
<1>4. ASSUME NEW p \in Procs, ParseIR(p) PROVE TypeInv'
  <2>1. Constructors \in Seq(Steps)
    BY ConstructorsServed
  <2>2. [run[p] EXCEPT !.pc = "construct", !.todo = Constructors] \in Runs
    BY <2>1, <1>0, ZenonT(60) DEF Runs, Phases
  <2>3. run' \in [Procs -> Runs]
    BY <1>4, <2>2, UpdateLemma, EndType DEF ParseIR, Statuses
  <2> QED BY <1>4, <2>3 DEF ParseIR, TypeInv
<1>5. ASSUME NEW p \in Procs, Register(p) PROVE TypeInv'
  <2>1. [run[p] EXCEPT !.pc = "open", !.registered = TRUE] \in Runs
    BY <1>0, ZenonT(60) DEF Runs, Phases
  <2>2. run' \in [Procs -> Runs]
    BY <1>5, <2>1, UpdateLemma DEF Register
  <2> QED BY <1>5, <2>2 DEF Register, TypeInv
<1>6. ASSUME NEW p \in Procs, Open(p) PROVE TypeInv'
  <2>1. /\ name' = {p} \/ name' = name
        /\ name' # {} /\ name' \in SUBSET Inodes
        /\ \E i \in Inodes : name' \subseteq {i}
    BY <1>6 DEF Open, TypeInv, Inodes
  <2>2. PICK i \in Inodes :
           /\ data' = [data EXCEPT ![i] = <<>>]
           /\ Update(p, [run[p] EXCEPT !.pc = "passes", !.inode = i])
    <3>1. (CHOOSE j \in name' : TRUE) \in Inodes
      BY <2>1
    <3> QED BY <1>6, <3>1 DEF Open
  <2>3. <<>> \in Seq(Pieces)
    OBVIOUS
  <2>4. data' \in [Inodes -> Seq(Pieces)]
    BY <2>2, <2>3 DEF TypeInv
  <2>5. [run[p] EXCEPT !.pc = "passes", !.inode = i] \in Runs
    BY <1>0, ZenonT(60) DEF Runs, Phases
  <2>6. run' \in [Procs -> Runs]
    BY <2>2, <2>5, UpdateLemma
  <2> QED BY <1>6, <2>1, <2>4, <2>6 DEF Open, TypeInv
<1>7. ASSUME NEW p \in Procs, OpenFails(p) PROVE TypeInv'
  <2>1. run' \in [Procs -> Runs]
    BY <1>7, EndType DEF OpenFails, Statuses
  <2> QED BY <1>7, <2>1 DEF OpenFails, TypeInv
<1>8. ASSUME NEW p \in Procs, AddPasses(p) PROVE TypeInv'
  <2>1. run' \in [Procs -> Runs]
    BY <1>8, GotoType DEF AddPasses, Phases
  <2> QED BY <1>8, <2>1 DEF AddPasses, TypeInv
<1>9. ASSUME NEW p \in Procs, Emit(p) PROVE TypeInv'
  <2>1. /\ run[p] \in Runs /\ run[p].made \in 0 .. Size
        /\ run[p].made < Size /\ run[p].buffer \in Seq(Pieces)
    BY <1>9 DEF TypeInv, Runs, Emit
  <2>2. run[p].made + 1 \in 1 .. Size
    BY <2>1, SizeAssumption
  <2>3. <<p, run[p].made + 1>> \in Pieces
    BY <2>2 DEF Pieces, Inodes
  <2>4. Append(run[p].buffer, <<p, run[p].made + 1>>) \in Seq(Pieces)
    BY <2>1, <2>3
  <2>5. run[p].made + 1 \in 0 .. Size
    BY <2>2
  <2>6. [run[p] EXCEPT !.made = run[p].made + 1,
            !.buffer = Append(@, <<p, run[p].made + 1>>)] \in Runs
    BY <2>1, <2>4, <2>5 DEF Runs
  <2>7. run' \in [Procs -> Runs]
    BY <1>9, <2>6, UpdateLemma DEF Emit
  <2> QED BY <1>9, <2>7 DEF Emit, TypeInv
<1>10. ASSUME NEW p \in Procs, Spill(p) PROVE TypeInv'
  <2>1. run' \in [Procs -> Runs] /\ data' \in [Inodes -> Seq(Pieces)]
    BY <1>10, FlushType DEF Spill, Phases
  <2> QED BY <1>10, <2>1 DEF Spill, TypeInv
<1>11. ASSUME NEW p \in Procs, Fatal(p) PROVE TypeInv'
  <2>1. run' \in [Procs -> Runs]
    BY <1>11, EndType DEF Fatal, Statuses
  <2> QED BY <1>11, <2>1 DEF Fatal, NameUnlinked, TypeInv
<1>12. ASSUME NEW p \in Procs, Keep(p) PROVE TypeInv'
  <2>1. [run[p] EXCEPT !.pc = "destroy", !.keep = TRUE] \in Runs
    BY <1>0, ZenonT(60) DEF Runs, Phases
  <2>2. run' \in [Procs -> Runs]
    BY <1>12, <2>1, UpdateLemma DEF Keep
  <2> QED BY <1>12, <2>2 DEF Keep, TypeInv
<1>13. ASSUME NEW p \in Procs, DestroyPass(p) PROVE TypeInv'
  <2>1. run' \in [Procs -> Runs] /\ data' \in [Inodes -> Seq(Pieces)]
    BY <1>13, FlushType DEF DestroyPass, Phases
  <2> QED BY <1>13, <2>1 DEF DestroyPass, TypeInv
<1>14. ASSUME NEW p \in Procs, DestroyOut(p) PROVE TypeInv'
  <2>1. (NameUnlinked(p) /\ End(p, "1")) \/ Closed(p)
    BY <1>14 DEF DestroyOut
  <2>2. ASSUME End(p, "1") PROVE run' \in [Procs -> Runs]
    BY <2>2, EndType DEF Statuses
  <2>3. ASSUME Closed(p) PROVE run' \in [Procs -> Runs]
    <3>1. [run[p] EXCEPT !.pc = "exit", !.registered = FALSE] \in Runs
      BY <1>0, ZenonT(60) DEF Runs, Phases
    <3> QED BY <2>3, <3>1, UpdateLemma DEF Closed
  <2>4. run' \in [Procs -> Runs]
    BY <2>1, <2>2, <2>3
  <2>5. name' = name \/ name' = {}
    BY <2>1 DEF Closed, NameUnlinked
  <2> QED BY <1>14, <2>4, <2>5 DEF DestroyOut, TypeInv
<1>15. ASSUME NEW p \in Procs, Signal(p) PROVE TypeInv'
  <2>1. run' \in [Procs -> Runs]
    BY <1>15, EndType DEF Signal, Statuses
  <2> QED BY <1>15, <2>1 DEF Signal, NameUnlinked, TypeInv
<1>16. ASSUME NEW p \in Procs, Kill(p) PROVE TypeInv'
  <2>1. run' \in [Procs -> Runs]
    BY <1>16, EndType DEF Kill, Statuses
  <2> QED BY <1>16, <2>1 DEF Kill, TypeInv
<1>17. ASSUME NEW p \in Procs, Diagnose(p) PROVE TypeInv'
  <2>1. run' \in [Procs -> Runs]
    BY <1>17, EndType DEF Diagnose, Statuses
  <2> QED BY <1>17, <2>1 DEF Diagnose, TypeInv
<1>18. ASSUME NEW p \in Procs, Exit(p) PROVE TypeInv'
  <2>1. \E status \in Statuses : End(p, status)
    BY <1>18 DEF Exit, Statuses
  <2>2. run' \in [Procs -> Runs]
    BY <2>1, EndType
  <2> QED BY <1>18, <2>2 DEF Exit, TypeInv
<1> QED
  BY <1>1, <1>2, <1>3, <1>4, <1>5, <1>6, <1>7, <1>8, <1>9, <1>10, <1>11,
     <1>12, <1>13, <1>14, <1>15, <1>16, <1>17, <1>18 DEF Next
-----------------------------------------------------------------------------
(* What an invocation has constructed, phase by phase, and what it keeps.  *)
PartsOf(p) ==
    /\ run[p].pc = "idle" => run[p].todo = Initializers /\ run[p].built = {}
    /\ run[p].pc = "start" => Served(run[p].todo, run[p].built, Registered)
    /\ run[p].pc = "construct" => Served(run[p].todo, run[p].built, PassParts)
    /\ run[p].pc \in {"open", "passes"} => PassParts \subseteq run[p].built
    /\ run[p].pc \in {"destroy", "close", "exit"} => run[p].keep
    /\ run[p].status # "crash"

(* What it has produced, and how much of that has left the buffer.         *)
Before == {"idle", "start", "construct", "open"}
CountsOf(p) ==
    /\ run[p].pc \in Before =>
          /\ run[p].at = 0 /\ run[p].made = 0 /\ run[p].buffer = <<>>
          /\ ~run[p].error /\ ~run[p].keep
    /\ run[p].at + Len(run[p].buffer) <= run[p].made
    /\ run[p].keep => run[p].made = Size
    /\ run[p].pc \in {"open", "passes", "codegen", "destroy", "close"} =>
          run[p].registered
    /\ run[p].pc \in {"close", "exit"} => run[p].buffer = <<>>

PartsInv == \A p \in Procs : PartsOf(p) /\ CountsOf(p)

(* Nothing is constructed or produced at the start.                        *)
LEMMA PartsInit == Init => PartsInv
<1> SUFFICES ASSUME Init, NEW p \in Procs PROVE PartsOf(p) /\ CountsOf(p)
  BY DEF PartsInv
<1> QED BY SizeAssumption DEF Init, PartsOf, CountsOf, Before

(* An invocation that takes a step other than its first changes no other.  *)
LEMMA PartsOfOthers ==
    ASSUME TypeInv, PartsInv, NEW p \in Procs, NEW r, Update(p, r),
           (PartsOf(p) /\ CountsOf(p))'
    PROVE  PartsInv'
<1> SUFFICES ASSUME NEW q \in Procs, q # p PROVE (PartsOf(q) /\ CountsOf(q))'
  BY DEF PartsInv
<1>1. run'[q] = run[q]
  BY DEF TypeInv, Update
<1> QED BY <1>1 DEF PartsInv, PartsOf, CountsOf

(* An invocation may end at any time, but for a missing part.              *)
LEMMA PartsOfEnd ==
    ASSUME TypeInv, PartsInv, NEW p \in Procs,
           NEW status \in Statuses \ {"crash"}, End(p, status)
    PROVE  PartsInv'
<1>1. run'[p] = [run[p] EXCEPT !.pc = "ended", !.status = status]
      /\ run[p] \in Runs
  BY DEF TypeInv, End, Update
<1>2. (PartsOf(p) /\ CountsOf(p))'
  BY <1>1 DEF PartsInv, PartsOf, CountsOf, Before, Runs
<1> QED BY <1>2, PartsOfOthers DEF End

(* A write moves pieces out of the buffer, or drops them.                  *)
LEMMA PartsOfFlush ==
    ASSUME TypeInv, PartsInv, NEW p \in Procs, NEW pc, Flush(p, pc),
           \/ run[p].pc = "codegen" /\ pc = "codegen"
           \/ run[p].pc = "destroy" /\ pc = "close"
    PROVE  PartsInv'
<1>1. PICK k \in 0 .. Len(run[p].buffer) :
        Update(p, [run[p] EXCEPT !.pc = pc, !.at = @ + k, !.buffer = <<>>,
                      !.error = @ \/ k < Len(run[p].buffer)])
  BY DEF Flush
<1>2. /\ run[p] \in Runs /\ run[p].at \in Nat /\ run[p].buffer \in Seq(Pieces)
      /\ run[p].made \in Nat /\ Len(run[p].buffer) \in Nat
  BY SizeAssumption DEF TypeInv, Runs
<1>3. /\ run'[p].pc = pc /\ run'[p].at = run[p].at + k
      /\ run'[p].buffer = <<>> /\ run'[p].made = run[p].made
      /\ run'[p].keep = run[p].keep /\ run'[p].status = run[p].status
      /\ run'[p].registered = run[p].registered
  BY <1>1, <1>2 DEF TypeInv, Update, Runs
<1>4. run[p].at + k <= run[p].made
  BY <1>2 DEF PartsInv, CountsOf
<1>5. PartsOf(p)'
  BY <1>1, <1>3 DEF PartsInv, PartsOf
<1>6. CountsOf(p)'
  BY <1>1, <1>2, <1>3, <1>4 DEF PartsInv, CountsOf, Before
<1> QED BY <1>1, <1>5, <1>6, PartsOfOthers

(* Every action keeps what is constructed and counted in order.            *)
LEMMA PartsStep == TypeInv /\ PartsInv /\ [Next]_vars => PartsInv'
<1> SUFFICES ASSUME TypeInv, PartsInv, [Next]_vars PROVE PartsInv'
  OBVIOUS
<1>0. \A p \in Procs : run[p] \in Runs /\ PartsOf(p) /\ CountsOf(p)
  BY DEF TypeInv, PartsInv
<1>1. CASE UNCHANGED vars
  BY <1>1 DEF vars, PartsInv, PartsOf, CountsOf
<1>2. ASSUME NEW p \in Procs, Begin(p) PROVE PartsInv'
  <2> SUFFICES ASSUME NEW q \in Procs PROVE (PartsOf(q) /\ CountsOf(q))'
    BY DEF PartsInv
  <2>1. /\ run'[q].todo = run[q].todo /\ run'[q].built = run[q].built
        /\ run'[q].at = run[q].at /\ run'[q].made = run[q].made
        /\ run'[q].buffer = run[q].buffer /\ run'[q].error = run[q].error
        /\ run'[q].keep = run[q].keep /\ run'[q].status = run[q].status
        /\ run'[q].registered = run[q].registered
        /\ run'[q].pc = IF q = p THEN "start" ELSE run[q].pc
    BY <1>0, <1>2 DEF Begin, Runs
  <2>2. CASE q = p
    <3>1. run[p].pc = "idle"
      BY <1>2 DEF Begin
    <3>2. run[p].todo = Initializers /\ run[p].built = {}
      BY <3>1, <1>0 DEF PartsOf
    <3>3. Served(run'[q].todo, run'[q].built, Registered)
      BY <2>1, <2>2, <3>2, InitializersServed
    <3> QED BY <2>1, <2>2, <3>1, <3>3, <1>0 DEF PartsOf, CountsOf, Before
  <2>3. CASE q # p
    BY <2>1, <2>3, <1>0 DEF PartsOf, CountsOf
  <2> QED BY <2>2, <2>3
<1>3. ASSUME NEW p \in Procs, Build(p) PROVE PartsInv'
  <2> DEFINE step == Head(run[p].todo)
  <2>1. /\ run[p].todo \in Seq(Steps) /\ run[p].todo # <<>>
        /\ \/ /\ run[p].pc = "start"
              /\ Served(run[p].todo, run[p].built, Registered)
           \/ /\ run[p].pc = "construct"
              /\ Served(run[p].todo, run[p].built, PassParts)
    BY <1>0, <1>3 DEF Build, Runs, PartsOf
  <2>2. step.needs \subseteq run[p].built
    BY <2>1, ServedTail
  <2>3. /\ run[p].pc = "start" =>
             Served(Tail(run[p].todo), run[p].built \cup step.adds, Registered)
        /\ run[p].pc = "construct" =>
             Served(Tail(run[p].todo), run[p].built \cup step.adds, PassParts)
    BY <2>1, ServedTail
  <2>4. Update(p, [run[p] EXCEPT !.todo = Tail(@), !.built = @ \cup step.adds])
    BY <1>3, <2>2 DEF Build
  <2>5. run'[p] = [run[p] EXCEPT !.todo = Tail(run[p].todo),
                                 !.built = run[p].built \cup step.adds]
    BY <2>4, <1>0 DEF TypeInv, Update
  <2> HIDE DEF step
  <2>6. (PartsOf(p) /\ CountsOf(p))'
    BY <2>1, <2>3, <2>5, <1>0 DEF PartsOf, CountsOf, Runs, Before
  <2> QED BY <2>4, <2>6, PartsOfOthers
<1>4. ASSUME NEW p \in Procs, ParseIR(p) PROVE PartsInv'
  <2>1. CASE End(p, "1")
    BY <2>1, PartsOfEnd DEF Statuses
  <2>2. CASE Update(p, [run[p] EXCEPT !.pc = "construct", !.todo = Constructors])
    <3>1. Registered \subseteq run[p].built
      BY <1>0, <1>4 DEF ParseIR, PartsOf, Served
    <3>2. Served(Constructors, run[p].built, PassParts)
      BY <3>1, ConstructorsServed
    <3>3. run'[p] = [run[p] EXCEPT !.pc = "construct", !.todo = Constructors]
      BY <2>2 DEF TypeInv, Update
    <3>4. (PartsOf(p) /\ CountsOf(p))'
      BY <1>0, <1>4, <3>2, <3>3 DEF ParseIR, PartsOf, CountsOf, Runs, Before
    <3> QED BY <2>2, <3>4, PartsOfOthers
  <2> QED BY <1>4, <2>1, <2>2 DEF ParseIR
<1>5. ASSUME NEW p \in Procs, Register(p) PROVE PartsInv'
  <2>1. PassParts \subseteq run[p].built
    BY <1>0, <1>5 DEF Register, PartsOf, Served
  <2>2. run'[p] = [run[p] EXCEPT !.pc = "open", !.registered = TRUE]
    BY <1>5 DEF Register, TypeInv, Update
  <2>3. (PartsOf(p) /\ CountsOf(p))'
    BY <1>0, <1>5, <2>1, <2>2 DEF Register, PartsOf, CountsOf, Runs, Before
  <2> QED BY <1>5, <2>3, PartsOfOthers DEF Register
<1>6. ASSUME NEW p \in Procs, Open(p) PROVE PartsInv'
  <2>1. PICK i : Update(p, [run[p] EXCEPT !.pc = "passes", !.inode = i])
    BY <1>6 DEF Open
  <2>2. run'[p] = [run[p] EXCEPT !.pc = "passes", !.inode = i]
    BY <2>1 DEF TypeInv, Update
  <2>3. (PartsOf(p) /\ CountsOf(p))'
    BY <1>0, <1>6, <2>2 DEF Open, PartsOf, CountsOf, Runs, Before
  <2> QED BY <2>1, <2>3, PartsOfOthers
<1>7. ASSUME NEW p \in Procs, OpenFails(p) PROVE PartsInv'
  BY <1>7, PartsOfEnd DEF OpenFails, Statuses
<1>8. ASSUME NEW p \in Procs, AddPasses(p) PROVE PartsInv'
  <2>1. Update(p, [run[p] EXCEPT !.pc = "codegen"])
    BY <1>0, <1>8 DEF AddPasses, Goto, PartsOf
  <2>2. run'[p] = [run[p] EXCEPT !.pc = "codegen"]
    BY <2>1 DEF TypeInv, Update
  <2>3. (PartsOf(p) /\ CountsOf(p))'
    BY <1>0, <1>8, <2>2 DEF AddPasses, PartsOf, CountsOf, Runs, Before
  <2> QED BY <2>1, <2>3, PartsOfOthers
<1>9. ASSUME NEW p \in Procs, Emit(p) PROVE PartsInv'
  <2> DEFINE n == run[p].made + 1
  <2>1. /\ Update(p, [run[p] EXCEPT !.made = n, !.buffer = Append(@, <<p, n>>)])
        /\ run[p].pc = "codegen" /\ run[p].made < Size
    BY <1>9 DEF Emit
  <2>2. run'[p] = [run[p] EXCEPT !.made = n,
                                 !.buffer = Append(run[p].buffer, <<p, n>>)]
    BY <2>1 DEF TypeInv, Update
  <2>3. /\ run[p].buffer \in Seq(Pieces) /\ run[p].at \in Nat
        /\ run[p].made \in Nat
    BY <1>0, SizeAssumption DEF Runs
  <2>4. Len(Append(run[p].buffer, <<p, n>>)) = Len(run[p].buffer) + 1
    BY <2>3
  <2>5. PartsOf(p)'
    BY <1>0, <2>1, <2>2 DEF PartsOf, Runs
  <2>6. CountsOf(p)'
    BY <1>0, <2>1, <2>2, <2>3, <2>4, SizeAssumption
       DEF CountsOf, Runs, Before
  <2> QED BY <2>1, <2>5, <2>6, PartsOfOthers
<1>10. ASSUME NEW p \in Procs, Spill(p) PROVE PartsInv'
  BY <1>10, PartsOfFlush DEF Spill
<1>11. ASSUME NEW p \in Procs, Fatal(p) PROVE PartsInv'
  BY <1>11, PartsOfEnd DEF Fatal, Statuses
<1>12. ASSUME NEW p \in Procs, Keep(p) PROVE PartsInv'
  <2>1. run'[p] = [run[p] EXCEPT !.pc = "destroy", !.keep = TRUE]
    BY <1>12 DEF Keep, TypeInv, Update
  <2>2. (PartsOf(p) /\ CountsOf(p))'
    BY <1>0, <1>12, <2>1 DEF Keep, PartsOf, CountsOf, Runs, Before
  <2> QED BY <1>12, <2>2, PartsOfOthers DEF Keep
<1>13. ASSUME NEW p \in Procs, DestroyPass(p) PROVE PartsInv'
  BY <1>13, PartsOfFlush DEF DestroyPass
<1>14. ASSUME NEW p \in Procs, DestroyOut(p) PROVE PartsInv'
  <2>1. CASE End(p, "1")
    BY <2>1, PartsOfEnd DEF Statuses
  <2>2. CASE Closed(p)
    <3>1. run'[p] = [run[p] EXCEPT !.pc = "exit", !.registered = FALSE]
      BY <2>2 DEF Closed, TypeInv, Update
    <3>2. (PartsOf(p) /\ CountsOf(p))'
      BY <1>0, <1>14, <3>1
         DEF DestroyOut, PartsOf, CountsOf, Runs, Before
    <3> QED BY <2>2, <3>2, PartsOfOthers DEF Closed
  <2> QED BY <1>14, <2>1, <2>2 DEF DestroyOut
<1>15. ASSUME NEW p \in Procs, Signal(p) PROVE PartsInv'
  BY <1>15, PartsOfEnd DEF Signal, Statuses
<1>16. ASSUME NEW p \in Procs, Kill(p) PROVE PartsInv'
  BY <1>16, PartsOfEnd DEF Kill, Statuses
<1>17. ASSUME NEW p \in Procs, Diagnose(p) PROVE PartsInv'
  BY <1>17, PartsOfEnd DEF Diagnose, Statuses
<1>18. ASSUME NEW p \in Procs, Exit(p) PROVE PartsInv'
  <2>1. \E status \in {"0", "1"} : End(p, status)
    BY <1>18 DEF Exit
  <2> QED BY <2>1, PartsOfEnd DEF Statuses
<1> QED
  BY <1>1, <1>2, <1>3, <1>4, <1>5, <1>6, <1>7, <1>8, <1>9, <1>10, <1>11,
     <1>12, <1>13, <1>14, <1>15, <1>16, <1>17, <1>18 DEF Next

(* The start-up needs nothing that is not there yet: see StartsUp.         *)
THEOREM DriverStartsUp == Spec => []StartsUp
<1>1. Init => TypeInv /\ PartsInv
  BY TypeInit, PartsInit
<1>2. (TypeInv /\ PartsInv) /\ [Next]_vars => (TypeInv /\ PartsInv)'
  BY TypeStep, PartsStep
<1>3. PartsInv => StartsUp
  BY DEF PartsInv, PartsOf, StartsUp
<1> QED BY <1>1, <1>2, <1>3, PTL DEF Spec

(* The counters and the single name: see DriverTypeOK.                     *)
THEOREM DriverTypeCorrect == Spec => []DriverTypeOK
<1>1. Init => TypeInv /\ PartsInv
  BY TypeInit, PartsInit
<1>2. (TypeInv /\ PartsInv) /\ [Next]_vars => (TypeInv /\ PartsInv)'
  BY TypeStep, PartsStep
<1>3. TypeInv /\ PartsInv => DriverTypeOK
  <2> SUFFICES ASSUME TypeInv, PartsInv PROVE DriverTypeOK
    OBVIOUS
  <2>1. ASSUME NEW i \in Inodes, NEW k \in DOMAIN data[i]
        PROVE  data[i][k] \in (Inodes \X (1 .. Size)) \cup {Hole}
    <3>1. data[i] \in Seq(Pieces)
      BY DEF TypeInv
    <3>2. data[i][k] \in Pieces
      BY <3>1, <2>1
    <3> QED BY <3>2 DEF Pieces
  <2> QED BY <2>1 DEF TypeInv, PartsInv, CountsOf, DriverTypeOK, Runs
<1> QED BY <1>1, <1>2, <1>3, PTL DEF Spec
-----------------------------------------------------------------------------
(* What output.s is to an invocation that overlaps no other.  All that is  *)
(* in file and buffer it has made itself, and unless a write failed, they  *)
(* are all that it has made.                                               *)
Alone(p) == run[p].pc # "idle" /\ run[p].alone /\ latest = p

Own(p) ==
    LET file == data[run[p].inode]
    IN  /\ Len(file) = run[p].at
        /\ OwnPieces(p, file)
        /\ OwnPieces(p, run[p].buffer)

Contents(p) ==
    LET file == data[run[p].inode]
        at == run[p].at
        buffer == run[p].buffer
    IN  /\ at + Len(buffer) = run[p].made
        /\ \A i \in 1 .. at : file[i] = <<p, i>>
        /\ \A i \in 1 .. Len(buffer) : buffer[i] = <<p, at + i>>

Opened == {"passes", "codegen", "destroy", "close", "exit"}
FileOf(p) ==
    /\ run[p].pc \in Before => Output = run[p].before
    /\ run[p].pc \in Opened =>
          name = {run[p].inode} /\ Own(p) /\ (~run[p].error => Contents(p))
    /\ run[p].pc = "exit" => ~run[p].error
    /\ run[p].pc = "ended" =>
          \/ Output = {Complete(p)}
          \/ /\ run[p].status \in {"killed", "diagnosed"}
             /\ \A s \in Output : s \in run[p].before \/ OwnPieces(p, s)
          \/ run[p].status # "0" /\ Output \subseteq run[p].before

FileInv ==
    \A p \in Procs : Alone(p) =>
        FileOf(p) /\ \A q \in Procs : q # p => ~Running(q)

(* No invocation has begun at the start.                                   *)
LEMMA FileInit == Init => FileInv
BY DEF Init, FileInv, Alone

(* Own and Contents are about an invocation's file and its counts alone.   *)
LEMMA FileSame ==
    ASSUME NEW p \in Procs, data' = data,
           run'[p].inode = run[p].inode, run'[p].at = run[p].at,
           run'[p].made = run[p].made, run'[p].buffer = run[p].buffer
    PROVE  (Own(p) => Own(p)') /\ (Contents(p) => Contents(p)')
BY DEF Own, OwnPieces, Contents

(* Only the invocation that takes the step can be the one that is alone.   *)
LEMMA FileOfOthers ==
    ASSUME TypeInv, FileInv, NEW p \in Procs, NEW r \in Runs, Update(p, r),
           Running(p), r.alone = run[p].alone, r.pc # "idle",
           latest' = latest, Alone(p) => FileOf(p)'
    PROVE  FileInv'
<1>1. /\ run'[p] = r
      /\ \A q \in Procs : q # p => run'[q] = run[q]
  BY DEF TypeInv, Update
<1>2. ASSUME NEW q \in Procs, q # p, Alone(q)' PROVE FALSE
  <2>1. Alone(q)
    BY <1>1, <1>2 DEF Alone
  <2> QED BY <2>1, <1>2 DEF FileInv
<1>3. ASSUME Alone(p)'
      PROVE  FileOf(p)' /\ \A q \in Procs : q # p => ~Running(q)'
  <2>1. Alone(p)
    BY <1>1, <1>3 DEF Alone, Running
  <2>2. \A q \in Procs : q # p => ~Running(q)
    BY <2>1 DEF FileInv
  <2> QED BY <2>1, <2>2, <1>1 DEF Running
<1> QED BY <1>2, <1>3 DEF FileInv

(* Once everything is written, output.s is the whole output.               *)
LEMMA FileComplete ==
    ASSUME TypeInv, PartsInv, NEW p \in Procs, FileOf(p),
           run[p].pc \in {"close", "exit"}, ~run[p].error
    PROVE  Output = {Complete(p)}
<1> DEFINE file == data[run[p].inode]
<1>1. name = {run[p].inode} /\ Own(p) /\ Contents(p)
  BY DEF FileOf, Opened
<1>2. /\ run[p].at \in Nat /\ run[p].inode \in Inodes
      /\ file \in Seq(Pieces)
      /\ run[p].buffer = <<>> /\ run[p].made = Size
  BY DEF TypeInv, Runs, PartsInv, PartsOf, CountsOf
<1>3. /\ Len(file) = Size /\ \A i \in 1 .. Size : file[i] = <<p, i>>
  BY <1>1, <1>2, SizeAssumption DEF Own, Contents
<1>4. file = [i \in 1 .. Size |-> <<p, i>>]
  <2>1. file = [i \in 1 .. Len(file) |-> file[i]]
    BY <1>2
  <2> HIDE DEF file
  <2> QED BY <1>3, <2>1
<1>5. Output = {file}
  BY <1>1 DEF Output
<1> QED BY <1>4, <1>5 DEF Complete

(* An invocation ends; what it leaves in output.s is given.                *)
LEMMA FileOfEnd ==
    ASSUME TypeInv, PartsInv, FileInv, NEW p \in Procs, Running(p),
           NEW status \in Statuses, End(p, status), latest' = latest,
           Alone(p) =>
              \/ Output' = {Complete(p)}
              \/ /\ status \in {"killed", "diagnosed"}
                 /\ \A s \in Output' : s \in run[p].before \/ OwnPieces(p, s)
              \/ status # "0" /\ Output' \subseteq run[p].before
    PROVE  FileInv'
<1> DEFINE r == [run[p] EXCEPT !.pc = "ended", !.status = status]
<1>1. r \in Runs /\ Update(p, r) /\ run'[p] = r
      /\ r.alone = run[p].alone /\ r.pc = "ended" /\ r.status = status
      /\ r.before = run[p].before
  <2>1. run[p] \in Runs
    BY DEF TypeInv
  <2>2. r \in Runs
    BY <2>1 DEF Runs, Phases
  <2>3. Update(p, r) /\ run'[p] = r
    BY DEF End, TypeInv, Update
  <2> QED BY <2>1, <2>2, <2>3 DEF Runs
<1>2. Alone(p) => FileOf(p)'
  BY <1>1 DEF FileOf, Before, Opened, OwnPieces
<1> HIDE DEF r
<1> QED BY <1>1, <1>2, FileOfOthers

(* An invocation that fails removes output.s, has not touched it yet, or   *)
(* has completed it.                                                       *)
LEMMA FileOfFailure ==
    ASSUME TypeInv, PartsInv, FileInv, NEW p \in Procs, Running(p),
           NEW status \in Statuses \ {"0"}, End(p, status),
           data' = data, latest' = latest,
           \/ NameUnlinked(p)
           \/ name' = name /\ run[p].pc \in Before \cup {"exit"}
    PROVE  FileInv'
<1>1. ASSUME Alone(p)
      PROVE  Output' = {Complete(p)} \/ Output' \subseteq run[p].before
  <2>0. FileOf(p)
    BY <1>1 DEF FileInv
  <2>1. CASE name' = {}
    BY <2>1 DEF Output
  <2>2. CASE name' # {}
    <3>1. run[p].pc \in Phases
      BY DEF TypeInv, Runs
    <3>2. /\ run[p].pc \in Before \cup {"exit"} /\ name' = name
          /\ Output' = Output
      BY <2>2, <3>1 DEF NameUnlinked, PartsInv, CountsOf, Phases, Before,
                        Running, Output
    <3>3. CASE run[p].pc \in Before
      BY <2>0, <3>2, <3>3 DEF FileOf
    <3>4. CASE run[p].pc = "exit"
      BY <2>0, <3>2, <3>4, FileComplete DEF FileOf
    <3> QED BY <3>2, <3>3, <3>4
  <2> QED BY <2>1, <2>2
<1> QED BY <1>1, FileOfEnd

(* One that is lost leaves output.s as it is, however far it had come.     *)
LEMMA FileOfLoss ==
    ASSUME TypeInv, PartsInv, FileInv, NEW p \in Procs, Running(p),
           NEW status \in {"killed", "diagnosed"}, End(p, status),
           data' = data, name' = name, latest' = latest
    PROVE  FileInv'
<1>1. ASSUME Alone(p)
      PROVE  \A s \in Output' : s \in run[p].before \/ OwnPieces(p, s)
  <2>1. FileOf(p) /\ Output' = Output /\ run[p].pc \in Phases
    BY <1>1 DEF FileInv, Output, TypeInv, Runs
  <2>2. CASE run[p].pc \in Before
    BY <2>1, <2>2 DEF FileOf
  <2>3. CASE run[p].pc \in Opened
    <3>1. name = {run[p].inode} /\ OwnPieces(p, data[run[p].inode])
      BY <2>1, <2>3 DEF FileOf, Own
    <3> QED BY <2>1, <3>1 DEF Output
  <2> QED BY <2>1, <2>2, <2>3 DEF Phases, Before, Opened, Running
<1>2. status \in Statuses
  BY DEF Statuses
<1> QED BY <1>1, <1>2, FileOfEnd

(* A write at the end of a sequence appends to it.                         *)
LEMMA WrittenAppends ==
    ASSUME NEW s \in Seq(Pieces), NEW pieces \in Seq(Pieces)
    PROVE  /\ Len(Written(s, Len(s), pieces)) = Len(s) + Len(pieces)
           /\ \A i \in 1 .. Len(s) : Written(s, Len(s), pieces)[i] = s[i]
           /\ \A i \in 1 .. Len(pieces) :
                 Written(s, Len(s), pieces)[Len(s) + i] = pieces[i]
<1> DEFINE end == Len(s) + Len(pieces)
           W == [i \in 1 .. end |->
                   IF i \in Len(s) + 1 .. end THEN pieces[i - Len(s)]
                   ELSE IF i <= Len(s) THEN s[i] ELSE Hole]
<1>1. end \in Nat /\ end >= Len(s) /\ Len(s) \in Nat /\ Len(pieces) \in Nat
  OBVIOUS
<1>2. (IF end > Len(s) THEN end ELSE Len(s)) = end
  BY <1>1
<1>3. Written(s, Len(s), pieces) = W
  BY <1>2 DEF Written
<1>4. Len(W) = end
  BY <1>1
<1>5. ASSUME NEW i \in 1 .. Len(s) PROVE W[i] = s[i]
  BY <1>1
<1>6. ASSUME NEW i \in 1 .. Len(pieces) PROVE W[Len(s) + i] = pieces[i]
  <2>1. Len(s) + i \in Len(s) + 1 .. end /\ Len(s) + i \in 1 .. end
    BY <1>1
  <2>2. (Len(s) + i) - Len(s) = i
    BY <1>1
  <2> QED BY <2>1, <2>2
<1> HIDE DEF W
<1> QED BY <1>3, <1>4, <1>5, <1>6

(* A write that does not fail leaves file and buffer together the same.    *)
LEMMA FileOfFlush ==
    ASSUME TypeInv, PartsInv, FileInv, NEW p \in Procs, NEW pc \in Opened \ {"exit"},
           run[p].pc \in Opened, Flush(p, pc), UNCHANGED <<name, latest>>
    PROVE  FileInv'
<1>1. PICK k \in 0 .. Len(run[p].buffer) :
        /\ data' = [data EXCEPT ![run[p].inode] =
                       Written(@, run[p].at, SubSeq(run[p].buffer, 1, k))]
        /\ Update(p, [run[p] EXCEPT !.pc = pc, !.at = @ + k, !.buffer = <<>>,
                         !.error = @ \/ k < Len(run[p].buffer)])
  BY DEF Flush
<1> DEFINE r == [run[p] EXCEPT !.pc = pc, !.at = @ + k, !.buffer = <<>>,
                               !.error = @ \/ k < Len(run[p].buffer)]
           s == data[run[p].inode]
           b == run[p].buffer
<1>2. /\ run[p] \in Runs /\ run[p].at \in Nat /\ b \in Seq(Pieces)
      /\ run[p].inode \in Inodes /\ s \in Seq(Pieces) /\ Len(b) \in Nat
  BY DEF TypeInv, Runs
<1>3. run'[p] = r /\ run' \in [Procs -> Runs]
  <2>1. Opened \subseteq Phases
    BY DEF Opened, Phases
  <2> QED BY <1>1, <2>1, FlushType DEF TypeInv, Update
<1>4. /\ r \in Runs /\ r.alone = run[p].alone /\ r.pc = pc
      /\ r.at = run[p].at + k /\ r.made = run[p].made /\ r.buffer = <<>>
      /\ r.inode = run[p].inode
      /\ r.error = (run[p].error \/ k < Len(b))
  BY <1>2, <1>3 DEF Runs
<1> HIDE DEF r
<1>5. ASSUME Alone(p)
      PROVE  /\ Own(p)'
             /\ ~run[p].error /\ k = Len(b) => Contents(p)'
  <2>1. /\ Own(p) /\ (~run[p].error => Contents(p))
        /\ Len(s) = run[p].at /\ OwnPieces(p, s) /\ OwnPieces(p, b)
    BY <1>5 DEF FileInv, FileOf, Own
  <2> DEFINE t == SubSeq(b, 1, k)
             file == data'[run[p].inode]
  <2>2. /\ t \in Seq(Pieces) /\ Len(t) = k
        /\ \A i \in 1 .. k : t[i] = b[i] /\ i \in 1 .. Len(b)
    BY <1>2
  <2>3. file = Written(s, Len(s), t)
    BY <1>1, <1>2, <2>1 DEF TypeInv
  <2> HIDE DEF s, b, t
  <2>4. /\ Len(file) = Len(s) + k
        /\ \A i \in 1 .. Len(s) : file[i] = s[i]
        /\ \A i \in 1 .. k : file[Len(s) + i] = b[i]
    <3>1. /\ Len(Written(s, Len(s), t)) = Len(s) + Len(t)
          /\ \A i \in 1 .. Len(s) : Written(s, Len(s), t)[i] = s[i]
          /\ \A i \in 1 .. Len(t) : Written(s, Len(s), t)[Len(s) + i] = t[i]
      BY <1>2, <2>2, WrittenAppends
    <3> HIDE DEF file
    <3> QED BY <2>2, <2>3, <3>1
  <2>5. file \in Seq(Pieces)
    BY <1>2, <2>2, <2>3, WrittenType
  <2> HIDE DEF file
  <2>6. ASSUME NEW i \in 1 .. Len(file)
        PROVE  \/ i \in 1 .. Len(s) /\ file[i] = s[i]
               \/ /\ i - Len(s) \in 1 .. k
                  /\ file[i] = b[i - Len(s)]
    <3>1. CASE i <= Len(s)
      <4>1. i \in 1 .. Len(s)
        BY <3>1, <1>2, <2>4
      <4> QED BY <4>1, <2>4
    <3>2. CASE i > Len(s)
      <4>1. i - Len(s) \in 1 .. k /\ Len(s) + (i - Len(s)) = i
        BY <3>2, <1>2, <2>4
      <4> QED BY <4>1, <2>4
    <3> QED BY <3>1, <3>2, <1>2, <2>4
  <2>7. OwnPieces(p, file)
    <3> SUFFICES ASSUME NEW i \in DOMAIN file
                 PROVE  file[i] \in {p} \X (1 .. Size)
      BY DEF OwnPieces
    <3>1. i \in 1 .. Len(file)
      BY <2>5
    <3>2. \A j \in 1 .. Len(s) : s[j] \in {p} \X (1 .. Size)
      BY <1>2, <2>1 DEF OwnPieces
    <3>3. \A j \in 1 .. k : b[j] \in {p} \X (1 .. Size)
      BY <1>2, <2>1, <2>2 DEF OwnPieces
    <3> QED BY <3>1, <3>2, <3>3, <2>6
  <2>8. Own(p)'
    <3>1. OwnPieces(p, <<>>)
      BY DEF OwnPieces
    <3>2. Len(file) = run'[p].at /\ data'[run'[p].inode] = file
      BY <1>3, <1>4, <2>1, <2>4 DEF file
    <3>3. run'[p].buffer = <<>>
      BY <1>3, <1>4
    <3> QED BY <2>7, <3>1, <3>2, <3>3 DEF Own, OwnPieces
  <2>9. ASSUME ~run[p].error, k = Len(b) PROVE Contents(p)'
    <3>1. /\ run[p].at + Len(b) = run[p].made
          /\ \A i \in 1 .. run[p].at : s[i] = <<p, i>>
          /\ \A i \in 1 .. Len(b) : b[i] = <<p, run[p].at + i>>
      BY <2>1, <2>9 DEF Contents, s, b
    <3>2. ASSUME NEW i \in 1 .. run[p].at + k PROVE file[i] = <<p, i>>
      <4>1. i \in 1 .. Len(file)
        BY <2>1, <2>4
      <4>2. CASE i \in 1 .. Len(s) /\ file[i] = s[i]
        BY <4>2, <3>1, <2>1
      <4>3. CASE i - Len(s) \in 1 .. k /\ file[i] = b[i - Len(s)]
        <5>1. b[i - Len(s)] = <<p, run[p].at + (i - Len(s))>>
          BY <4>3, <3>1, <2>9
        <5>2. run[p].at + (i - Len(s)) = i
          BY <2>1, <1>2
        <5> QED BY <4>3, <5>1, <5>2
      <4> QED BY <4>1, <4>2, <4>3, <2>6
    <3>3. run[p].at + k = run[p].made
      BY <3>1, <2>9
    <3>4. /\ run'[p].at = run[p].at + k /\ run'[p].made = run[p].made
          /\ run'[p].buffer = <<>> /\ data'[run'[p].inode] = file
      BY <1>3, <1>4 DEF file
    <3> QED BY <1>2, <3>2, <3>3, <3>4 DEF Contents
  <2> QED BY <2>8, <2>9
<1>6. ASSUME Alone(p) PROVE FileOf(p)'
  <2>1. name' = {r.inode}
    BY <1>4, <1>6 DEF FileInv, FileOf
  <2>2. ~r.error => Contents(p)'
    <3> SUFFICES ASSUME ~r.error PROVE Contents(p)'
      OBVIOUS
    <3>1. ~ (run[p].error \/ k < Len(b))
      BY <1>4, Zenon
    <3>2. ~ (k < Len(b)) /\ k \in 0 .. Len(b)
      BY <3>1, <1>1, Zenon
    <3>3. k = Len(b)
      BY <3>2, <1>2
    <3> QED BY <1>5, <1>6, <3>1, <3>3, Zenon
  <2>3. r.pc \notin Before /\ r.pc # "ended" /\ r.pc # "exit"
    BY <1>4 DEF Before, Opened
  <2>4. Own(p)'
    BY <1>5, <1>6
  <2> QED BY <1>3, <2>1, <2>2, <2>3, <2>4 DEF FileOf
<1>7. Running(p) /\ r.pc # "idle"
  BY <1>4 DEF Running, Opened
<1>8. Update(p, r)
  BY <1>1 DEF r
<1> QED BY <1>4, <1>6, <1>7, <1>8, FileOfOthers

(* Every action keeps output.s what FileInv says it is.                    *)
LEMMA FileStep == TypeInv /\ PartsInv /\ FileInv /\ [Next]_vars => FileInv'
<1> SUFFICES ASSUME TypeInv, PartsInv, FileInv, [Next]_vars PROVE FileInv'
  OBVIOUS
<1>0. \A p \in Procs : run[p] \in Runs /\ PartsOf(p) /\ CountsOf(p)
  BY DEF TypeInv, PartsInv
<1>1. CASE UNCHANGED vars
  <2>1. run' = run /\ name' = name /\ data' = data /\ latest' = latest
    BY <1>1 DEF vars
  <2>2. \A p \in Procs : Alone(p) => FileOf(p)'
    BY <2>1, FileSame DEF FileInv, FileOf, Output, OwnPieces
  <2> QED BY <2>1, <2>2 DEF FileInv, Alone, Running
<1>2. ASSUME NEW p \in Procs, Begin(p) PROVE FileInv'
  <2> DEFINE others == {q \in Procs : Running(q)}
  <2>1. /\ run'[p] = [run[p] EXCEPT !.pc = "start", !.before = Output,
                                    !.alone = (others = {})]
        /\ \A q \in Procs : q # p =>
              run'[q] = [run[q] EXCEPT !.alone = @ /\ q \notin others]
        /\ latest' = p /\ Output' = Output
    BY <1>2 DEF Begin, Output
  <2> HIDE DEF others
  <2>2. /\ run'[p].pc = "start" /\ run'[p].before = Output
        /\ \A q \in Procs : q # p => run'[q].pc = run[q].pc
        /\ run'[p].alone => others = {}
    <3> DEFINE alone == (others = {})
    <3>1. alone \in BOOLEAN
      OBVIOUS
    <3>2. run'[p] = [run[p] EXCEPT !.pc = "start", !.before = Output,
                                   !.alone = alone]
      BY <2>1
    <3> HIDE DEF alone
    <3>3. /\ run'[p].pc = "start" /\ run'[p].before = Output
          /\ run'[p].alone = alone
      BY <3>1, <3>2, <1>0 DEF Runs
    <3>4. \A q \in Procs : q # p => run'[q].pc = run[q].pc
      <4> SUFFICES ASSUME NEW q \in Procs, q # p
                   PROVE  run'[q].pc = run[q].pc
        OBVIOUS
      <4> DEFINE still == (run[q].alone /\ q \notin others)
      <4>1. run'[q] = [run[q] EXCEPT !.alone = still]
        BY <2>1
      <4> HIDE DEF still
      <4> QED BY <4>1, <1>0 DEF Runs
    <3> QED BY <3>3, <3>4 DEF alone
  <2>3. \A q \in Procs : q # p => ~Alone(q)'
    BY <2>1 DEF Alone
  <2>4. FileOf(p)'
    BY <2>1, <2>2 DEF FileOf, Before, Opened
  <2>5. ASSUME Alone(p)' PROVE \A q \in Procs : q # p => ~Running(q)'
    <3>1. others = {}
      BY <2>2, <2>5 DEF Alone
    <3>2. \A q \in Procs : ~Running(q)
      BY <3>1 DEF others
    <3> QED BY <2>2, <3>2 DEF Running
  <2> QED BY <2>3, <2>4, <2>5 DEF FileInv
<1>3. ASSUME NEW p \in Procs, Build(p) PROVE FileInv'
  <2>1. run[p].pc \in {"start", "construct"}
        /\ data' = data /\ name' = name /\ latest' = latest
    BY <1>3 DEF Build
  <2>2. CASE End(p, "crash")
    BY <2>1, <2>2, FileOfFailure DEF Running, Before, Statuses
  <2>3. CASE ~End(p, "crash")
    <3> DEFINE r == [run[p] EXCEPT !.todo = Tail(@),
                            !.built = @ \cup Head(run[p].todo).adds]
    <3>1. Update(p, r)
      BY <1>3, <2>3 DEF Build
    <3>2. run[p].todo \in Seq(Steps) /\ run[p].todo # <<>>
      BY <1>0, <1>3 DEF Runs, Build
    <3>3. Tail(run[p].todo) \in Seq(Steps)
          /\ Head(run[p].todo).adds \in SUBSET Parts
      <4>1. Head(run[p].todo) \in Steps
        BY <3>2
      <4> QED BY <3>2, <4>1 DEF Steps
    <3>4. r \in Runs /\ run'[p] = r
      BY <1>0, <3>1, <3>3, ZenonT(60) DEF Runs, Update, TypeInv
    <3>5. r.alone = run[p].alone /\ r.pc = run[p].pc /\ r.before = run[p].before
      BY <1>0, <3>4 DEF Runs
    <3> HIDE DEF r
    <3>6. Alone(p) => FileOf(p)'
      BY <2>1, <3>4, <3>5 DEF FileInv, FileOf, Output, Before, Opened
    <3>7. Running(p) /\ r.pc # "idle"
      BY <2>1, <3>5 DEF Running
    <3> QED BY <2>1, <3>1, <3>4, <3>5, <3>6, <3>7, FileOfOthers
  <2> QED BY <2>2, <2>3
<1>4. ASSUME NEW p \in Procs, ParseIR(p) PROVE FileInv'
  <2>1. run[p].pc = "start"
        /\ data' = data /\ name' = name /\ latest' = latest
    BY <1>4 DEF ParseIR
  <2>2. CASE End(p, "1")
    BY <2>1, <2>2, FileOfFailure DEF Running, Before, Statuses
  <2>3. CASE ~End(p, "1")
    <3> DEFINE r == [run[p] EXCEPT !.pc = "construct", !.todo = Constructors]
    <3>1. Update(p, r)
      BY <1>4, <2>3 DEF ParseIR
    <3>2. r \in Runs /\ run'[p] = r
      BY <1>0, <3>1, ConstructorsServed, ZenonT(60) DEF Runs, Phases, Update, TypeInv
    <3>3. r.alone = run[p].alone /\ r.pc = "construct" /\ r.before = run[p].before
      BY <1>0, <3>2 DEF Runs
    <3> HIDE DEF r
    <3>4. Alone(p) => FileOf(p)'
      BY <2>1, <3>2, <3>3 DEF FileInv, FileOf, Output, Before, Opened
    <3> QED BY <2>1, <3>1, <3>2, <3>3, <3>4, FileOfOthers DEF Running
  <2> QED BY <2>2, <2>3
<1>5. ASSUME NEW p \in Procs, Register(p) PROVE FileInv'
  <2> DEFINE r == [run[p] EXCEPT !.pc = "open", !.registered = TRUE]
  <2>1. run[p].pc = "construct" /\ Update(p, r)
        /\ data' = data /\ name' = name /\ latest' = latest
    BY <1>5 DEF Register
  <2>2. r \in Runs /\ run'[p] = r
    BY <1>0, <2>1, ZenonT(60) DEF Runs, Phases, Update, TypeInv
  <2>3. r.alone = run[p].alone /\ r.pc = "open" /\ r.before = run[p].before
    BY <1>0, <2>2 DEF Runs
  <2> HIDE DEF r
  <2>4. Alone(p) => FileOf(p)'
    BY <2>1, <2>2, <2>3 DEF FileInv, FileOf, Output, Before, Opened
  <2> QED BY <2>1, <2>2, <2>3, <2>4, FileOfOthers DEF Running
<1>6. ASSUME NEW p \in Procs, Open(p) PROVE FileInv'
  <2>1. PICK i \in Inodes :
           /\ name' = {i}
           /\ data' = [data EXCEPT ![i] = <<>>]
           /\ Update(p, [run[p] EXCEPT !.pc = "passes", !.inode = i])
    <3>1. /\ name' # {} /\ name' \in SUBSET Inodes
          /\ \E i \in Inodes : name' \subseteq {i}
      BY <1>6 DEF Open, TypeInv, Inodes
    <3>2. PICK i \in Inodes : name' = {i}
      BY <3>1
    <3>3. (CHOOSE j \in name' : TRUE) = i
      BY <3>2
    <3> QED BY <1>6, <3>2, <3>3 DEF Open
  <2> DEFINE r == [run[p] EXCEPT !.pc = "passes", !.inode = i]
  <2>2. r \in Runs /\ run'[p] = r
    BY <1>0, <2>1, ZenonT(60) DEF Runs, Phases, Update, TypeInv
  <2>3. /\ r.alone = run[p].alone /\ r.pc = "passes" /\ r.inode = i
        /\ r.at = run[p].at /\ r.made = run[p].made /\ r.buffer = run[p].buffer
    BY <1>0, <2>2 DEF Runs
  <2>4. Update(p, r)
    BY <2>1
  <2> HIDE DEF r
  <2>5. run[p].pc = "open" /\ latest' = latest
    BY <1>6 DEF Open
  <2>6. run[p].at = 0 /\ run[p].made = 0 /\ run[p].buffer = <<>>
    BY <1>0, <2>5 DEF CountsOf, Before
  <2>7. data'[i] = <<>>
    BY <2>1 DEF TypeInv
  <2>8. Own(p)' /\ Contents(p)'
    BY <2>2, <2>3, <2>6, <2>7 DEF Own, Contents, OwnPieces
  <2>9. FileOf(p)'
    BY <2>1, <2>2, <2>3, <2>8 DEF FileOf, Before, Opened
  <2> QED BY <2>2, <2>3, <2>4, <2>5, <2>9, FileOfOthers DEF Running
<1>7. ASSUME NEW p \in Procs, OpenFails(p) PROVE FileInv'
  BY <1>7, FileOfFailure DEF OpenFails, Running, Before, Statuses
<1>8. ASSUME NEW p \in Procs, AddPasses(p) PROVE FileInv'
  <2> DEFINE r == [run[p] EXCEPT !.pc = "codegen"]
  <2>1. run[p].pc = "passes" /\ Update(p, r)
        /\ data' = data /\ name' = name /\ latest' = latest
    BY <1>0, <1>8 DEF AddPasses, Goto, PartsOf
  <2>2. r \in Runs /\ run'[p] = r
    BY <1>0, <2>1, ZenonT(60) DEF Runs, Phases, Update, TypeInv
  <2>3. /\ r.alone = run[p].alone /\ r.pc = "codegen"
        /\ r.inode = run[p].inode /\ r.at = run[p].at /\ r.made = run[p].made
        /\ r.buffer = run[p].buffer /\ r.error = run[p].error
    BY <1>0, <2>2 DEF Runs
  <2> HIDE DEF r
  <2>4. Alone(p) => FileOf(p)'
    BY <2>1, <2>2, <2>3, FileSame DEF FileInv, FileOf, Before, Opened
  <2> QED BY <2>1, <2>2, <2>3, <2>4, FileOfOthers DEF Running
<1>9. ASSUME NEW p \in Procs, Emit(p) PROVE FileInv'
  <2> DEFINE n == run[p].made + 1
             b == Append(run[p].buffer, <<p, n>>)
             r == [run[p] EXCEPT !.made = n, !.buffer = b]
  <2>1. /\ run[p].pc = "codegen" /\ Update(p, r) /\ run[p].made < Size
        /\ data' = data /\ name' = name /\ latest' = latest
    BY <1>9 DEF Emit
  <2>2. /\ run[p].buffer \in Seq(Pieces) /\ run[p].made \in 0 .. Size
        /\ run[p].at \in Nat
    BY <1>0 DEF Runs
  <2>3. n \in 1 .. Size
    BY <2>1, <2>2, SizeAssumption
  <2>4. <<p, n>> \in Pieces
    BY <2>3 DEF Pieces, Inodes
  <2>5. /\ b \in Seq(Pieces) /\ Len(b) = Len(run[p].buffer) + 1
        /\ \A i \in 1 .. Len(run[p].buffer) : b[i] = run[p].buffer[i]
        /\ b[Len(b)] = <<p, n>>
    BY <2>2, <2>4
  <2>6. n \in 0 .. Size
    BY <2>3
  <2> HIDE DEF b, n
  <2>7. r \in Runs /\ run'[p] = r
    BY <1>0, <2>1, <2>5, <2>6, ZenonT(60) DEF Runs, Update, TypeInv
  <2>8. /\ r.alone = run[p].alone /\ r.pc = "codegen"
        /\ r.inode = run[p].inode /\ r.at = run[p].at /\ r.made = n
        /\ r.buffer = b /\ r.error = run[p].error
    BY <1>0, <2>1, <2>7 DEF Runs
  <2> HIDE DEF r
  <2>9. ASSUME Contents(p) PROVE Contents(p)'
    <3>1. /\ run[p].at + Len(run[p].buffer) = run[p].made
          /\ \A i \in 1 .. Len(run[p].buffer) :
                run[p].buffer[i] = <<p, run[p].at + i>>
      BY <2>9 DEF Contents
    <3>2. run[p].at + Len(b) = n
      <4>1. Len(run[p].buffer) \in Nat /\ run[p].made \in Nat
        BY <2>2, SizeAssumption
      <4> QED BY <2>2, <2>5, <3>1, <4>1, SMTT(30) DEF n
    <3>3. ASSUME NEW i \in 1 .. Len(b) PROVE b[i] = <<p, run[p].at + i>>
      <4>1. CASE i = Len(b)
        BY <4>1, <2>5, <3>2
      <4>2. CASE i # Len(b)
        <5>1. i \in 1 .. Len(run[p].buffer)
          BY <4>2, <2>2, <2>5
        <5> QED BY <5>1, <2>5, <3>1
      <4> QED BY <4>1, <4>2
    <3> QED BY <2>1, <2>7, <2>8, <2>9, <3>2, <3>3 DEF Contents
  <2>10. ASSUME Own(p) PROVE Own(p)'
    <3>1. ASSUME NEW i \in DOMAIN b PROVE b[i] \in {p} \X (1 .. Size)
      <4>1. i \in 1 .. Len(b)
        BY <2>5
      <4>2. CASE i = Len(b)
        BY <4>2, <2>3, <2>5
      <4>3. CASE i # Len(b)
        <5>1. i \in 1 .. Len(run[p].buffer)
          BY <4>1, <4>3, <2>2, <2>5
        <5>2. run[p].buffer[i] \in {p} \X (1 .. Size)
          BY <5>1, <2>2, <2>10 DEF Own, OwnPieces
        <5> QED BY <5>1, <5>2, <2>5
      <4> QED BY <4>2, <4>3
    <3> QED BY <3>1, <2>1, <2>7, <2>8, <2>10 DEF Own, OwnPieces
  <2>11. Alone(p) => FileOf(p)'
    BY <2>1, <2>7, <2>8, <2>9, <2>10 DEF FileInv, FileOf, Before, Opened
  <2> QED BY <2>1, <2>7, <2>8, <2>11, FileOfOthers DEF Running
<1>10. ASSUME NEW p \in Procs, Spill(p) PROVE FileInv'
  BY <1>10, FileOfFlush DEF Spill, Opened
<1>11. ASSUME NEW p \in Procs, Fatal(p) PROVE FileInv'
  BY <1>11, FileOfFailure DEF Fatal, Running, Statuses
<1>12. ASSUME NEW p \in Procs, Keep(p) PROVE FileInv'
  <2> DEFINE r == [run[p] EXCEPT !.pc = "destroy", !.keep = TRUE]
  <2>1. run[p].pc = "codegen" /\ Update(p, r)
        /\ data' = data /\ name' = name /\ latest' = latest
    BY <1>12 DEF Keep
  <2>2. r \in Runs /\ run'[p] = r
    BY <1>0, <2>1, ZenonT(60) DEF Runs, Phases, Update, TypeInv
  <2>3. /\ r.alone = run[p].alone /\ r.pc = "destroy"
        /\ r.inode = run[p].inode /\ r.at = run[p].at /\ r.made = run[p].made
        /\ r.buffer = run[p].buffer /\ r.error = run[p].error
    BY <1>0, <2>2 DEF Runs
  <2> HIDE DEF r
  <2>4. Alone(p) => FileOf(p)'
    BY <2>1, <2>2, <2>3, FileSame DEF FileInv, FileOf, Before, Opened
  <2> QED BY <2>1, <2>2, <2>3, <2>4, FileOfOthers DEF Running
<1>13. ASSUME NEW p \in Procs, DestroyPass(p) PROVE FileInv'
  BY <1>13, FileOfFlush DEF DestroyPass, Opened
<1>14. ASSUME NEW p \in Procs, DestroyOut(p) PROVE FileInv'
  <2>1. /\ run[p].pc = "close" /\ run[p].keep
        /\ data' = data /\ latest' = latest
    BY <1>0, <1>14 DEF DestroyOut, PartsOf
  <2>2. CASE NameUnlinked(p) /\ End(p, "1")
    BY <2>1, <2>2, FileOfFailure DEF Running, Statuses
  <2>3. CASE ~run[p].error /\ Closed(p)
    <3> DEFINE r == [run[p] EXCEPT !.pc = "exit", !.registered = FALSE]
    <3>1. Update(p, r) /\ name' = name
      BY <2>1, <2>3 DEF Closed
    <3>2. r \in Runs /\ run'[p] = r
      BY <1>0, <3>1, ZenonT(60) DEF Runs, Phases, Update, TypeInv
    <3>3. /\ r.alone = run[p].alone /\ r.pc = "exit"
          /\ r.inode = run[p].inode /\ r.at = run[p].at
          /\ r.made = run[p].made /\ r.buffer = run[p].buffer
          /\ r.error = run[p].error
      BY <1>0, <3>2 DEF Runs
    <3> HIDE DEF r
    <3>4. Alone(p) => FileOf(p)'
      BY <2>1, <2>3, <3>1, <3>2, <3>3, FileSame
         DEF FileInv, FileOf, Before, Opened
    <3> QED BY <2>1, <3>1, <3>2, <3>3, <3>4, FileOfOthers DEF Running
  <2> QED BY <1>14, <2>1, <2>2, <2>3 DEF DestroyOut
<1>15. ASSUME NEW p \in Procs, Signal(p) PROVE FileInv'
  BY <1>15, FileOfFailure DEF Signal, Statuses
<1>16. ASSUME NEW p \in Procs, Kill(p) PROVE FileInv'
  BY <1>16, FileOfLoss DEF Kill
<1>17. ASSUME NEW p \in Procs, Diagnose(p) PROVE FileInv'
  BY <1>17, FileOfLoss DEF Diagnose, Running
<1>18. ASSUME NEW p \in Procs, Exit(p) PROVE FileInv'
  <2>1. /\ run[p].pc = "exit" /\ Running(p)
        /\ data' = data /\ name' = name /\ latest' = latest
    BY <1>18 DEF Exit, Running
  <2>2. PICK status \in Statuses : End(p, status)
    BY <1>18 DEF Exit, Statuses
  <2>3. ASSUME Alone(p) PROVE Output' = {Complete(p)}
    <3>1. FileOf(p) /\ ~run[p].error
      BY <2>1, <2>3 DEF FileInv, FileOf
    <3>2. Output = {Complete(p)}
      BY <2>1, <3>1, FileComplete
    <3> QED BY <2>1, <3>2 DEF Output
  <2> QED BY <2>1, <2>2, <2>3, FileOfEnd
<1> QED
  BY <1>1, <1>2, <1>3, <1>4, <1>5, <1>6, <1>7, <1>8, <1>9, <1>10, <1>11,
     <1>12, <1>13, <1>14, <1>15, <1>16, <1>17, <1>18 DEF Next

(* The inductive invariant of the driver.                                  *)
DriverInv == TypeInv /\ PartsInv /\ FileInv

(* DriverInv holds throughout.                                             *)
LEMMA DriverInvariant == Spec => []DriverInv
<1>1. Init => DriverInv
  BY TypeInit, PartsInit, FileInit DEF DriverInv
<1>2. DriverInv /\ [Next]_vars => DriverInv'
  BY TypeStep, PartsStep, FileStep DEF DriverInv
<1> QED BY <1>1, <1>2, PTL DEF Spec

(* Exit status 0 means a whole output, for every number of invocations,    *)
(* every length and every write that failed: see SuccessMeansOutput.       *)
THEOREM DriverSucceeds == Spec => []SuccessMeansOutput
<1>1. DriverInv => SuccessMeansOutput
  BY DEF DriverInv, FileInv, FileOf, SuccessMeansOutput, Undisturbed, Alone,
         Ended
<1> QED BY <1>1, DriverInvariant, PTL

(* Fatal errors, failing writes and signals leave all of an output or      *)
(* nothing of it: see AllOrNothing.                                        *)
THEOREM DriverCleansUp == Spec => []AllOrNothing
<1>1. DriverInv => AllOrNothing
  BY DEF DriverInv, FileInv, FileOf, AllOrNothing, LeavesNoPart, Undisturbed,
         Alone, Ended
<1> QED BY <1>1, DriverInvariant, PTL

(* Nothing of an older output survives in output.s: see NeverMixed.        *)
THEOREM DriverNeverMixes == Spec => []NeverMixed
<1>1. ASSUME NEW p \in Procs PROVE OwnPieces(p, Complete(p))
  BY SizeAssumption DEF OwnPieces, Complete
<1>2. DriverInv => NeverMixed
  BY <1>1 DEF DriverInv, FileInv, FileOf, NeverMixed, Undisturbed, Alone,
              Ended
<1> QED BY <1>2, DriverInvariant, PTL
=============================================================================
