----------------------------- MODULE RV32IFrame -----------------------------
(***************************************************************************)
(* The stack frame of one function while it is being compiled: the state   *)
(* of its MachineFrameInfo from the creation of the first stack object to  *)
(* the moment the frame has a size, and what RV32IFrameLowering and        *)
(* RV32IRegisterInfo read from it afterwards.                              *)
(*                                                                         *)
(*   "entry"  static allocas become stack objects; LowerFormalArguments    *)
(*            then creates the fixed objects of the stack arguments;       *)
(*   "isel"   spills create stack objects; call sequences report sizes;    *)
(*   "place"  the slots of the callee-saved registers exist and every      *)
(*            object receives its offset from the incoming stack pointer;  *)
(*   "sized"  the frame size is known and frame indices can be resolved.   *)
(*                                                                         *)
(* The offsets are assigned by LLVM's PrologEpilogInserter, which is not   *)
(* part of the repository: PlaceObject and SetStackSize model it with the  *)
(* parameters RV32IFrameLowering passes to it.                             *)
(***************************************************************************)
EXTENDS RV32ICallingConv, Sequences

CONSTANTS
    NewObjects,   \* the lists of stack objects one step may create
    ArgCounts,    \* the numbers of arguments a function or a call may have
    CSCounts,     \* the numbers of callee-saved registers a function may use
    MaxObjects    \* bound on the number of allocas and spill slots

Aligns == {1, 2, 4, 8, 16, 32}
Object == [size : Nat \ {0}, align : Aligns]

ASSUME NewObjectsAssumption == NewObjects \subseteq Seq(Object)
ASSUME ArgCountsAssumption == ArgCounts \subseteq Nat
ASSUME CSCountsAssumption == CSCounts \subseteq Nat
ASSUME MaxObjectsAssumption == MaxObjects \in Nat

VARIABLES
    stage,         \* how far the frame is, see above
    fixed,         \* the number of fixed objects (stack arguments)
    objs,          \* the stack objects, in the order of their indices
    minCS,         \* index of the first callee-saved slot, 0 before it exists
    varSized,      \* MFI.hasVarSizedObjects()
    adjustsStack,  \* MFI.adjustsStack(): some call sequence exists
    maxCallFrame,  \* MFI.getMaxCallFrameSize()
    off,           \* objectOffset of the objects placed so far
    offset,        \* bytes below the incoming SP handed out so far
    stackSize      \* MFI.getStackSize(), 0 before the frame is sized

frameVars == <<stage, fixed, objs, minCS, varSized, adjustsStack,
               maxCallFrame, off, offset, stackSize>>
-----------------------------------------------------------------------------
(* What the target tells the generic passes.                               *)

StackAlign == 16           \* StackAlignment of the constructor
TransientStackAlign == 1   \* the constructor leaves TransAl at its default

hasFPImpl == FALSE
hasReservedCallFrame == ~hasFPImpl
BaseReg == IF hasFPImpl THEN X8 ELSE X2

alignTo_never(x, a) == x    \* mutant
alignTo(x, a) == ((x + a - 1) \div a) * a

(* CreateFixedObject(4, VA.getLocMemOffset()): the k-th stack argument has *)
(* frame index -k and lies above the incoming stack pointer.               *)
FixedOffset_shared(k) == 0    \* mutant: VA.getLocMemOffset() forgotten
FixedOffset(k) == CC_RV32I(NumArgRegs + k).loc

ObjectOffset(fi) == IF fi < 0 THEN FixedOffset(-fi) ELSE off[fi]
FrameIndices == {-k : k \in 1 .. fixed} \cup DOMAIN objs
SizeOf(fi) == IF fi < 0 THEN 4 ELSE objs[fi].size

(* The immediate eliminateFrameIndex writes next to BaseReg.               *)
eliminateFrameIndex_noSize(fi, imm) == ObjectOffset(fi) + imm    \* mutant
eliminateFrameIndex(fi, imm) == ObjectOffset(fi) + stackSize + imm

(* The immediates of the two SP adjustments; 0 stands for none.            *)
PrologueImm == IF stackSize = 0 /\ ~adjustsStack THEN 0 ELSE -stackSize
EpilogueImm == stackSize
-----------------------------------------------------------------------------
FrameInit ==
    /\ stage = "entry" /\ fixed = 0 /\ objs = <<>> /\ minCS = 0
    /\ varSized = FALSE /\ adjustsStack = FALSE /\ maxCallFrame = 0
    /\ off = <<>> /\ offset = 0 /\ stackSize = 0

(* LowerFormalArguments: one fixed object per argument assigned to memory. *)
CreateFixedObjects(n) ==
    /\ stage = "entry"
    /\ stage' = "isel"
    /\ fixed' = StackBytes(n) \div 4
    /\ UNCHANGED <<objs, minCS, varSized, adjustsStack, maxCallFrame,
                   off, offset, stackSize>>

(* Static allocas before selection, spill slots during allocation.         *)
CreateStackObjects(new) ==
    /\ stage \in {"entry", "isel"}
    /\ Len(objs) + Len(new) <= MaxObjects
    /\ objs' = objs \o new
    /\ UNCHANGED <<stage, fixed, minCS, varSized, adjustsStack, maxCallFrame,
                   off, offset, stackSize>>

(* An alloca whose size is not a constant; its expansion brackets the      *)
(* change of SP with a call sequence of 0 bytes.                           *)
CreateVariableSizedObject ==
    /\ stage = "isel"
    /\ varSized' = TRUE
    /\ adjustsStack' = TRUE
    /\ UNCHANGED <<stage, fixed, objs, minCS, maxCallFrame, off, offset,
                   stackSize>>

(* LowerCall's CALLSEQ_START / CALLSEQ_END around a call of n arguments.   *)
NoteCallFrame(n) ==
    /\ stage = "isel"
    /\ adjustsStack' = TRUE
    /\ maxCallFrame' = IF StackBytes(n) > maxCallFrame THEN StackBytes(n)
                                                       ELSE maxCallFrame
    /\ UNCHANGED <<stage, fixed, objs, minCS, varSized, off, offset, stackSize>>

(* One 4-byte slot per callee-saved register the function writes.          *)
AssignCalleeSavedSpillSlots(k) ==
    /\ stage = "isel"
    /\ stage' = "place"
    /\ minCS' = Len(objs) + 1
    /\ objs' = objs \o [i \in 1 .. k |-> [size |-> 4, align |-> 4]]
    /\ UNCHANGED <<fixed, varSized, adjustsStack, maxCallFrame, off, offset,
                   stackSize>>

(* Callee-saved slots are placed first, then the others, by index.         *)
IsCS(i) == i >= minCS
Unplaced == DOMAIN objs \ DOMAIN off
Before(i, j) == IF IsCS(i) = IsCS(j) THEN i < j ELSE IsCS(i)
IsNext(i) == \A j \in Unplaced \ {i} : Before(i, j)

(* AdjustStackOffset: the object gets the next bytes below, aligned.       *)
PlaceObject(i) ==
    LET o == alignTo(offset + objs[i].size, objs[i].align)
    IN  /\ stage = "place"
        /\ IsNext(i)
        /\ offset' = o
        /\ off' = [j \in DOMAIN off \cup {i} |-> IF j = i THEN -o ELSE off[j]]
        /\ UNCHANGED <<stage, fixed, objs, minCS, varSized, adjustsStack,
                       maxCallFrame, stackSize>>

(* The frame is a multiple of every object's alignment; only a function    *)
(* with calls or variable-sized objects is also rounded to StackAlign.     *)
Fits_leaf(a) ==    \* mutant: every function is treated as a leaf
    a >= TransientStackAlign /\ \A i \in DOMAIN objs : a >= objs[i].align
Fits(a) ==
    /\ a >= IF adjustsStack \/ varSized THEN StackAlign
                                        ELSE TransientStackAlign
    /\ \A i \in DOMAIN objs : a >= objs[i].align
FrameAlign == CHOOSE a \in Aligns : Fits(a) /\ \A b \in Aligns : Fits(b) => a <= b

(* PrologEpilogInserter reserves the outgoing arguments inside the frame.  *)
ReservedBytes_none == 0    \* mutant: no room for outgoing arguments
ReservedBytes ==
    IF adjustsStack /\ hasReservedCallFrame THEN maxCallFrame ELSE 0

SetStackSize ==
    /\ stage = "place"
    /\ Unplaced = {}
    /\ stage' = "sized"
    /\ stackSize' = alignTo(offset + ReservedBytes, FrameAlign)
    /\ UNCHANGED <<fixed, objs, minCS, varSized, adjustsStack, maxCallFrame,
                   off, offset>>

(* The next function starts with a MachineFrameInfo of its own.            *)
NextFunction ==
    /\ stage = "sized"
    /\ stage' = "entry" /\ fixed' = 0 /\ objs' = <<>> /\ minCS' = 0
    /\ varSized' = FALSE /\ adjustsStack' = FALSE /\ maxCallFrame' = 0
    /\ off' = <<>> /\ offset' = 0 /\ stackSize' = 0

FrameNext ==
    \/ \E n \in ArgCounts : CreateFixedObjects(n) \/ NoteCallFrame(n)
    \/ \E new \in NewObjects : CreateStackObjects(new)
    \/ CreateVariableSizedObject
    \/ \E k \in CSCounts : AssignCalleeSavedSpillSlots(k)
    \/ \E i \in Unplaced : PlaceObject(i)
    \/ SetStackSize
    \/ NextFunction

FrameSpec == FrameInit /\ [][FrameNext]_frameVars
-----------------------------------------------------------------------------
(* The state has the shape the code gives it: at every stage the objects   *)
(* are well formed, only existing objects have an offset, and sizes are    *)
(* natural numbers.                                                        *)
FrameTypeOK ==
    /\ stage \in {"entry", "isel", "place", "sized"}
    /\ fixed \in Nat
    /\ objs \in Seq(Object)
    /\ minCS \in Nat
    /\ varSized \in BOOLEAN /\ adjustsStack \in BOOLEAN
    /\ maxCallFrame \in Nat
    /\ DOMAIN off \subseteq DOMAIN objs
    /\ off \in [DOMAIN off -> Int]
    /\ offset \in Nat /\ stackSize \in Nat

Resolved(fi) == eliminateFrameIndex(fi, 0)

(* Once frame indices can be resolved, no stack object reaches down into   *)
(* the bytes where LowerCall stores outgoing stack arguments (SP + 0 up),  *)
(* none reaches up into the caller's frame, and an incoming stack argument *)
(* lies outside this function's frame: eliminateFrameIndex never makes two *)
(* parts of the frame meet.                                                *)
AreasApart ==
    stage = "sized" =>
      /\ \A i \in DOMAIN objs :
           /\ Resolved(i) >= ReservedBytes
           /\ Resolved(i) + objs[i].size <= stackSize
      /\ \A k \in 1 .. fixed : Resolved(-k) >= stackSize

(* Two different frame indices are resolved to disjoint byte ranges: a     *)
(* spill never overwrites a saved register, a local or an argument.        *)
ObjectsDisjoint ==
    stage = "sized" =>
      \A i, j \in FrameIndices :
        i # j => \/ Resolved(i) + SizeOf(i) <= Resolved(j)
                 \/ Resolved(j) + SizeOf(j) <= Resolved(i)

(* The stack pointer a function is entered with is a multiple of 16, so an *)
(* object is aligned in memory when its offset from it is; objects aligned *)
(* to more than 16 are excepted (emitPrologue realigns nothing).           *)
ObjectsAligned ==
    stage = "sized" =>
      \A i \in DOMAIN objs :
        objs[i].align <= StackAlign =>
          (Resolved(i) - stackSize) % objs[i].align = 0

(* A function that calls hands its callees a stack pointer that is aligned *)
(* whenever its own was (what ObjectsAligned of the callee relies on).     *)
CallsAligned ==
    stage = "sized" /\ adjustsStack => PrologueImm % StackAlign = 0

(* RV32IFrameLowering.cpp:40-41, "we limit to ADDI-range for now": the     *)
(* immediates of both stack pointer adjustments and of every resolved      *)
(* frame index fit the 12-bit field of ADDI, LW and SW.                    *)
isInt12(x) == -2048 <= x /\ x <= 2047
ImmediatesFit ==
    stage = "sized" =>
      /\ isInt12(PrologueImm) /\ isInt12(EpilogueImm)
      /\ \A fi \in FrameIndices : isInt12(Resolved(fi))
=============================================================================
