------------------------- MODULE RV32ICodegen_proofs -------------------------
(***************************************************************************)
(* Whatever programs are compiled, in whatever order the allocator tries   *)
(* registers:                                                              *)
(*   - the code generator uses the frame as RV32IFrame allows, so that     *)
(*     what is proved of frames holds of every function it compiles;       *)
(*   - the code it prints balances the stack pointer, saves and restores   *)
(*     the callee-saved registers it changes, and refers to no object that *)
(*     is not its own.                                                     *)
(*                                                                         *)
(* The second part rests on the inductive invariant CodegenInv, which says *)
(* pass by pass what the instructions look like: SelectedInv up to the     *)
(* moment the callee-saved registers are known, then FramedInv, in which   *)
(* Framed(c, resolved, pre, post) describes code c with the prologue       *)
(* (pre), the epilogues (post) and the frame indices (resolved) inserted   *)
(* or not.  Sequences put together by FlattenSeq are reasoned about with   *)
(* the places of their parts (SequenceLemmas).                             *)
(***************************************************************************)
EXTENDS RV32ICodegen, SequenceLemmas, TLAPS

(* First the frame alone, under FrameSpec.                                 *)

(* Placed objects lie below the incoming stack pointer, above -offset.     *)
PlacedInside ==
    \A i \in DOMAIN off : /\ -offset <= off[i]
                          /\ off[i] + objs[i].size <= 0
                          /\ off[i] % objs[i].align = 0

PlacedDisjoint ==
    \A i, j \in DOMAIN off :
      i # j => \/ off[i] + objs[i].size <= off[j]
               \/ off[j] + objs[j].size <= off[i]

(* Objects and call sequences may only be added before the placement.      *)
NothingPlacedYet == stage \in {"entry", "isel"} => DOMAIN off = {}

SizedFrame ==
    stage = "sized" => /\ DOMAIN off = DOMAIN objs
                       /\ stackSize >= offset + ReservedBytes
                       /\ adjustsStack => stackSize % StackAlign = 0

FrameInv ==
    /\ FrameTypeOK
    /\ PlacedInside
    /\ PlacedDisjoint
    /\ NothingPlacedYet
    /\ SizedFrame

-----------------------------------------------------------------------------
(* Arithmetic of the layout.                                               *)

(* alignTo rounds up to a multiple, for each alignment the code uses.      *)
LEMMA AlignToLemma ==
    ASSUME NEW x \in Nat, NEW a \in Aligns
    PROVE  /\ alignTo(x, a) \in Nat
           /\ alignTo(x, a) >= x
           /\ alignTo(x, a) % a = 0
           /\ (-alignTo(x, a)) % a = 0
           /\ (a = 16 \/ a = 32) => alignTo(x, a) % 16 = 0
<1>1. CASE a = 1
  BY <1>1 DEF alignTo
<1>2. CASE a = 2
  BY <1>2 DEF alignTo
<1>3. CASE a = 4
  BY <1>3 DEF alignTo
<1>4. CASE a = 8
  BY <1>4 DEF alignTo
<1>5. CASE a = 16
  BY <1>5 DEF alignTo
<1>6. CASE a = 32
  BY <1>6 DEF alignTo
<1> QED BY <1>1, <1>2, <1>3, <1>4, <1>5, <1>6 DEF Aligns

(* Stack arguments occupy a natural number of bytes, words from 0 upwards. *)
LEMMA StackBytesLemma ==
    ASSUME NEW n \in Nat
    PROVE  /\ StackBytes(n) \in Nat
           /\ StackBytes(n) \div 4 \in Nat
BY DEF StackBytes, NumArgRegs

(* The k-th stack argument lies k - 1 words above the incoming SP.         *)
LEMMA FixedOffsetLemma ==
    ASSUME NEW k \in Nat \ {0}
    PROVE  FixedOffset(k) = 4 * (k - 1)
BY DEF FixedOffset, CC_RV32I, MemLoc, NumArgRegs

(* What the type invariant says of one object.                             *)
LEMMA ObjectLemma ==
    ASSUME FrameTypeOK, NEW i \in DOMAIN objs
    PROVE  /\ objs[i].size \in Nat /\ objs[i].size > 0
           /\ objs[i].align \in Aligns
<1>1. objs \in Seq(Object)
  BY DEF FrameTypeOK
<1>2. objs[i] \in Object
  BY <1>1
<1> QED BY <1>2 DEF Object

(* The rounding of the frame exists: 32 is as large as any alignment.      *)
LEMMA FrameAlignLemma ==
    ASSUME FrameTypeOK
    PROVE  /\ FrameAlign \in Aligns
           /\ Fits(FrameAlign)
<1>1. Fits(32)
  <2>1. \A i \in DOMAIN objs : objs[i].align \in Aligns
    BY ObjectLemma
  <2> QED BY <2>1 DEF Fits, Aligns, StackAlign, TransientStackAlign
<1>2. \E a \in Aligns : Fits(a) /\ \A b \in Aligns : Fits(b) => a <= b
  <2> DEFINE P(a) == Fits(a)
  <2>1. P(32)
    BY <1>1
  <2> HIDE DEF P
  <2>2. \E a \in Aligns : P(a) /\ \A b \in Aligns : P(b) => a <= b
    <3>1. CASE P(1)
      BY <3>1 DEF Aligns
    <3>2. CASE ~P(1) /\ P(2)
      BY <3>2 DEF Aligns
    <3>3. CASE ~P(1) /\ ~P(2) /\ P(4)
      BY <3>3 DEF Aligns
    <3>4. CASE ~P(1) /\ ~P(2) /\ ~P(4) /\ P(8)
      BY <3>4 DEF Aligns
    <3>5. CASE ~P(1) /\ ~P(2) /\ ~P(4) /\ ~P(8) /\ P(16)
      BY <3>5 DEF Aligns
    <3>6. CASE ~P(1) /\ ~P(2) /\ ~P(4) /\ ~P(8) /\ ~P(16)
      BY <3>6, <2>1 DEF Aligns
    <3> QED BY <3>1, <3>2, <3>3, <3>4, <3>5, <3>6
  <2> QED BY <2>2 DEF P
<1> QED BY <1>2, Zenon DEF FrameAlign
-----------------------------------------------------------------------------
(* The initial state and the steps.                                        *)

(* A function starts without objects, so nothing can overlap.              *)
LEMMA FrameInitInv == FrameInit => FrameInv
<1> SUFFICES ASSUME FrameInit PROVE FrameInv
  OBVIOUS
<1>1. DOMAIN off = {} /\ DOMAIN objs = {}
  BY DEF FrameInit
<1>2. off \in [DOMAIN off -> Int]
  <2>1. off \in Seq(Int)
    BY DEF FrameInit
  <2> QED BY <2>1
<1>3. objs \in Seq(Object)
  BY DEF FrameInit
<1>4. FrameTypeOK
  BY <1>1, <1>2, <1>3 DEF FrameInit, FrameTypeOK
<1> QED
  BY <1>1, <1>4 DEF FrameInit, FrameInv, PlacedInside, PlacedDisjoint,
                    NothingPlacedYet, SizedFrame

(* Appending objects, before or when the placement starts, keeps the type. *)
LEMMA AppendLemma ==
    ASSUME objs \in Seq(Object), NEW new \in Seq(Object)
    PROVE  /\ objs \o new \in Seq(Object)
           /\ DOMAIN objs \subseteq DOMAIN (objs \o new)
OBVIOUS

(* Fixed objects need no placement: LowerFormalArguments gives their place.*)
LEMMA CreateFixedObjectsInv ==
    ASSUME FrameInv, NEW n \in ArgCounts, CreateFixedObjects(n)
    PROVE  FrameInv'
<1>1. StackBytes(n) \div 4 \in Nat
  BY StackBytesLemma, ArgCountsAssumption
<1>2. FrameTypeOK'
  BY <1>1 DEF FrameInv, FrameTypeOK, CreateFixedObjects
<1>3. stage = "entry" /\ stage' = "isel" /\ UNCHANGED <<objs, off, offset>>
  BY DEF CreateFixedObjects
<1>4. DOMAIN off = {}
  BY <1>3 DEF FrameInv, NothingPlacedYet
<1> QED
  BY <1>2, <1>3, <1>4 DEF FrameInv, PlacedInside, PlacedDisjoint,
                          NothingPlacedYet, SizedFrame

(* New objects come while nothing is placed.                               *)
LEMMA CreateStackObjectsInv ==
    ASSUME FrameInv, NEW new \in NewObjects, CreateStackObjects(new)
    PROVE  FrameInv'
<1>1. new \in Seq(Object)
  BY NewObjectsAssumption
<1>2. /\ stage \in {"entry", "isel"}
      /\ objs' = objs \o new
      /\ UNCHANGED <<stage, off>>
  BY DEF CreateStackObjects
<1>3. DOMAIN off = {}
  BY <1>2 DEF FrameInv, NothingPlacedYet
<1>4. objs' \in Seq(Object)
  BY <1>1, <1>2, AppendLemma DEF FrameInv, FrameTypeOK
<1>5. FrameTypeOK'
  BY <1>3, <1>4 DEF FrameInv, FrameTypeOK, CreateStackObjects
<1> QED
  BY <1>2, <1>3, <1>5 DEF FrameInv, PlacedInside, PlacedDisjoint,
                          NothingPlacedYet, SizedFrame

(* A variable-sized object is not in the frame.                            *)
LEMMA CreateVariableSizedObjectInv ==
    ASSUME FrameInv, CreateVariableSizedObject
    PROVE  FrameInv'
<1>1. FrameTypeOK'
  BY DEF FrameInv, FrameTypeOK, CreateVariableSizedObject
<1>2. stage = "isel" /\ UNCHANGED <<stage, objs, off, offset>>
  BY DEF CreateVariableSizedObject
<1> QED
  BY <1>1, <1>2 DEF FrameInv, PlacedInside, PlacedDisjoint,
                    NothingPlacedYet, SizedFrame

(* A call only raises the size of the outgoing arguments, a natural number.*)
LEMMA NoteCallFrameInv ==
    ASSUME FrameInv, NEW n \in ArgCounts, NoteCallFrame(n)
    PROVE  FrameInv'
<1>1. StackBytes(n) \in Nat
  BY StackBytesLemma, ArgCountsAssumption
<1>2. FrameTypeOK'
  BY <1>1 DEF FrameInv, FrameTypeOK, NoteCallFrame
<1>3. stage = "isel" /\ UNCHANGED <<stage, objs, off, offset>>
  BY DEF NoteCallFrame
<1> QED
  BY <1>2, <1>3 DEF FrameInv, PlacedInside, PlacedDisjoint,
                    NothingPlacedYet, SizedFrame

(* The slots of the callee-saved registers come before any is placed.      *)
LEMMA AssignCalleeSavedSpillSlotsInv ==
    ASSUME FrameInv, NEW k \in CSCounts, AssignCalleeSavedSpillSlots(k)
    PROVE  FrameInv'
<1> DEFINE slots == [i \in 1 .. k |-> [size |-> 4, align |-> 4]]
<1>1. slots \in Seq(Object)
  BY CSCountsAssumption DEF Object, Aligns
<1>2. /\ stage = "isel" /\ stage' = "place"
      /\ objs' = objs \o slots
      /\ UNCHANGED <<off, offset>>
  BY DEF AssignCalleeSavedSpillSlots
<1>3. DOMAIN off = {}
  BY <1>2 DEF FrameInv, NothingPlacedYet
<1>4. objs' \in Seq(Object)
  BY <1>1, <1>2, AppendLemma DEF FrameInv, FrameTypeOK
<1>5. minCS' \in Nat
  BY DEF FrameInv, FrameTypeOK, AssignCalleeSavedSpillSlots
<1>6. FrameTypeOK'
  BY <1>2, <1>3, <1>4, <1>5
     DEF FrameInv, FrameTypeOK, AssignCalleeSavedSpillSlots
<1> QED
  BY <1>2, <1>3, <1>6 DEF FrameInv, PlacedInside, PlacedDisjoint,
                          NothingPlacedYet, SizedFrame

(* The new object goes below everything placed before: that is why the     *)
(* invariant bounds every placed object by -offset.                        *)
LEMMA PlaceObjectInv ==
    ASSUME FrameInv, NEW i \in Unplaced, PlaceObject(i)
    PROVE  FrameInv'
<1> DEFINE o == alignTo(offset + objs[i].size, objs[i].align)
<1>1. /\ stage = "place"
      /\ offset' = o
      /\ off' = [j \in DOMAIN off \cup {i} |-> IF j = i THEN -o ELSE off[j]]
      /\ UNCHANGED <<stage, fixed, objs, minCS, varSized, adjustsStack,
                     maxCallFrame, stackSize>>
  BY DEF PlaceObject
<1>2. i \in DOMAIN objs /\ i \notin DOMAIN off
  BY DEF Unplaced
<1>3. /\ objs[i].size \in Nat /\ objs[i].size > 0
      /\ objs[i].align \in Aligns
  BY <1>2, ObjectLemma DEF FrameInv
<1>4. offset \in Nat
  BY DEF FrameInv, FrameTypeOK
<1>5. /\ o \in Nat /\ o >= offset + objs[i].size
      /\ (-o) % objs[i].align = 0
  BY <1>3, <1>4, AlignToLemma
<1> HIDE DEF o
<1>6. /\ DOMAIN off' = DOMAIN off \cup {i}
      /\ off'[i] = -o
      /\ \A j \in DOMAIN off : off'[j] = off[j]
  BY <1>1, <1>2
<1>7. \A j \in DOMAIN off : off[j] \in Int /\ objs[j].size \in Nat
  BY ObjectLemma DEF FrameInv, FrameTypeOK
<1>8. FrameTypeOK'
  <2>1. off' \in [DOMAIN off' -> Int]
    BY <1>1, <1>5, <1>6, <1>7
  <2>2. DOMAIN off' \subseteq DOMAIN objs'
    BY <1>1, <1>2, <1>6 DEF FrameInv, FrameTypeOK
  <2> QED BY <1>1, <1>5, <2>1, <2>2 DEF FrameInv, FrameTypeOK
<1>9. PlacedInside'
  <2> SUFFICES ASSUME NEW j \in DOMAIN off'
               PROVE  /\ -offset' <= off'[j]
                      /\ off'[j] + objs'[j].size <= 0
                      /\ off'[j] % objs'[j].align = 0
    BY DEF PlacedInside
  <2>1. CASE j = i
    BY <2>1, <1>1, <1>3, <1>4, <1>5, <1>6
  <2>2. CASE j # i
    <3>1. j \in DOMAIN off
      BY <2>2, <1>6
    <3>2. /\ -offset <= off[j] /\ off[j] + objs[j].size <= 0
          /\ off[j] % objs[j].align = 0
      BY <3>1 DEF FrameInv, PlacedInside
    <3> QED BY <3>1, <3>2, <1>1, <1>3, <1>4, <1>5, <1>6, <1>7
  <2> QED BY <2>1, <2>2
<1>10. PlacedDisjoint'
  <2>1. \A j \in DOMAIN off : off'[i] + objs[i].size <= off'[j]
    <3> SUFFICES ASSUME NEW j \in DOMAIN off
                 PROVE  off'[i] + objs[i].size <= off'[j]
      OBVIOUS
    <3>1. -offset <= off[j]
      BY DEF FrameInv, PlacedInside
    <3> QED BY <3>1, <1>3, <1>4, <1>5, <1>6, <1>7
  <2>2. \A j, k \in DOMAIN off :
          j # k => \/ off'[j] + objs[j].size <= off'[k]
                   \/ off'[k] + objs[k].size <= off'[j]
    BY <1>6 DEF FrameInv, PlacedDisjoint
  <2> QED BY <2>1, <2>2, <1>1, <1>6 DEF PlacedDisjoint
<1>11. NothingPlacedYet' /\ SizedFrame'
  BY <1>1 DEF NothingPlacedYet, SizedFrame
<1> QED BY <1>8, <1>9, <1>10, <1>11 DEF FrameInv

(* The frame holds every placed object and the outgoing arguments.         *)
LEMMA SetStackSizeInv ==
    ASSUME FrameInv, SetStackSize
    PROVE  FrameInv'
<1>1. /\ stage' = "sized" /\ Unplaced = {}
      /\ stackSize' = alignTo(offset + ReservedBytes, FrameAlign)
      /\ UNCHANGED <<fixed, objs, minCS, varSized, adjustsStack,
                     maxCallFrame, off, offset>>
  BY DEF SetStackSize
<1>2. FrameAlign \in Aligns /\ Fits(FrameAlign)
  BY FrameAlignLemma DEF FrameInv
<1>3. offset + ReservedBytes \in Nat
  BY DEF FrameInv, FrameTypeOK, ReservedBytes
<1>4. /\ stackSize' \in Nat
      /\ stackSize' >= offset + ReservedBytes
      /\ (FrameAlign = 16 \/ FrameAlign = 32) => stackSize' % 16 = 0
  BY <1>1, <1>2, <1>3, AlignToLemma
<1>5. adjustsStack => FrameAlign = 16 \/ FrameAlign = 32
  BY <1>2 DEF Fits, StackAlign, Aligns
<1>6. DOMAIN off = DOMAIN objs
  BY <1>1 DEF Unplaced, FrameInv, FrameTypeOK
<1>7. FrameTypeOK'
  BY <1>1, <1>4 DEF FrameInv, FrameTypeOK
<1>8. SizedFrame'
  BY <1>1, <1>4, <1>5, <1>6 DEF SizedFrame, ReservedBytes, StackAlign
<1>9. PlacedInside' /\ PlacedDisjoint' /\ NothingPlacedYet'
  BY <1>1 DEF FrameInv, PlacedInside, PlacedDisjoint, NothingPlacedYet
<1> QED BY <1>7, <1>8, <1>9 DEF FrameInv

(* The next function starts like the first.                                *)
LEMMA NextFunctionInv ==
    ASSUME NextFunction
    PROVE  FrameInv'
<1>1. /\ stage' = "entry" /\ objs' = <<>> /\ off' = <<>>
      /\ DOMAIN off' = {} /\ DOMAIN objs' = {}
  BY DEF NextFunction
<1>2. off' \in [DOMAIN off' -> Int]
  <2>1. off' \in Seq(Int)
    BY DEF NextFunction
  <2> QED BY <2>1
<1>3. objs' \in Seq(Object)
  BY DEF NextFunction
<1>4. FrameTypeOK'
  BY <1>1, <1>2, <1>3 DEF NextFunction, FrameTypeOK
<1> QED
  BY <1>1, <1>4 DEF FrameInv, PlacedInside, PlacedDisjoint, NothingPlacedYet,
                    SizedFrame

(* Every operation on the frame keeps the inductive invariant.             *)
LEMMA FrameNextInv == FrameInv /\ [FrameNext]_frameVars => FrameInv'
<1> SUFFICES ASSUME FrameInv, [FrameNext]_frameVars PROVE FrameInv'
  OBVIOUS
<1>1. ASSUME NEW n \in ArgCounts, CreateFixedObjects(n) PROVE FrameInv'
  BY <1>1, CreateFixedObjectsInv
<1>2. ASSUME NEW n \in ArgCounts, NoteCallFrame(n) PROVE FrameInv'
  BY <1>2, NoteCallFrameInv
<1>3. ASSUME NEW new \in NewObjects, CreateStackObjects(new) PROVE FrameInv'
  BY <1>3, CreateStackObjectsInv
<1>4. CASE CreateVariableSizedObject
  BY <1>4, CreateVariableSizedObjectInv
<1>5. ASSUME NEW k \in CSCounts, AssignCalleeSavedSpillSlots(k)
      PROVE  FrameInv'
  BY <1>5, AssignCalleeSavedSpillSlotsInv
<1>6. ASSUME NEW i \in Unplaced, PlaceObject(i) PROVE FrameInv'
  BY <1>6, PlaceObjectInv
<1>7. CASE SetStackSize
  BY <1>7, SetStackSizeInv
<1>8. CASE NextFunction
  BY <1>8, NextFunctionInv
<1>9. CASE UNCHANGED frameVars
  <2>1. UNCHANGED <<stage, fixed, objs, minCS, varSized, adjustsStack,
                    maxCallFrame, off, offset, stackSize>>
    BY <1>9 DEF frameVars
  <2> QED
    BY <2>1 DEF FrameInv, FrameTypeOK, PlacedInside, PlacedDisjoint,
                NothingPlacedYet, SizedFrame, ReservedBytes
<1> QED
  BY <1>1, <1>2, <1>3, <1>4, <1>5, <1>6, <1>7, <1>8, <1>9
     DEF FrameNext

(* The inductive invariant holds of every frame the generic passes build   *)
(* through the hooks of the backend.                                       *)
THEOREM FrameInvariant == FrameSpec => []FrameInv
BY FrameInitInv, FrameNextInv, PTL DEF FrameSpec

-----------------------------------------------------------------------------
(* What the backend relies on when it resolves frame indices.              *)

(* The frame state is well formed in every reachable state.                *)
THEOREM FrameTypeCorrect == FrameSpec => []FrameTypeOK
<1>1. FrameInv => FrameTypeOK
  BY DEF FrameInv
<1> QED BY <1>1, FrameInvariant, PTL

(* The offset of a resolved frame index, from the stack pointer, splits    *)
(* into the offset from the incoming stack pointer and the frame size.     *)
LEMMA ResolvedLemma ==
    ASSUME FrameInv
    PROVE  /\ \A i \in DOMAIN objs : Resolved(i) = off[i] + stackSize + 0
           /\ \A k \in 1 .. fixed : Resolved(-k) = 4 * (k - 1) + stackSize + 0
<1>1. \A i \in DOMAIN objs : i \in Nat \ {0}
  BY DEF FrameInv, FrameTypeOK
<1>2. \A k \in 1 .. fixed : k \in Nat \ {0} /\ -k < 0 /\ -(-k) = k
  BY DEF FrameInv, FrameTypeOK
<1> QED
  BY <1>1, <1>2, FixedOffsetLemma
     DEF Resolved, eliminateFrameIndex, ObjectOffset

(* Frame indices are resolved into the function's own frame, above the     *)
(* outgoing arguments; incoming stack arguments stay outside.              *)
THEOREM FrameAreasApart == FrameSpec => []AreasApart
<1>1. FrameInv => AreasApart
  <2> SUFFICES ASSUME FrameInv, stage = "sized"
               PROVE  /\ \A i \in DOMAIN objs :
                           /\ Resolved(i) >= ReservedBytes
                           /\ Resolved(i) + objs[i].size <= stackSize
                      /\ \A k \in 1 .. fixed : Resolved(-k) >= stackSize
    BY DEF AreasApart
  <2>1. /\ DOMAIN off = DOMAIN objs
        /\ stackSize >= offset + ReservedBytes
        /\ stackSize \in Nat /\ offset \in Nat /\ ReservedBytes \in Nat
    BY DEF FrameInv, FrameTypeOK, SizedFrame, ReservedBytes
  <2>2. ASSUME NEW i \in DOMAIN objs
        PROVE  /\ Resolved(i) >= ReservedBytes
               /\ Resolved(i) + objs[i].size <= stackSize
    <3>1. off[i] \in Int /\ -offset <= off[i] /\ off[i] + objs[i].size <= 0
      BY <2>1 DEF FrameInv, FrameTypeOK, PlacedInside
    <3>2. objs[i].size \in Nat
      BY ObjectLemma DEF FrameInv
    <3> QED BY <2>1, <3>1, <3>2, ResolvedLemma
  <2>3. ASSUME NEW k \in 1 .. fixed PROVE Resolved(-k) >= stackSize
    <3>1. k \in Nat /\ k >= 1
      BY DEF FrameInv, FrameTypeOK
    <3> QED BY <2>1, <3>1, ResolvedLemma
  <2> QED BY <2>2, <2>3
<1> QED BY <1>1, FrameInvariant, PTL

(* No two frame indices are resolved to bytes they share.                  *)
THEOREM FrameObjectsDisjoint == FrameSpec => []ObjectsDisjoint
<1>1. FrameInv => ObjectsDisjoint
  <2> SUFFICES ASSUME FrameInv, stage = "sized",
                      NEW i \in FrameIndices, NEW j \in FrameIndices, i # j
               PROVE  \/ Resolved(i) + SizeOf(i) <= Resolved(j)
                      \/ Resolved(j) + SizeOf(j) <= Resolved(i)
    BY DEF ObjectsDisjoint
  <2>1. /\ DOMAIN off = DOMAIN objs
        /\ stackSize \in Nat
        /\ fixed \in Nat
    BY DEF FrameInv, FrameTypeOK, SizedFrame
  <2>2. \A n \in DOMAIN objs :
          /\ n > 0 /\ off[n] \in Int /\ objs[n].size \in Nat
          /\ SizeOf(n) = objs[n].size
          /\ Resolved(n) = off[n] + stackSize
          /\ Resolved(n) + SizeOf(n) <= stackSize
    <3> SUFFICES ASSUME NEW n \in DOMAIN objs
                 PROVE  /\ n > 0 /\ off[n] \in Int /\ objs[n].size \in Nat
                        /\ SizeOf(n) = objs[n].size
                        /\ Resolved(n) = off[n] + stackSize
                        /\ Resolved(n) + SizeOf(n) <= stackSize
      OBVIOUS
    <3>1. n \in Nat /\ n > 0
      BY DEF FrameInv, FrameTypeOK
    <3>2. off[n] \in Int /\ off[n] + objs[n].size <= 0
      BY <2>1 DEF FrameInv, FrameTypeOK, PlacedInside
    <3>3. objs[n].size \in Nat
      BY ObjectLemma DEF FrameInv
    <3>4. SizeOf(n) = objs[n].size
      BY <3>1 DEF SizeOf
    <3> QED BY <2>1, <3>1, <3>2, <3>3, <3>4, ResolvedLemma
  <2>3. \A k \in 1 .. fixed :
          /\ k \in Nat /\ k >= 1
          /\ SizeOf(-k) = 4
          /\ Resolved(-k) = 4 * (k - 1) + stackSize
    BY <2>1, ResolvedLemma DEF SizeOf
  <2>4. CASE i \in DOMAIN objs /\ j \in DOMAIN objs
    <3>1. \/ off[i] + objs[i].size <= off[j]
          \/ off[j] + objs[j].size <= off[i]
      BY <2>1, <2>4 DEF FrameInv, PlacedDisjoint
    <3> QED BY <2>1, <2>2, <2>4, <3>1
  <2>5. CASE i \in DOMAIN objs /\ j \in {-k : k \in 1 .. fixed}
    BY <2>1, <2>2, <2>3, <2>5
  <2>6. CASE j \in DOMAIN objs /\ i \in {-k : k \in 1 .. fixed}
    BY <2>1, <2>2, <2>3, <2>6
  <2>7. CASE i \in {-k : k \in 1 .. fixed} /\ j \in {-k : k \in 1 .. fixed}
    BY <2>1, <2>3, <2>7
  <2> QED BY <2>4, <2>5, <2>6, <2>7 DEF FrameIndices
<1> QED BY <1>1, FrameInvariant, PTL

(* Every object is aligned relative to the incoming stack pointer.         *)
THEOREM FrameObjectsAligned == FrameSpec => []ObjectsAligned
<1>1. FrameInv => ObjectsAligned
  <2> SUFFICES ASSUME FrameInv, stage = "sized", NEW i \in DOMAIN objs
               PROVE  (Resolved(i) - stackSize) % objs[i].align = 0
    BY DEF ObjectsAligned
  <2>1. i \in DOMAIN off
    BY DEF FrameInv, SizedFrame
  <2>2. /\ off[i] \in Int /\ stackSize \in Nat
        /\ off[i] % objs[i].align = 0
    BY <2>1 DEF FrameInv, FrameTypeOK, PlacedInside
  <2>3. Resolved(i) - stackSize = off[i]
    BY <2>2, ResolvedLemma
  <2> QED BY <2>2, <2>3
<1> QED BY <1>1, FrameInvariant, PTL

(* A function that calls keeps the stack pointer a multiple of 16.         *)
THEOREM FrameCallsAligned == FrameSpec => []CallsAligned
<1>1. FrameInv => CallsAligned
  <2> SUFFICES ASSUME FrameInv, stage = "sized", adjustsStack
               PROVE  PrologueImm % StackAlign = 0
    BY DEF CallsAligned
  <2>1. stackSize \in Nat /\ stackSize % 16 = 0
    BY DEF FrameInv, FrameTypeOK, SizedFrame, StackAlign
  <2>2. (-stackSize) % 16 = 0
    BY <2>1
  <2> QED BY <2>1, <2>2 DEF PrologueImm, StackAlign
<1> QED BY <1>1, FrameInvariant, PTL

(* Where LowerCall puts the n arguments of a call: no two in one register, *)
(* no two in overlapping words, every word inside the area the caller has  *)
(* reserved, and each where LowerFormalArguments of the callee has its     *)
(* fixed object.                                                           *)
THEOREM ArgumentsApart ==
    ASSUME NEW n \in Nat, NEW i \in 1 .. n, NEW j \in 1 .. n, i # j
    PROVE  LET a == CC_RV32I(i)
               b == CC_RV32I(j)
           IN  /\ a # b
               /\ ~a.isReg /\ ~b.isReg =>
                     a.loc + 4 <= b.loc \/ b.loc + 4 <= a.loc
               /\ a.isReg => a.loc \in 10 .. 17
               /\ ~a.isReg => /\ 0 <= a.loc /\ a.loc + 4 <= StackBytes(n)
                              /\ a.loc = FixedOffset(i - NumArgRegs)
<1>1. CASE i <= 8 /\ j <= 8
  BY <1>1 DEF CC_RV32I, RegLoc, NumArgRegs, X10
<1>2. CASE i <= 8 /\ j > 8
  BY <1>2 DEF CC_RV32I, RegLoc, MemLoc, NumArgRegs, X10
<1>3. CASE i > 8
  <2>1. i - NumArgRegs \in Nat \ {0} /\ NumArgRegs + (i - NumArgRegs) = i
    BY <1>3 DEF NumArgRegs
  <2>2. FixedOffset(i - NumArgRegs) = CC_RV32I(i).loc
    BY <2>1 DEF FixedOffset
  <2>3. /\ CC_RV32I(i).loc = 4 * (i - 9) /\ ~CC_RV32I(i).isReg
        /\ StackBytes(n) = 4 * (n - 8)
    BY <1>3 DEF CC_RV32I, MemLoc, NumArgRegs, StackBytes
  <2>4. CASE j > 8
    <3>1. CC_RV32I(j).loc = 4 * (j - 9) /\ ~CC_RV32I(j).isReg
      BY <2>4 DEF CC_RV32I, MemLoc, NumArgRegs
    <3> QED BY <1>3, <2>2, <2>3, <2>4, <3>1
  <2>5. CASE j <= 8
    <3>1. CC_RV32I(j).isReg
      BY <2>5 DEF CC_RV32I, RegLoc, NumArgRegs
    <3> QED BY <1>3, <2>2, <2>3, <3>1
  <2> QED BY <2>4, <2>5
<1> QED BY <1>1, <1>2, <1>3
-----------------------------------------------------------------------------
(* The code generator and the frame.                                       *)

(* A step of the code generator is a step of the frame or leaves it alone. *)
LEMMA StepOfFrame == [CompileStep]_compileVars => [FrameNext]_frameVars
<1> SUFFICES ASSUME [CompileStep]_compileVars, ~UNCHANGED frameVars
             PROVE  FrameNext
  OBVIOUS
<1>1. CASE BeginFunction
  BY <1>1 DEF BeginFunction, FrameNext
<1>2. CASE LowerFormalArguments
  BY <1>2 DEF LowerFormalArguments, FrameNext
<1>3. CASE ExpandDynamicStackAlloc
  BY <1>3 DEF ExpandDynamicStackAlloc, FrameNext
<1>4. CASE LowerCall
  BY <1>4 DEF LowerCall, FrameNext
<1>5. CASE RegAlloc
  BY <1>5 DEF RegAlloc, FrameNext
<1>6. CASE SpillCalleeSavedRegisters
  BY <1>6 DEF SpillCalleeSavedRegisters, FrameNext
<1>7. CASE CalculateFrameObjectOffsets
  BY <1>7 DEF CalculateFrameObjectOffsets, FrameNext
<1>8. CASE EmitFunction
  BY <1>8 DEF EmitFunction, FrameNext
<1>9. CASE \/ SelectConstant \/ SelectAdd \/ SelectFrameIndex
           \/ SelectLoad \/ SelectStore
           \/ StartBlock \/ SelectBR \/ SelectBR_CC
           \/ LowerReturn \/ FinishISel
  BY <1>9 DEF SelectConstant, SelectAdd, SelectFrameIndex, SelectLoad,
              SelectStore, StartBlock, SelectBR, SelectBR_CC, LowerReturn,
              FinishISel
<1>10. CASE \/ EliminateCallFramePseudoInstrs \/ emitPrologue \/ emitEpilogue
            \/ ReplaceFrameIndices \/ ExpandCopies
  BY <1>10 DEF EliminateCallFramePseudoInstrs, emitPrologue, emitEpilogue,
               ReplaceFrameIndices, ExpandCopies
<1>11. CASE UNCHANGED compileVars
  BY <1>11 DEF compileVars
<1> QED
  BY <1>1, <1>2, <1>3, <1>4, <1>5, <1>6, <1>7, <1>8, <1>9, <1>10, <1>11
  DEF CompileStep

(* Compiling a program, function by function and pass by pass, is one of   *)
(* the behaviours RV32IFrame describes: LowerFormalArguments, LowerCall,   *)
(* the spills and PrologEpilogInserter touch the MachineFrameInfo in an    *)
(* order and with arguments FrameSpec allows.                              *)
THEOREM CompileImplementsFrame == CompileSpec => FrameSpec
<1>1. CodegenInit => FrameInit
  BY DEF CodegenInit
<1> QED
  BY <1>1, StepOfFrame, PTL DEF CompileSpec, FrameSpec

(* In every function of every program, the parts of the frame are apart    *)
(* where emitPrologue and eliminateFrameIndex put them.                    *)
THEOREM CompiledAreasApart == CompileSpec => []AreasApart
BY CompileImplementsFrame, FrameAreasApart

(* No two frame indices of a compiled function are resolved to bytes they  *)
(* share.                                                                  *)
THEOREM CompiledObjectsDisjoint == CompileSpec => []ObjectsDisjoint
BY CompileImplementsFrame, FrameObjectsDisjoint

(* Every object of a compiled function is aligned relative to the incoming *)
(* stack pointer.                                                          *)
THEOREM CompiledObjectsAligned == CompileSpec => []ObjectsAligned
BY CompileImplementsFrame, FrameObjectsAligned

(* Every compiled function that calls keeps the stack pointer a multiple   *)
(* of 16.                                                                  *)
THEOREM CompiledCallsAligned == CompileSpec => []CallsAligned
BY CompileImplementsFrame, FrameCallsAligned
-----------------------------------------------------------------------------
(* The inductive invariant.                                                *)

Opcode == Branches \cup
    {"ADDI", "ADD", "SUB", "LW", "SW", "COPY", "LABEL", "ADJCALLSTACKDOWN",
     "ADJCALLSTACKUP", "PseudoCALL", "PseudoRET", "PseudoBR"}
Instruction == [op : Opcode, rd : Int, rs1 : Int, rs2 : Int, imm : Int,
                fi : Int, sym : Int, implicit : SUBSET Int]

(* What selection, register allocation and the elimination of call frame   *)
(* pseudos leave: frame indices are those of objects, and SP is written    *)
(* only where a variable-sized object is allocated.                        *)
Selected(fis, regs) == {i \in Instruction : /\ i.fi \in fis \cup {0}
                                            /\ i.rd \notin regs}
Untouched == IF varSized THEN {} ELSE {X2}

StatementOf(slots) == {s \in Statement : s.op = "addr" => s.slot \in slots}

SelectedInv ==
    /\ prog \in Programs
    /\ pass # "done" => cur \in DOMAIN prog
    /\ pass \in {"alloca", "args"} => code = <<>>
    /\ pass \in {"args", "isel"} => todo \in Seq(StatementOf(DOMAIN objs))
    /\ pass \in {"isel", "regalloc", "callframes", "csr"} =>
         code \in Seq(Selected(FrameIndices, Untouched))

(* The load or store of the k-th callee-saved register, before and after   *)
(* frame indices are replaced.                                             *)
SlotAccess(resolved, op, rd, rs2, k) ==
    IF resolved
    THEN Instr(op, rd, X2, rs2, eliminateFrameIndex(minCS + k - 1, 0))
    ELSE WithFI(Instr(op, rd, NoReg, rs2, 0), minCS + k - 1)

(* Code c with pre instructions of the prologue in front and post of the   *)
(* epilogue before every return.                                           *)
SavesAtEntry(c, resolved, pre) ==
    /\ pre + NumSaves <= Len(c)
    /\ \A k \in 1 .. NumSaves :
         c[pre + k] = SlotAccess(resolved, "SW", NoReg, c[pre + k].rs2, k)

RestoresBeforeReturns(c, resolved, pre, post) ==
    \A p \in DOMAIN c : IsReturn(c[p]) =>
      \A k \in 1 .. NumSaves :
        /\ (p - post) - k \in DOMAIN c
        /\ c[(p - post) - k] =
             SlotAccess(resolved, "LW", c[pre + k].rs2, NoReg, k)

ClobberedSaved(c, pre) ==
    \A p \in DOMAIN c : \A r \in Clobbers(c[p]) \cap CSR_RV32I :
      \E k \in 1 .. NumSaves : c[pre + k].rs2 = r

AdjustsSP(c, pre, post) ==
    /\ pre = 1 => c[1] = ADDI(X2, X2, -stackSize)
    /\ post = 1 => \A p \in DOMAIN c : IsReturn(c[p]) =>
                     p - 1 \in DOMAIN c /\ c[p - 1] = ADDI(X2, X2, stackSize)
    /\ ~varSized => \A p \in DOMAIN c : c[p].rd = X2 =>
                      \/ pre = 1 /\ p = 1
                      \/ post = 1 /\ p + 1 \in DOMAIN c /\ IsReturn(c[p + 1])

IndicesOwned(c, resolved, pre) ==
    \A p \in DOMAIN c : c[p].fi # 0 =>
      /\ ~resolved
      /\ c[p].fi \in FrameIndices
      /\ c[p].fi >= minCS =>
           p \in pre + 1 .. pre + NumSaves \/ c[p].op = "LW"

Framed(c, resolved, pre, post) ==
    /\ c \in Seq(Instruction)
    /\ SavesAtEntry(c, resolved, pre)
    /\ RestoresBeforeReturns(c, resolved, pre, post)
    /\ ClobberedSaved(c, pre)
    /\ AdjustsSP(c, pre, post)
    /\ IndicesOwned(c, resolved, pre)

FramedInv ==
    /\ pass \in {"layout", "prologue", "epilogue", "frameindex", "copies",
                 "emit"} => minCS \in Nat \ {0} /\ NumSaves \in Nat
    /\ pass \in {"prologue", "epilogue", "frameindex", "copies", "emit"} =>
         stage = "sized"
    /\ pass \in {"layout", "prologue"} => Framed(code, FALSE, 0, 0)
    /\ pass = "epilogue" => Framed(code, FALSE, PrologueLen, 0)
    /\ pass = "frameindex" => Framed(code, FALSE, PrologueLen, EpilogueLen)
    /\ pass \in {"copies", "emit"} =>
         Framed(code, TRUE, PrologueLen, EpilogueLen)

CodegenInv == SelectedInv /\ FramedInv
-----------------------------------------------------------------------------
(* Registers and instructions.                                             *)

(* Neither SP nor an absent operand is a callee-saved register.            *)
LEMMA SaveListLemma ==
    /\ CSR_RV32I_SaveList \in Seq(Int)
    /\ CSR_RV32I \subseteq Int \ {X2, NoReg}
<1> DEFINE s == [k \in 1 .. 10 |-> 17 + k]
           A == Int \ {X2, NoReg}
<1>1. <<1, 8, 9>> \in Seq(A) /\ s \in Seq(A)
  BY DEF X2, NoReg
<1>2. CSR_RV32I_SaveList = <<1, 8, 9>> \o s
  BY DEF CSR_RV32I_SaveList
<1> HIDE DEF s, A
<1>3. CSR_RV32I_SaveList \in Seq(A)
  BY <1>1, <1>2, Concatenation
<1>4. \A k \in DOMAIN CSR_RV32I_SaveList : CSR_RV32I_SaveList[k] \in A
  BY <1>3
<1>5. A \subseteq Int
  BY DEF A
<1>6. CSR_RV32I_SaveList \in Seq(Int)
  <2> DEFINE list == CSR_RV32I_SaveList
  <2>1. list \in [1 .. Len(list) -> A] /\ Len(list) \in Nat
    BY <1>3
  <2> HIDE DEF list
  <2>2. list \in [1 .. Len(list) -> Int]
    BY <1>5, <2>1
  <2>3. list \in Seq(Int)
    BY <2>1, <2>2
  <2> QED BY <2>3 DEF list
<1> QED BY <1>4, <1>6 DEF CSR_RV32I, A

(* The operations the passes build instructions of.                        *)
LEMMA OpcodeLemma ==
    /\ "ADDI" \in Opcode /\ "ADD" \in Opcode /\ "SUB" \in Opcode
    /\ "LW" \in Opcode /\ "SW" \in Opcode /\ "COPY" \in Opcode
    /\ "LABEL" \in Opcode /\ "PseudoCALL" \in Opcode
    /\ "PseudoRET" \in Opcode /\ "PseudoBR" \in Opcode
    /\ "ADJCALLSTACKDOWN" \in Opcode /\ "ADJCALLSTACKUP" \in Opcode
    /\ Branches \subseteq Opcode
BY DEF Opcode

(* Every constructor gives an instruction without a frame index.           *)
LEMMA InstrLemma ==
    ASSUME NEW op \in Opcode, NEW rd \in Int, NEW rs1 \in Int, NEW rs2 \in Int,
           NEW imm \in Int
    PROVE  /\ Instr(op, rd, rs1, rs2, imm) \in Instruction
           /\ Instr(op, rd, rs1, rs2, imm).fi = 0
           /\ Instr(op, rd, rs1, rs2, imm).op = op
           /\ Instr(op, rd, rs1, rs2, imm).rd = rd
           /\ Instr(op, rd, rs1, rs2, imm).rs2 = rs2
BY DEF Instr, Instruction

(* Referring to a frame index changes nothing else.                        *)
LEMMA WithFILemma ==
    ASSUME NEW i \in Instruction, NEW fi \in Int
    PROVE  /\ WithFI(i, fi) \in Instruction
           /\ WithFI(i, fi).fi = fi
           /\ WithFI(i, fi).op = i.op
           /\ WithFI(i, fi).rd = i.rd
           /\ WithFI(i, fi).rs2 = i.rs2
BY DEF WithFI, Instruction

(* What one pass leaves is good for the next, when objects are added.      *)
LEMMA SelectedGrows ==
    ASSUME NEW A, NEW B, NEW X, NEW Y, A \subseteq B, Y \subseteq X,
           NEW c \in Seq(Selected(A, X))
    PROVE  c \in Seq(Selected(B, Y))
<1>1. Selected(A, X) \subseteq Selected(B, Y)
  BY DEF Selected
<1> QED BY <1>1

(* A list of one selected instruction.                                     *)
LEMMA SelectedSingle ==
    ASSUME NEW A, NEW X, NEW i \in Selected(A, X)
    PROVE  <<i>> \in Seq(Selected(A, X))
OBVIOUS

(* The invariant of the passes before the frame is laid out.               *)
LEMMA BeforeLayout ==
    ASSUME SelectedInv, UNCHANGED <<prog, cur>>, pass # "done",
           pass' \in {"isel", "regalloc", "callframes", "csr"},
           pass' = "isel" => todo' \in Seq(StatementOf(DOMAIN objs')),
           code' \in Seq(Selected(FrameIndices', Untouched'))
    PROVE  CodegenInv'
BY DEF SelectedInv, FramedInv, CodegenInv
-----------------------------------------------------------------------------
(* Instruction selection.                                                  *)

(* The statements left, their kinds, and the values they name.             *)
LEMMA TodoLemma ==
    ASSUME NEW X, todo \in Seq(StatementOf(X)), todo # <<>>
    PROVE  /\ Head(todo) \in Statement
           /\ Head(todo).op = "addr" => Head(todo).slot \in X
           /\ Tail(todo) \in Seq(StatementOf(X))
<1>1. Head(todo) \in StatementOf(X) /\ Tail(todo) \in Seq(StatementOf(X))
  OBVIOUS
<1> QED BY <1>1 DEF StatementOf

(* The register of an IR value is virtual.                                 *)
LEMMA VRegLemma ==
    ASSUME NEW v \in SSAValue
    PROVE  VReg(v) \in Int /\ VReg(v) >= 32 /\ VReg(v) # X2
BY DEF SSAValue, VReg, X2

(* Scratch values are virtual registers.                                   *)
LEMMA TempLemma ==
    ASSUME NEW S, code \in Seq(S), NEW k \in Nat
    PROVE  Temp(k) \in Int /\ Temp(k) >= 32 /\ Temp(k) # X2
<1>1. Len(code) \in Nat
  OBVIOUS
<1> HIDE DEF Temp
<1> QED BY <1>1 DEF Temp, X2

(* Frame indices are integers, and those of objects count from 1.          *)
LEMMA FrameIndicesLemma ==
    ASSUME FrameTypeOK
    PROVE  FrameIndices \subseteq Int /\ DOMAIN objs = 1 .. Len(objs)
           /\ Len(objs) \in Nat
<1>1. DOMAIN objs = 1 .. Len(objs) /\ Len(objs) \in Nat /\ fixed \in Nat
  BY DEF FrameTypeOK
<1> QED BY <1>1 DEF FrameIndices

(* One statement becomes instrs, and the frame gets no object.             *)
LEMMA SelectStep ==
    ASSUME SelectedInv, pass = "isel", todo # <<>>, NEW instrs, Select(instrs),
           UNCHANGED <<objs, fixed>>, Untouched' \subseteq Untouched,
           instrs \in Seq(Selected(FrameIndices, Untouched'))
    PROVE  CodegenInv'
<1>1. /\ code' = code \o instrs /\ todo' = Tail(todo)
      /\ UNCHANGED <<prog, cur, pass>>
  BY DEF Select
<1>2. /\ code \in Seq(Selected(FrameIndices, Untouched))
      /\ todo \in Seq(StatementOf(DOMAIN objs))
  BY DEF SelectedInv
<1>3. code \in Seq(Selected(FrameIndices, Untouched'))
  BY <1>2, SelectedGrows
<1>4. code' \in Seq(Selected(FrameIndices, Untouched'))
  BY <1>1, <1>3, Concatenation
<1>5. todo' \in Seq(StatementOf(DOMAIN objs))
  BY <1>1, <1>2, TodoLemma
<1>6. FrameIndices' = FrameIndices
  BY DEF FrameIndices
<1> QED BY <1>1, <1>4, <1>5, <1>6, BeforeLayout

(* An instruction without a frame index that does not write SP.            *)
LEMMA SelectedInstr ==
    ASSUME NEW A, NEW op \in Opcode, NEW rd \in Int, NEW rs1 \in Int,
           NEW rs2 \in Int, NEW imm \in Int, rd # X2
    PROVE  Instr(op, rd, rs1, rs2, imm) \in Selected(A, {X2})
<1> DEFINE i == Instr(op, rd, rs1, rs2, imm)
<1>1. i \in Instruction /\ i.fi = 0 /\ i.rd = rd
  BY InstrLemma
<1> HIDE DEF i
<1>2. i \in Selected(A, {X2})
  BY <1>1 DEF Selected
<1> QED BY <1>2 DEF i

(* A target does not change what an instruction writes.                    *)
LEMMA SelectedSym ==
    ASSUME NEW A, NEW X, NEW i \in Selected(A, X), NEW s \in Int
    PROVE  [i EXCEPT !.sym = s] \in Selected(A, X)
BY DEF Selected, Instruction

(* Nor do implicit operands.                                               *)
LEMMA SelectedImplicit ==
    ASSUME NEW A, NEW X, NEW i \in Selected(A, X), NEW uses \in SUBSET Int
    PROVE  [i EXCEPT !.implicit = uses] \in Selected(A, X)
BY DEF Selected, Instruction

(* What selection builds refers to no frame index and leaves SP alone.     *)
LEMMA ConstructorLemma ==
    ASSUME NEW A, NEW rd \in Int, NEW r \in Int, NEW n \in Int
    PROVE  /\ rd # X2 => COPY(rd, r) \in Selected(A, {X2})
           /\ rd # X2 => ADDI(rd, r, n) \in Selected(A, {X2})
           /\ rd # X2 => LW(rd, r) \in Selected(A, {X2})
           /\ SW(rd, r) \in Selected(A, {X2})
           /\ ADJCALLSTACKDOWN(n) \in Selected(A, {X2})
           /\ ADJCALLSTACKUP(n) \in Selected(A, {X2})
<1>1. NoReg \in Int /\ NoReg # X2 /\ 0 \in Int
  BY DEF NoReg, X2
<1> QED BY <1>1, OpcodeLemma, SelectedInstr
        DEF COPY, ADDI, LW, SW, ADJCALLSTACKDOWN, ADJCALLSTACKUP

(* The start of a block writes nothing.                                    *)
LEMMA LABELLemma ==
    ASSUME NEW A, NEW blk \in Int
    PROVE  LABEL(blk) \in Selected(A, {X2})
<1> DEFINE b == Instr("LABEL", NoReg, NoReg, NoReg, 0)
<1>1. b \in Selected(A, {X2})
  BY OpcodeLemma, SelectedInstr DEF NoReg, X2
<1> HIDE DEF b
<1>2. [b EXCEPT !.sym = blk] \in Selected(A, {X2})
  BY <1>1, SelectedSym
<1> QED BY <1>2 DEF LABEL, b

(* An unconditional branch writes nothing.                                 *)
LEMMA PseudoBRLemma ==
    ASSUME NEW A, NEW blk \in Int
    PROVE  PseudoBR(blk) \in Selected(A, {X2})
<1> DEFINE b == Instr("PseudoBR", NoReg, NoReg, NoReg, 0)
<1>1. b \in Selected(A, {X2})
  BY OpcodeLemma, SelectedInstr DEF NoReg, X2
<1> HIDE DEF b
<1>2. [b EXCEPT !.sym = blk] \in Selected(A, {X2})
  BY <1>1, SelectedSym
<1> QED BY <1>2 DEF PseudoBR, b

(* What never writes SP is good whether or not something else does.        *)
LEMMA SelectedAny ==
    ASSUME NEW A, NEW i \in Selected(A, {X2})
    PROVE  i \in Selected(A, Untouched) /\ i \in Selected(A, Untouched')
BY DEF Selected, Untouched

(* Selecting a constant writes the register of its value.                  *)
LEMMA SelectConstantInv ==
    ASSUME SelectedInv, SelectConstant PROVE CodegenInv'
<1> DEFINE s == Head(todo)
           i == ADDI(VReg(s.dst), X0, s.imm)
<1>1. /\ pass = "isel" /\ todo # <<>> /\ s.op = "const" /\ Select(<<i>>)
      /\ UNCHANGED frameVars
  BY DEF SelectConstant, Selecting
<1>2. s.dst \in SSAValue /\ s.imm \in Int
  <2>1. s \in Statement
    BY <1>1, TodoLemma DEF SelectedInv
  <2> QED BY <1>1, <2>1 DEF Statement
<1>3. i \in Selected(FrameIndices, Untouched')
  BY <1>2, VRegLemma, OpcodeLemma, SelectedInstr, SelectedAny DEF ADDI, X0, NoReg
<1> HIDE DEF i
<1> QED BY <1>1, <1>3, SelectStep, SelectedSingle DEF frameVars, Untouched

(* Selecting an addition writes the register of its value.                 *)
LEMMA SelectAddInv ==
    ASSUME SelectedInv, SelectAdd PROVE CodegenInv'
<1> DEFINE s == Head(todo)
           i == ADD(VReg(s.dst), VReg(s.a), VReg(s.b))
<1>1. /\ pass = "isel" /\ todo # <<>> /\ s.op = "add" /\ Select(<<i>>)
      /\ UNCHANGED frameVars
  BY DEF SelectAdd, Selecting
<1>2. s.dst \in SSAValue /\ s.a \in SSAValue /\ s.b \in SSAValue
  <2>1. s \in Statement
    BY <1>1, TodoLemma DEF SelectedInv
  <2> QED BY <1>1, <2>1 DEF Statement
<1>3. i \in Selected(FrameIndices, Untouched')
  BY <1>2, VRegLemma, OpcodeLemma, SelectedInstr, SelectedAny DEF ADD
<1> HIDE DEF i
<1> QED BY <1>1, <1>3, SelectStep, SelectedSingle DEF frameVars, Untouched

(* The slot is one of the function's own objects.                          *)
LEMMA SelectFrameIndexInv ==
    ASSUME SelectedInv, FrameTypeOK, SelectFrameIndex PROVE CodegenInv'
<1> DEFINE s == Head(todo)
           b == ADDI(VReg(s.dst), NoReg, 0)
           i == WithFI(b, s.slot)
<1>1. /\ pass = "isel" /\ todo # <<>> /\ s.op = "addr" /\ Select(<<i>>)
      /\ UNCHANGED frameVars
  BY DEF SelectFrameIndex, Selecting
<1>2. s.dst \in SSAValue /\ s.slot \in DOMAIN objs
  <2>1. s \in Statement /\ s.slot \in DOMAIN objs
    BY <1>1, TodoLemma DEF SelectedInv
  <2> QED BY <1>1, <2>1 DEF Statement
<1>3. b \in Instruction /\ b.rd # X2
  BY <1>2, VRegLemma, OpcodeLemma, InstrLemma DEF ADDI, NoReg
<1> HIDE DEF b
<1>4. s.slot \in FrameIndices /\ s.slot \in Int
  BY <1>2, FrameIndicesLemma DEF FrameIndices
<1>5. i \in Selected(FrameIndices, Untouched')
  BY <1>3, <1>4, WithFILemma DEF Selected, Untouched
<1> HIDE DEF i
<1> QED BY <1>1, <1>5, SelectStep, SelectedSingle DEF frameVars, Untouched

(* Selecting a load writes the register of its value.                      *)
LEMMA SelectLoadInv ==
    ASSUME SelectedInv, SelectLoad PROVE CodegenInv'
<1> DEFINE s == Head(todo)
           i == LW(VReg(s.dst), VReg(s.ptr))
<1>1. /\ pass = "isel" /\ todo # <<>> /\ s.op = "load" /\ Select(<<i>>)
      /\ UNCHANGED frameVars
  BY DEF SelectLoad, Selecting
<1>2. s.dst \in SSAValue /\ s.ptr \in SSAValue
  <2>1. s \in Statement
    BY <1>1, TodoLemma DEF SelectedInv
  <2> QED BY <1>1, <2>1 DEF Statement
<1>3. i \in Selected(FrameIndices, Untouched')
  BY <1>2, VRegLemma, OpcodeLemma, SelectedInstr, SelectedAny DEF LW, NoReg
<1> HIDE DEF i
<1> QED BY <1>1, <1>3, SelectStep, SelectedSingle DEF frameVars, Untouched

(* Selecting a store writes no register.                                   *)
LEMMA SelectStoreInv ==
    ASSUME SelectedInv, SelectStore PROVE CodegenInv'
<1> DEFINE s == Head(todo)
           i == SW(VReg(s.val), VReg(s.ptr))
<1>1. /\ pass = "isel" /\ todo # <<>> /\ s.op = "store" /\ Select(<<i>>)
      /\ UNCHANGED frameVars
  BY DEF SelectStore, Selecting
<1>2. s.val \in SSAValue /\ s.ptr \in SSAValue
  <2>1. s \in Statement
    BY <1>1, TodoLemma DEF SelectedInv
  <2> QED BY <1>1, <2>1 DEF Statement
<1>3. i \in Selected(FrameIndices, Untouched')
  BY <1>2, VRegLemma, OpcodeLemma, SelectedInstr, SelectedAny DEF SW, NoReg, X2
<1> HIDE DEF i
<1> QED BY <1>1, <1>3, SelectStep, SelectedSingle DEF frameVars, Untouched

(* Starting a block writes no register.                                    *)
LEMMA StartBlockInv ==
    ASSUME SelectedInv, StartBlock PROVE CodegenInv'
<1> DEFINE s == Head(todo)
           i == LABEL(s.block)
<1>1. /\ pass = "isel" /\ todo # <<>> /\ s.op = "label" /\ Select(<<i>>)
      /\ UNCHANGED frameVars
  BY DEF StartBlock, Selecting
<1>2. s.block \in Int
  <2>1. s \in Statement
    BY <1>1, TodoLemma DEF SelectedInv
  <2> QED BY <1>1, <2>1 DEF Statement, Block
<1>3. i \in Selected(FrameIndices, Untouched')
  BY <1>2, LABELLemma, SelectedAny
<1> HIDE DEF i
<1> QED BY <1>1, <1>3, SelectStep, SelectedSingle DEF frameVars, Untouched

(* A branch, or the fall through to the next block, writes no register.    *)
LEMMA SelectBRInv ==
    ASSUME SelectedInv, SelectBR PROVE CodegenInv'
<1> DEFINE s == Head(todo)
           i == PseudoBR(s.to)
           instrs == IF Follows(s.to) THEN <<>> ELSE <<i>>
<1>1. /\ pass = "isel" /\ todo # <<>> /\ s.op = "br" /\ Select(instrs)
      /\ UNCHANGED frameVars
  BY DEF SelectBR, Selecting
<1>2. s.to \in Int
  <2>1. s \in Statement
    BY <1>1, TodoLemma DEF SelectedInv
  <2> QED BY <1>1, <2>1 DEF Statement, Block
<1>3. i \in Selected(FrameIndices, Untouched')
  BY <1>2, PseudoBRLemma, SelectedAny
<1> HIDE DEF i
<1>4. instrs \in Seq(Selected(FrameIndices, Untouched'))
  BY <1>3, SelectedSingle
<1> HIDE DEF instrs
<1> QED BY <1>1, <1>4, SelectStep DEF frameVars, Untouched

(* A conditional branch writes nothing.                                    *)
LEMMA BranchInstrLemma ==
    ASSUME NEW A, NEW opc \in Branches, NEW rs1 \in Int, NEW rs2 \in Int,
           NEW blk \in Int
    PROVE  Branch(opc, rs1, rs2, blk) \in Selected(A, {X2})
<1> DEFINE b == Instr(opc, NoReg, rs1, rs2, 0)
<1>1. b \in Selected(A, {X2})
  BY OpcodeLemma, SelectedInstr DEF NoReg, X2
<1> HIDE DEF b
<1>2. [b EXCEPT !.sym = blk] \in Selected(A, {X2})
  BY <1>1, SelectedSym
<1> QED BY <1>2 DEF Branch, b

(* The operands may be exchanged and the condition inverted; the branch    *)
(* compares registers and writes none.                                     *)
LEMMA SelectBR_CCInv ==
    ASSUME SelectedInv, SelectBR_CC PROVE CodegenInv'
<1> DEFINE s == Head(todo)
           cc == IF Follows(s.to) THEN Inverted[s.cc] ELSE s.cc
           n == LoweredBR_CC(cc, VReg(s.a), VReg(s.b))
           dests == IF Follows(s.to) THEN <<s.else, s.to>> ELSE <<s.to, s.else>>
           i == Branch(BranchOpcode[n.cc], n.lhs, n.rhs, dests[1])
           j == PseudoBR(dests[2])
           A == Selected(FrameIndices, {X2})
           B == Selected(FrameIndices, Untouched')
<1>1. /\ pass = "isel" /\ todo # <<>> /\ s.op = "br_cc" /\ Select(<<i, j>>)
      /\ n.cc \in DOMAIN BranchOpcode
      /\ UNCHANGED frameVars
  BY DEF SelectBR_CC, Selecting
<1>2. s.a \in SSAValue /\ s.b \in SSAValue /\ s.to \in Int /\ s.else \in Int
  <2>1. s \in Statement
    BY <1>1, TodoLemma DEF SelectedInv
  <2> QED BY <1>1, <2>1 DEF Statement, Block
<1>3. dests[1] \in Int /\ dests[2] \in Int
  BY <1>2
<1>4. n.lhs \in Int /\ n.rhs \in Int
  BY <1>2, VRegLemma DEF LoweredBR_CC, Node
<1>5. BranchOpcode[n.cc] \in Branches
  BY <1>1 DEF Branches
<1> HIDE DEF n, dests, s
<1>6. i \in A /\ j \in A
  BY <1>3, <1>4, <1>5, BranchInstrLemma, PseudoBRLemma
<1> HIDE DEF i, j
<1>7. i \in B /\ j \in B
  BY <1>6, SelectedAny
<1>8. <<i, j>> \in Seq(B)
  BY <1>7
<1> HIDE DEF A, B
<1> QED BY <1>1, <1>8, SelectStep DEF frameVars, Untouched, B

(* The one place where selected code writes SP: the frame has an object of *)
(* variable size from here on.                                             *)
LEMMA ExpandDynamicStackAllocInv ==
    ASSUME SelectedInv, ExpandDynamicStackAlloc PROVE CodegenInv'
<1> DEFINE s == Head(todo)
           i1 == ADJCALLSTACKDOWN(0)
           i2 == COPY(Temp(1), X2)
           i3 == SUB(VReg(s.dst), Temp(1), VReg(s.bytes))
           i4 == COPY(X2, VReg(s.dst))
           i5 == ADJCALLSTACKUP(0)
           B == Selected(FrameIndices, Untouched')
<1>1. /\ pass = "isel" /\ todo # <<>> /\ s.op = "alloca"
      /\ Select(<<i1, i2, i3, i4, i5>>)
      /\ varSized' = TRUE /\ UNCHANGED <<objs, fixed>>
  BY DEF ExpandDynamicStackAlloc, Selecting, CreateVariableSizedObject
<1>2. s.dst \in SSAValue /\ s.bytes \in SSAValue
  <2>1. s \in Statement
    BY <1>1, TodoLemma DEF SelectedInv
  <2> QED BY <1>1, <2>1 DEF Statement
<1>3. Temp(1) \in Int
  BY <1>1, TempLemma DEF SelectedInv
<1>4. VReg(s.dst) \in Int /\ VReg(s.bytes) \in Int
  BY <1>2, VRegLemma
<1>5. \A i \in Instruction : i.fi = 0 => i \in B
  BY <1>1 DEF Selected, Untouched
<1> HIDE DEF s
<1>6. i1 \in B /\ i2 \in B /\ i3 \in B /\ i4 \in B /\ i5 \in B
  <2> HIDE DEF B
  <2>1. i1 \in B /\ i5 \in B
    BY <1>5, OpcodeLemma, InstrLemma DEF ADJCALLSTACKDOWN, ADJCALLSTACKUP, NoReg
  <2>2. i2 \in B /\ i4 \in B
    BY <1>3, <1>4, <1>5, OpcodeLemma, InstrLemma DEF COPY, NoReg, X2
  <2>3. i3 \in B
    BY <1>3, <1>4, <1>5, OpcodeLemma, InstrLemma DEF SUB
  <2> QED BY <2>1, <2>2, <2>3
<1> HIDE DEF i1, i2, i3, i4, i5, B
<1>7. <<i1, i2, i3, i4, i5>> \in Seq(B)
  BY <1>6
<1>8. Untouched' \subseteq Untouched
  BY <1>1 DEF Untouched
<1> QED BY <1>1, <1>7, <1>8, SelectStep DEF B

(* Results are returned in X10 and X11.                                    *)
LEMMA LowerReturnInv ==
    ASSUME SelectedInv, LowerReturn PROVE CodegenInv'
<1> DEFINE s == Head(todo)
           vals == s.vals
           uses == {X1} \cup {RetCC_RV32I(k) : k \in 1 .. Len(vals)}
           c == [k \in 1 .. Len(vals) |-> COPY(RetCC_RV32I(k), VReg(vals[k]))]
           r == PseudoRET(uses)
           A == Selected(FrameIndices, {X2})
           B == Selected(FrameIndices, Untouched')
<1>1. /\ pass = "isel" /\ todo # <<>> /\ s.op = "ret" /\ Select(c \o <<r>>)
      /\ UNCHANGED frameVars
  BY DEF LowerReturn, Selecting
<1>2. vals \in Seq(SSAValue)
  <2>1. s \in Statement
    BY <1>1, TodoLemma DEF SelectedInv
  <2> QED BY <1>1, <2>1 DEF Statement
<1> HIDE DEF s
<1>3. Len(vals) \in Nat /\ \A k \in 1 .. Len(vals) : vals[k] \in SSAValue
  BY <1>2
<1>4. \A k \in 1 .. Len(vals) : RetCC_RV32I(k) \in Int /\ RetCC_RV32I(k) # X2
  BY <1>3 DEF RetCC_RV32I, X10, X2
<1> HIDE DEF vals
<1>5. \A k \in 1 .. Len(vals) : c[k] \in B
  <2> SUFFICES ASSUME NEW k \in 1 .. Len(vals)
               PROVE  COPY(RetCC_RV32I(k), VReg(vals[k])) \in B
    OBVIOUS
  <2>1. COPY(RetCC_RV32I(k), VReg(vals[k])) \in A
    <3>1. VReg(vals[k]) \in Int
      BY <1>3, VRegLemma
    <3>2. RetCC_RV32I(k) \in Int /\ RetCC_RV32I(k) # X2
      BY <1>4
    <3> HIDE DEF A
    <3> QED BY <3>1, <3>2, ConstructorLemma DEF A
  <2> QED BY <2>1, SelectedAny
<1>6. c \in Seq(B)
  BY <1>3, <1>5
<1>7. r \in B
  <2> DEFINE b == Instr("PseudoRET", NoReg, NoReg, NoReg, 0)
  <2>1. b \in A
    BY OpcodeLemma, SelectedInstr DEF NoReg, X2
  <2>2. uses \in SUBSET Int
    BY <1>4 DEF X1
  <2> HIDE DEF b, uses
  <2>3. [b EXCEPT !.implicit = uses] \in A
    BY <2>1, <2>2, SelectedImplicit
  <2>4. r \in A
    BY <2>3 DEF PseudoRET, b
  <2> QED BY <2>4, SelectedAny
<1> HIDE DEF c, r, B
<1>8. c \o <<r>> \in Seq(B)
  <2>1. <<r>> \in Seq(B)
    BY <1>7
  <2> QED BY <1>6, <2>1, Concatenation
<1> QED BY <1>1, <1>8, SelectStep DEF frameVars, Untouched, B

(* The blocks that are left are statements that were left.                 *)
LEMMA OtherBlocksLemma ==
    ASSUME NEW X, todo \in Seq(StatementOf(X))
    PROVE  OtherBlocks \in Seq(StatementOf(X))
<1> DEFINE labels == {k \in DOMAIN todo : todo[k].op = "label"}
<1>1. CASE labels = {}
  <2>1. OtherBlocks = <<>>
    BY <1>1 DEF OtherBlocks
  <2> QED BY <2>1
<1>2. CASE labels # {}
  <2>1. DOMAIN todo = 1 .. Len(todo) /\ Len(todo) \in Nat
    OBVIOUS
  <2>2. labels \in SUBSET Nat
    BY <2>1
  <2> DEFINE m == Min(labels)
  <2>3. m \in labels
    <3> HIDE DEF labels
    <3> QED BY <1>2, <2>2, MinIn
  <2>4. m \in 1 .. Len(todo)
    BY <2>1, <2>3
  <2>5. OtherBlocks = SubSeq(todo, m, Len(todo))
    BY <1>2 DEF OtherBlocks
  <2> HIDE DEF m
  <2> QED BY <2>1, <2>4, <2>5
<1> QED BY <1>1, <1>2

(* A call writes argument registers and scratch values, copies the results *)
(* to virtual registers, and never writes SP.                              *)
LEMMA LowerCallInv ==
    ASSUME SelectedInv, LowerCall PROVE CodegenInv'
<1> DEFINE s == Head(todo)
           n == Len(s.args)
           Loc(i) == CC_RV32I(i).loc
           InReg == {i \in 1 .. n : CC_RV32I(i).isReg}
           Stored(i) == <<COPY(Temp(2 * i), X2),
                          ADDI(Temp(2 * i + 1), Temp(2 * i), Loc(i)),
                          SW(VReg(s.args[i]), Temp(2 * i + 1))>>
           Passed(i) == <<COPY(Loc(i), VReg(s.args[i]))>>
           Result(k) == COPY(VReg(s.dsts[k]), RetCC_RV32I(k))
           down == ADJCALLSTACKDOWN(StackBytes(n))
           stored == [i \in 1 .. n |-> IF i \in InReg THEN <<>> ELSE Stored(i)]
           passed == [i \in 1 .. n |-> IF i \in InReg THEN Passed(i) ELSE <<>>]
           uses == {Loc(i) : i \in InReg}
           call == PseudoCALL(s.fn, uses)
           up == ADJCALLSTACKUP(StackBytes(n))
           results == IF s.tail THEN <<>>
                      ELSE [k \in 1 .. Len(s.dsts) |-> Result(k)]
           A == Selected(FrameIndices, {X2})
           B == Selected(FrameIndices, Untouched')
<1>1. /\ pass = "isel" /\ todo # <<>> /\ s.op = "call"
      /\ UNCHANGED <<objs, fixed, varSized, prog, cur, pass>>
  BY DEF LowerCall, Selecting, NoteCallFrame
<1>2. code' = code \o <<down>> \o FlattenSeq(stored) \o FlattenSeq(passed)
                   \o <<call, up>> \o results
  BY DEF LowerCall
<1>3. todo' = IF s.tail THEN OtherBlocks ELSE Tail(todo)
  BY DEF LowerCall
<1>4. /\ s.args \in Seq(SSAValue) /\ s.dsts \in Seq(SSAValue)
      /\ s.fn \in Int
  <2>1. s \in Statement
    BY <1>1, TodoLemma DEF SelectedInv
  <2> QED BY <1>1, <2>1 DEF Statement
<1>5. /\ n \in Nat /\ \A i \in 1 .. n : s.args[i] \in SSAValue
      /\ Len(s.dsts) \in Nat /\ \A k \in 1 .. Len(s.dsts) : s.dsts[k] \in SSAValue
  BY <1>4
<1>6. /\ code \in Seq(Selected(FrameIndices, Untouched))
      /\ todo \in Seq(StatementOf(DOMAIN objs))
  BY <1>1 DEF SelectedInv
<1>7. code \in Seq(B)
  <2>1. Untouched' = Untouched
    BY <1>1 DEF Untouched
  <2> QED BY <1>6, <2>1
<1>8. \A i \in 1 .. n : /\ Loc(i) \in Int
                        /\ i \in InReg => Loc(i) # X2
  BY <1>5 DEF CC_RV32I, RegLoc, MemLoc, NumArgRegs, X10, X2
<1> HIDE DEF s
<1>9. \A i \in 1 .. n : stored[i] \in Seq(B)
  <2> SUFFICES ASSUME NEW i \in 1 .. n PROVE Stored(i) \in Seq(B)
    OBVIOUS
  <2>1. 2 * i \in Nat /\ 2 * i + 1 \in Nat
    BY <1>5
  <2>2. /\ Temp(2 * i) \in Int /\ Temp(2 * i) # X2
        /\ Temp(2 * i + 1) \in Int /\ Temp(2 * i + 1) # X2
    BY <1>7, <2>1, TempLemma
  <2>3. VReg(s.args[i]) \in Int /\ Loc(i) \in Int /\ X2 \in Int
    BY <1>5, <1>8, VRegLemma DEF X2
  <2> HIDE DEF A, B, Loc
  <2>4. /\ COPY(Temp(2 * i), X2) \in A
        /\ ADDI(Temp(2 * i + 1), Temp(2 * i), Loc(i)) \in A
        /\ SW(VReg(s.args[i]), Temp(2 * i + 1)) \in A
    BY <2>2, <2>3, ConstructorLemma DEF A
  <2>5. \A x \in A : x \in B
    BY SelectedAny DEF A, B
  <2> QED BY <2>4, <2>5
<1>10. \A i \in 1 .. n : passed[i] \in Seq(B)
  <2> SUFFICES ASSUME NEW i \in InReg PROVE Passed(i) \in Seq(B)
    OBVIOUS
  <2>1. VReg(s.args[i]) \in Int /\ Loc(i) \in Int /\ Loc(i) # X2
    BY <1>5, <1>8, VRegLemma
  <2> HIDE DEF A, B, Loc
  <2>2. COPY(Loc(i), VReg(s.args[i])) \in A
    BY <2>1, ConstructorLemma DEF A
  <2>3. \A x \in A : x \in B
    BY SelectedAny DEF A, B
  <2> QED BY <2>2, <2>3
<1>11. down \in B /\ up \in B
  <2>1. StackBytes(n) \in Int
    <3>1. n \in Nat
      BY <1>5
    <3> HIDE DEF n
    <3>2. StackBytes(n) \in Nat
      BY <3>1, StackBytesLemma
    <3> QED BY <3>2
  <2>2. down \in A /\ up \in A
    BY <2>1, ConstructorLemma
  <2> QED BY <2>2, SelectedAny
<1>12. call \in B
  <2> DEFINE b == Instr("PseudoCALL", NoReg, NoReg, NoReg, 0)
             c == [b EXCEPT !.sym = s.fn]
  <2>1. b \in A
    BY OpcodeLemma, SelectedInstr DEF NoReg, X2
  <2>2. uses \in SUBSET Int
    BY <1>8
  <2>3. call = [c EXCEPT !.implicit = uses]
    BY DEF PseudoCALL
  <2> HIDE DEF b, uses, call
  <2>4. c \in A
    BY <1>4, <2>1, SelectedSym
  <2> HIDE DEF c
  <2>5. call \in A
    BY <2>2, <2>3, <2>4, SelectedImplicit
  <2> QED BY <2>5, SelectedAny
<1>13. results \in Seq(B)
  <2>1. ASSUME NEW k \in 1 .. Len(s.dsts) PROVE Result(k) \in B
    <3>1. s.dsts[k] \in SSAValue /\ RetCC_RV32I(k) \in Int
      BY <1>5 DEF RetCC_RV32I, X10
    <3>2. VReg(s.dsts[k]) \in Int /\ VReg(s.dsts[k]) # X2
      BY <3>1, VRegLemma
    <3> HIDE DEF A, B
    <3>3. Result(k) \in A
      BY <3>1, <3>2, ConstructorLemma DEF A
    <3> QED BY <3>3, SelectedAny DEF A, B
  <2> HIDE DEF Result, B
  <2> QED BY <1>5, <2>1
<1> HIDE DEF A, B, n, call, down, up, stored, passed, results
<1>14. stored \in [1 .. n -> Seq(B)] /\ passed \in [1 .. n -> Seq(B)]
  BY <1>9, <1>10 DEF stored, passed
<1>15. FlattenSeq(stored) \in Seq(B) /\ FlattenSeq(passed) \in Seq(B)
  BY <1>5, <1>14, Flattened
<1>16. <<down>> \in Seq(B) /\ <<call, up>> \in Seq(B)
  BY <1>11, <1>12
<1>17. code' \in Seq(B)
  <2>1. code \o <<down>> \in Seq(B)
    BY <1>7, <1>16, Concatenation
  <2>2. code \o <<down>> \o FlattenSeq(stored) \in Seq(B)
    BY <1>15, <2>1, Concatenation
  <2>3. code \o <<down>> \o FlattenSeq(stored) \o FlattenSeq(passed) \in Seq(B)
    BY <1>15, <2>2, Concatenation
  <2>4. code \o <<down>> \o FlattenSeq(stored) \o FlattenSeq(passed)
             \o <<call, up>> \in Seq(B)
    BY <1>16, <2>3, Concatenation
  <2>5. code \o <<down>> \o FlattenSeq(stored) \o FlattenSeq(passed)
             \o <<call, up>> \o results \in Seq(B)
    BY <1>13, <2>4, Concatenation
  <2> QED BY <1>2, <2>5
<1>18. todo' \in Seq(StatementOf(DOMAIN objs))
  BY <1>1, <1>3, <1>6, TodoLemma, OtherBlocksLemma
<1>19. FrameIndices' = FrameIndices
  BY <1>1 DEF FrameIndices
<1> QED BY <1>1, <1>17, <1>18, <1>19, BeforeLayout DEF B

(* A value passed in memory is read from the fixed object created for it.  *)
LEMMA LowerFormalArgumentsInv ==
    ASSUME SelectedInv, FrameTypeOK, LowerFormalArguments PROVE CodegenInv'
<1> DEFINE n == Fn.args
           Addr(i) == WithFI(ADDI(Temp(i), NoReg, 0),
                             -(CC_RV32I(i).loc \div 4 + 1))
           Incoming(i) == IF CC_RV32I(i).isReg
                          THEN <<COPY(VReg(i), CC_RV32I(i).loc)>>
                          ELSE <<Addr(i), LW(VReg(i), Temp(i))>>
           f == [i \in 1 .. n |-> Incoming(i)]
           A == Selected(FrameIndices', {X2})
           B == Selected(FrameIndices', Untouched')
<1>1. /\ pass = "args" /\ n \in ArgCounts /\ pass' = "isel"
      /\ fixed' = StackBytes(n) \div 4
      /\ UNCHANGED <<prog, cur, todo, objs, varSized>>
  BY DEF LowerFormalArguments, CreateFixedObjects
<1>2. code' = FlattenSeq(f)
  BY Zenon DEF LowerFormalArguments
<1>3. n \in Nat
  BY <1>1, ArgCountsAssumption
<1>4. code \in Seq(Int) /\ todo \in Seq(StatementOf(DOMAIN objs))
  BY <1>1 DEF SelectedInv
<1> HIDE DEF n
<1>5. \A i \in 1 .. n : f[i] \in Seq(B)
  <2> SUFFICES ASSUME NEW i \in 1 .. n PROVE Incoming(i) \in Seq(B)
    OBVIOUS
  <2>1. i \in Nat /\ i \in SSAValue
    BY <1>3 DEF SSAValue
  <2>2. VReg(i) \in Int /\ VReg(i) # X2 /\ Temp(i) \in Int /\ Temp(i) # X2
    BY <1>4, <2>1, VRegLemma, TempLemma
  <2>3. \A x \in A : x \in B
    BY SelectedAny DEF Selected, Untouched
  <2>4. CASE i <= NumArgRegs
    <3>1. CC_RV32I(i).isReg /\ CC_RV32I(i).loc \in Int
      BY <2>1, <2>4 DEF CC_RV32I, RegLoc, X10
    <3>2. COPY(VReg(i), CC_RV32I(i).loc) \in A
      BY <2>2, <3>1, ConstructorLemma
    <3> HIDE DEF A, B
    <3> QED BY <2>3, <3>1, <3>2
  <2>5. CASE ~ (i <= NumArgRegs)
    <3>1. ~CC_RV32I(i).isReg /\ CC_RV32I(i).loc = 4 * (i - 9)
      BY <2>1, <2>5 DEF CC_RV32I, MemLoc, NumArgRegs
    <3>2. CC_RV32I(i).loc \div 4 + 1 = i - 8
      <4>1. i - 9 \in Nat
        BY <2>1, <2>5 DEF NumArgRegs
      <4> QED BY <2>1, <3>1, <4>1
    <3>3. fixed' = n - 8
      BY <1>1, <1>3, <2>1, <2>5 DEF StackBytes, NumArgRegs
    <3>4. -(i - 8) \in FrameIndices' /\ -(i - 8) \in Int
      <4>1. i - 8 \in 1 .. fixed'
        BY <1>3, <2>1, <2>5, <3>3 DEF NumArgRegs
      <4> QED BY <4>1, <2>1 DEF FrameIndices
    <3> DEFINE b == ADDI(Temp(i), NoReg, 0)
    <3>5. b \in Instruction /\ b.rd # X2
      BY <2>2, OpcodeLemma, InstrLemma DEF ADDI, NoReg
    <3> HIDE DEF b
    <3>6. WithFI(b, -(i - 8)) \in A
      BY <3>4, <3>5, WithFILemma DEF Selected
    <3>7. Addr(i) \in A
      BY <3>2, <3>6 DEF b
    <3>8. LW(VReg(i), Temp(i)) \in A
      BY <2>2, ConstructorLemma
    <3> HIDE DEF A, B, Addr
    <3> QED BY <2>3, <3>1, <3>7, <3>8
  <2> QED BY <2>4, <2>5
<1> HIDE DEF f, B
<1>6. f \in [1 .. n -> Seq(B)]
  BY <1>5 DEF f
<1>7. code' \in Seq(B)
  BY <1>2, <1>3, <1>6, Flattened
<1> QED BY <1>1, <1>4, <1>7, BeforeLayout DEF B

(* The selected code is what the register allocator starts from.           *)
LEMMA FinishISelInv ==
    ASSUME SelectedInv, FinishISel PROVE CodegenInv'
BY DEF FinishISel, SelectedInv, FramedInv, CodegenInv, frameVars,
       FrameIndices, Untouched

(* The addresses a function takes are those of its own objects.            *)
LEMMA BeginFunctionInv ==
    ASSUME SelectedInv, FrameTypeOK, BeginFunction PROVE CodegenInv'
<1>1. /\ pass = "alloca" /\ Fn.slots \in NewObjects
      /\ objs' = objs \o Fn.slots /\ pass' = "args" /\ todo' = Fn.body
      /\ UNCHANGED <<prog, cur, code>>
  BY DEF BeginFunction, CreateStackObjects
<1>2. prog \in Programs /\ cur \in DOMAIN prog /\ code = <<>>
  BY <1>1 DEF SelectedInv
<1>3. Fn \in Function
  BY <1>2, ProgramsAssumption DEF Fn
<1>4. Fn.body \in Seq(Statement) /\ Fn.slots \in Seq(Object)
  BY <1>3 DEF Function
<1>5. DOMAIN Fn.slots \subseteq DOMAIN objs'
  <2>1. objs \in Seq(Object)
    BY DEF FrameTypeOK
  <2>2. Len(objs') = Len(objs) + Len(Fn.slots) /\ objs' \in Seq(Object)
    BY <1>1, <1>4, <2>1, Concatenation
  <2>3. /\ Len(objs) \in Nat /\ Len(Fn.slots) \in Nat
        /\ DOMAIN Fn.slots = 1 .. Len(Fn.slots)
        /\ DOMAIN objs' = 1 .. Len(objs')
    BY <1>4, <2>1, <2>2
  <2> QED BY <2>2, <2>3
<1>6. \A k \in DOMAIN Fn.body :
        Fn.body[k].op = "addr" => Fn.body[k].slot \in DOMAIN objs'
  BY <1>2, <1>5, ProgramsAssumption DEF Fn
<1>7. Fn.body \in Seq(StatementOf(DOMAIN objs'))
  <2> DEFINE b == Fn.body
  <2>1. /\ b \in Seq(Statement)
        /\ \A k \in DOMAIN b : b[k].op = "addr" => b[k].slot \in DOMAIN objs'
    BY <1>4, <1>6
  <2> HIDE DEF b
  <2>2. Len(b) \in Nat /\ \A k \in 1 .. Len(b) : b[k] \in StatementOf(DOMAIN objs')
    BY <2>1 DEF StatementOf
  <2>3. b \in Seq(StatementOf(DOMAIN objs'))
    BY <2>1, <2>2
  <2> QED BY <2>3 DEF b
<1> QED BY <1>1, <1>2, <1>7 DEF SelectedInv, FramedInv, CodegenInv
-----------------------------------------------------------------------------
(* Register allocation.                                                    *)

(* Defs lists places in the code.                                          *)
LEMMA DefsLemma ==
    ASSUME NEW S, code \in Seq(S)
    PROVE  Defs \in Seq(Nat)
<1> DEFINE f == [p \in DOMAIN code |->
                   IF IsVirtual(code[p].rd) THEN <<p>> ELSE <<>>]
<1>1. DOMAIN code = 1 .. Len(code) /\ Len(code) \in Nat
  OBVIOUS
<1>2. f \in [1 .. Len(code) -> Seq(Nat)]
  BY <1>1
<1>3. Defs = FlattenSeq(f)
  BY DEF Defs
<1> HIDE DEF f
<1> QED BY <1>1, <1>2, <1>3, Flattened

(* What takes a register takes an allocatable one, whatever the order and  *)
(* whatever is spilled.                                                    *)
LEMMA AssignmentLemma ==
    ASSUME NEW S, code \in Seq(S), NEW order \in Seq(GPR), NEW spilled
    PROVE  \A x \in Assignment(order, spilled) :
             x.val = NoReg \/ x.reg \in Allocatable
<1> DEFINE Free(x, taken) ==
             {k \in DOMAIN order :
                /\ order[k] \in Allocatable
                /\ \A y \in taken : y.reg = order[k] => ~Overlap(x, y)}
           Take(taken, p) ==
             LET x == LiveRange(p)
                 free == Free(x, taken)
             IN  IF x.val \in spilled \/ free = {} THEN taken
                 ELSE taken \cup {[x EXCEPT !.reg = order[Min(free)]]}
           Good(t) == \A x \in t : x.val = NoReg \/ x.reg \in Allocatable
           Step(t, k) == Take(t, Defs[k])
<1>1. Good(Occupied)
  <2> SUFFICES ASSUME NEW x \in Occupied PROVE x.val = NoReg
    OBVIOUS
  <2>1. \E r, a, b : x = Span(r, a, b, NoReg)
    BY Zenon DEF Occupied
  <2> QED BY <2>1 DEF Span
<1>2. ASSUME NEW t, Good(t), NEW p PROVE Good(Take(t, p))
  <2> DEFINE x == LiveRange(p)
             free == Free(x, t)
             y == [x EXCEPT !.reg = order[Min(free)]]
  <2>1. CASE x.val \in spilled \/ free = {}
    BY <1>2, <2>1
  <2>2. CASE ~ (x.val \in spilled \/ free = {})
    <3>1. free \in SUBSET Nat
      OBVIOUS
    <3>2. Min(free) \in free
      <4> HIDE DEF free
      <4> QED BY <2>2, <3>1, MinIn
    <3>3. order[Min(free)] \in Allocatable
      BY <3>2
    <3>4. y.reg = order[Min(free)]
      BY DEF LiveRange, Span
    <3>5. Take(t, p) = t \cup {y}
      BY <2>2
    <3> HIDE DEF y, Take, free, x
    <3> QED BY <1>2, <3>3, <3>4, <3>5
  <2> QED BY <2>1, <2>2
<1> HIDE DEF Take
<1>3. \A t, k : Good(t) => Good(Step(t, k))
  BY <1>2
<1>4. PICK m \in Nat : DOMAIN Defs = 1 .. m
  <2>1. Defs \in Seq(Nat)
    BY DefsLemma
  <2> QED BY <2>1
<1> DEFINE Is(g, n) ==
             g = [s \in SUBSET (1 .. n) |->
                    IF s = {} THEN Occupied
                    ELSE Step(g[s \ {Max(s)}], Max(s))]
           T == {n \in Nat : \E g : Is(g, n)}
           iter[s \in SUBSET DOMAIN Defs] ==
             IF s = {} THEN Occupied ELSE Step(iter[s \ {Max(s)}], Max(s))
<1>5. Assignment(order, spilled) = iter[DOMAIN Defs]
  BY Zenon DEF Assignment, FoldLeft, MapThenFoldSet, Take, Step, Free
<1> HIDE DEF Step, Good, iter
<1>6. 0 \in T
  <2> DEFINE g == [s \in SUBSET (1 .. 0) |-> Occupied]
  <2>1. SUBSET (1 .. 0) = {{}}
    OBVIOUS
  <2>2. g = [s \in SUBSET (1 .. 0) |->
               IF s = {} THEN Occupied ELSE Step(g[s \ {Max(s)}], Max(s))]
    BY <2>1
  <2> HIDE DEF g
  <2>3. Is(g, 0)
    BY <2>2
  <2> QED BY <2>3
<1>7. ASSUME NEW n \in T PROVE n + 1 \in T
  <2>1. n \in Nat
    OBVIOUS
  <2>2. PICK g : Is(g, n)
    OBVIOUS
  <2> DEFINE h == [s \in SUBSET (1 .. n + 1) |->
                     IF n + 1 \in s THEN Step(g[s \ {n + 1}], n + 1)
                                    ELSE g[s]]
  <2>3. ASSUME NEW s \in SUBSET (1 .. n + 1)
        PROVE  h[s] = IF s = {} THEN Occupied
                      ELSE Step(h[s \ {Max(s)}], Max(s))
    <3>1. CASE n + 1 \in s
      <4>1. Max(s) = n + 1
        <5>1. n + 1 \in Nat /\ s # {}
          BY <2>1, <3>1
        <5>2. Max(s) \in s /\ \A y \in s : Max(s) >= y
          BY <5>1, MaxIn
        <5>3. Max(s) \in 1 .. n + 1 /\ Max(s) >= n + 1
          BY <3>1, <5>2
        <5> QED BY <2>1, <5>3
      <4>2. s \ {n + 1} \in SUBSET (1 .. n)
        BY <2>1
      <4>3. h[s \ {n + 1}] = g[s \ {n + 1}]
        BY <2>1, <4>2
      <4>4. h[s] = Step(g[s \ {n + 1}], n + 1)
        BY <3>1
      <4> HIDE DEF h
      <4> QED BY <3>1, <4>1, <4>3, <4>4
    <3>2. CASE n + 1 \notin s
      <4>1. s \in SUBSET (1 .. n)
        BY <2>1, <3>2
      <4>2. h[s] = g[s]
        BY <3>2
      <4>3. g[s] = IF s = {} THEN Occupied
                   ELSE Step(g[s \ {Max(s)}], Max(s))
        BY <2>2, <4>1
      <4>4. s \ {Max(s)} \in SUBSET (1 .. n + 1) /\ n + 1 \notin s \ {Max(s)}
        BY <3>2
      <4>5. h[s \ {Max(s)}] = g[s \ {Max(s)}]
        BY <4>4
      <4> HIDE DEF h
      <4> QED BY <4>2, <4>3, <4>5
    <3> QED BY <3>1, <3>2
  <2>4. h = [s \in SUBSET (1 .. n + 1) |->
               IF s = {} THEN Occupied ELSE Step(h[s \ {Max(s)}], Max(s))]
    <3>1. h = [s \in SUBSET (1 .. n + 1) |-> h[s]]
      OBVIOUS
    <3> HIDE DEF h
    <3> QED BY <2>3, <3>1
  <2> HIDE DEF h
  <2>5. Is(h, n + 1)
    BY <2>4
  <2>6. \E e : Is(e, n + 1)
    BY <2>5
  <2>7. n + 1 \in Nat
    BY <2>1
  <2> QED BY <2>6, <2>7
<1>8. m \in T
  <2>1. T \in SUBSET Nat
    OBVIOUS
  <2> HIDE DEF T
  <2> QED BY <1>6, <1>7, <2>1, NatInduct
<1>9. PICK g : Is(g, m)
  BY <1>8
<1>10. iter = [s \in SUBSET (1 .. m) |->
                 IF s = {} THEN Occupied
                 ELSE Step(iter[s \ {Max(s)}], Max(s))]
  BY <1>4, <1>9 DEF iter
<1> DEFINE U == {n \in Nat : n <= m => \A s \in SUBSET (1 .. n) : Good(iter[s])}
<1>11. 0 \in U
  <2>1. ASSUME NEW s \in SUBSET (1 .. 0) PROVE Good(iter[s])
    <3>1. s = {} /\ s \in SUBSET (1 .. m)
      OBVIOUS
    <3>2. iter[s] = Occupied
      BY <1>10, <3>1
    <3> QED BY <1>1, <3>2
  <2> QED BY <2>1
<1>12. ASSUME NEW n \in U PROVE n + 1 \in U
  <2>1. n \in Nat
    OBVIOUS
  <2> SUFFICES ASSUME n + 1 <= m, NEW s \in SUBSET (1 .. n + 1)
               PROVE  Good(iter[s])
    BY <2>1
  <2>2. \A r \in SUBSET (1 .. n) : Good(iter[r])
    BY <2>1
  <2>3. s \in SUBSET (1 .. m)
    BY <2>1
  <2>4. CASE s = {}
    <3>1. iter[s] = Occupied
      BY <1>10, <2>3, <2>4
    <3> QED BY <1>1, <3>1
  <2>5. CASE s # {}
    <3>1. Max(s) \in s /\ \A y \in s : Max(s) >= y
      BY <2>1, <2>5, MaxIn
    <3>2. iter[s] = Step(iter[s \ {Max(s)}], Max(s))
      BY <1>10, <2>3, <2>5
    <3>3. s \ {Max(s)} \in SUBSET (1 .. n)
      <4>1. ASSUME NEW y \in s \ {Max(s)} PROVE y \in 1 .. n
        <5>1. y \in 1 .. n + 1 /\ Max(s) \in 1 .. n + 1 /\ Max(s) >= y
              /\ y # Max(s)
          BY <3>1
        <5> QED BY <2>1, <5>1
      <4> QED BY <4>1
    <3>4. Good(iter[s \ {Max(s)}])
      BY <2>2, <3>3
    <3> QED BY <1>3, <3>2, <3>4
  <2> QED BY <2>4, <2>5
<1>13. m \in U
  <2>1. U \in SUBSET Nat
    OBVIOUS
  <2> HIDE DEF U
  <2> QED BY <1>11, <1>12, <2>1, NatInduct
<1>14. Good(iter[1 .. m])
  BY <1>13
<1> QED BY <1>4, <1>5, <1>14 DEF Good

(* SP is reserved.                                                         *)
LEMMA AllocatableLemma == Allocatable \subseteq Int \ {X2}
BY DEF Allocatable, GPR, ReservedRegs, X0, X2

(* The operands of an instruction are replaced by registers that are not   *)
(* SP, with reloads and a store that refer to spill slots.                 *)
LEMMA RewrittenLemma ==
    ASSUME NEW F \in SUBSET Int, FrameIndices \subseteq F,
           NEW i \in Selected(FrameIndices, Untouched), NEW asg, NEW slot,
           \A r \in DOMAIN asg : asg[r] \in Allocatable,
           \A r \in DOMAIN slot : slot[r] \in F
    PROVE  Rewritten(i, asg, slot) \in Seq(Selected(F, Untouched))
<1> DEFINE Phys(r, scratch) == IF ~IsVirtual(r) THEN r
                               ELSE IF r \in DOMAIN asg THEN asg[r] ELSE scratch
           Reload(r, scratch) == IF r \in DOMAIN slot
                                 THEN <<loadRegFromStackSlot(scratch, slot[r])>>
                                 ELSE <<>>
           main == [i EXCEPT !.rd = Phys(@, 30), !.rs1 = Phys(@, 30),
                             !.rs2 = Phys(@, 31)]
           store == IF i.rd \in DOMAIN slot
                    THEN <<storeRegToStackSlot(30, slot[i.rd])>> ELSE <<>>
           B == Selected(F, Untouched)
<1>1. Rewritten(i, asg, slot) =
        Reload(i.rs1, 30) \o Reload(i.rs2, 31) \o <<main>> \o store
  BY DEF Rewritten
<1>2. i \in Instruction /\ i.fi \in F \cup {0} /\ i.rd \notin Untouched
  BY DEF Selected
<1>3. \A r \in Int, scratch \in {30, 31} :
        Phys(r, scratch) \in Int /\ (Phys(r, scratch) = X2 => r = X2)
  <2> SUFFICES ASSUME NEW r \in Int, NEW scratch \in {30, 31}
               PROVE  /\ Phys(r, scratch) \in Int
                      /\ Phys(r, scratch) = X2 => r = X2
    OBVIOUS
  <2>1. CASE ~IsVirtual(r)
    BY <2>1
  <2>2. CASE IsVirtual(r) /\ r \in DOMAIN asg
    <3>1. asg[r] \in Int /\ asg[r] # X2
      BY <2>2, AllocatableLemma
    <3> QED BY <2>2, <3>1
  <2>3. CASE IsVirtual(r) /\ r \notin DOMAIN asg
    BY <2>3 DEF X2
  <2> QED BY <2>1, <2>2, <2>3
<1>4. Untouched \subseteq {X2}
  BY DEF Untouched
<1>5. main \in B
  <2>1. i.rd \in Int /\ i.rs1 \in Int /\ i.rs2 \in Int
    BY <1>2 DEF Instruction
  <2>2. /\ Phys(i.rd, 30) \in Int /\ Phys(i.rs1, 30) \in Int
        /\ Phys(i.rs2, 31) \in Int /\ Phys(i.rd, 30) \notin Untouched
    BY <1>2, <1>3, <1>4, <2>1
  <2> HIDE DEF Phys
  <2>3. main \in Instruction /\ main.fi = i.fi /\ main.rd = Phys(i.rd, 30)
    BY <1>2, <2>2 DEF Instruction
  <2> HIDE DEF main
  <2> QED BY <1>2, <2>2, <2>3 DEF Selected
<1>6. ASSUME NEW r, NEW scratch \in {30, 31} PROVE Reload(r, scratch) \in Seq(B)
  <2>1. CASE r \in DOMAIN slot
    <3> DEFINE b == LW(scratch, NoReg)
    <3>1. b \in Instruction /\ b.rd = scratch
      BY OpcodeLemma, InstrLemma DEF LW, NoReg
    <3> HIDE DEF b
    <3>2. slot[r] \in F /\ slot[r] \in Int
      BY <2>1
    <3>3. scratch \notin Untouched
      BY <1>4 DEF X2
    <3>4. WithFI(b, slot[r]) \in B
      BY <3>1, <3>2, <3>3, WithFILemma DEF Selected
    <3>5. loadRegFromStackSlot(scratch, slot[r]) \in B
      BY <3>4 DEF loadRegFromStackSlot, b
    <3> HIDE DEF B
    <3> QED BY <2>1, <3>5
  <2>2. CASE r \notin DOMAIN slot
    BY <2>2
  <2> QED BY <2>1, <2>2
<1>7. store \in Seq(B)
  <2>1. CASE i.rd \in DOMAIN slot
    <3> DEFINE b == SW(30, NoReg)
    <3>1. b \in Instruction /\ b.rd = NoReg
      BY OpcodeLemma, InstrLemma DEF SW, NoReg
    <3> HIDE DEF b
    <3>2. slot[i.rd] \in F /\ slot[i.rd] \in Int
      BY <2>1
    <3>3. NoReg \notin Untouched
      BY <1>4 DEF X2, NoReg
    <3>4. WithFI(b, slot[i.rd]) \in B
      BY <3>1, <3>2, <3>3, WithFILemma DEF Selected
    <3>5. storeRegToStackSlot(30, slot[i.rd]) \in B
      BY <3>4 DEF storeRegToStackSlot, b
    <3> HIDE DEF B
    <3> QED BY <2>1, <3>5
  <2>2. CASE i.rd \notin DOMAIN slot
    BY <2>2
  <2> QED BY <2>1, <2>2
<1> HIDE DEF Reload, main, store, B
<1>8. <<main>> \in Seq(B)
  BY <1>5
<1>9. Reload(i.rs1, 30) \o Reload(i.rs2, 31) \in Seq(B)
  BY <1>6, Concatenation
<1>10. Reload(i.rs1, 30) \o Reload(i.rs2, 31) \o <<main>> \in Seq(B)
  BY <1>8, <1>9, Concatenation
<1>11. Reload(i.rs1, 30) \o Reload(i.rs2, 31) \o <<main>> \o store \in Seq(B)
  BY <1>7, <1>10, Concatenation
<1> QED BY <1>1, <1>11 DEF B

(* New objects leave the frame indices there are as they were.             *)
LEMMA IndicesGrow ==
    ASSUME FrameTypeOK, NEW new \in Seq(Object), objs' = objs \o new,
           UNCHANGED fixed
    PROVE  /\ FrameIndices \subseteq FrameIndices' /\ FrameIndices' \in SUBSET Int
           /\ \A k \in 1 .. Len(new) : Len(objs) + k \in FrameIndices'
           /\ \A k \in DOMAIN objs : k <= Len(objs)
           /\ Len(objs) \in Nat /\ Len(new) \in Nat
           /\ Len(objs') = Len(objs) + Len(new)
<1>1. objs \in Seq(Object) /\ fixed \in Nat
  BY DEF FrameTypeOK
<1>2. Len(objs') = Len(objs) + Len(new) /\ objs' \in Seq(Object)
  BY <1>1, Concatenation
<1>3. /\ DOMAIN objs = 1 .. Len(objs) /\ DOMAIN objs' = 1 .. Len(objs')
      /\ Len(objs) \in Nat /\ Len(new) \in Nat
  BY <1>1, <1>2
<1>4. DOMAIN objs \subseteq DOMAIN objs'
  BY <1>2, <1>3
<1>5. \A k \in 1 .. Len(new) : Len(objs) + k \in DOMAIN objs'
  BY <1>2, <1>3
<1>6. FrameIndices' = {-k : k \in 1 .. fixed} \cup DOMAIN objs'
  BY DEF FrameIndices
<1>7. FrameIndices' \in SUBSET Int
  BY <1>1, <1>2, <1>3, <1>6
<1>8. FrameIndices \subseteq FrameIndices'
  BY <1>4, <1>6 DEF FrameIndices
<1> QED BY <1>2, <1>3, <1>5, <1>6, <1>7, <1>8

(* Spill slots are new objects, and no value is put into SP.               *)
LEMMA RegAllocInv ==
    ASSUME SelectedInv, FrameTypeOK, RegAlloc PROVE CodegenInv'
<1>1. /\ pass = "regalloc" /\ pass' = "callframes"
      /\ UNCHANGED <<prog, cur, fixed, varSized>>
  BY DEF RegAlloc, CreateStackObjects
<1>2. code \in Seq(Selected(FrameIndices, Untouched))
  BY <1>1 DEF SelectedInv
<1> DEFINE InRegister(taken) == {x.val : x \in taken} \ {NoReg}
           Asg(taken) == [v \in InRegister(taken) |->
                            (CHOOSE x \in taken : x.val = v).reg]
           InMemory(taken) ==
             FlattenSeq([p \in DOMAIN code |->
                           IF /\ IsVirtual(code[p].rd)
                              /\ code[p].rd \notin InRegister(taken)
                           THEN <<p>> ELSE <<>>])
           Slot(mem) == [v \in {code[p].rd : p \in ToSet(mem)} |->
                           Len(objs) + CHOOSE k \in DOMAIN mem :
                                         code[mem[k]].rd = v]
           Slots(mem) == [k \in DOMAIN mem |-> [size |-> 4, align |-> 4]]
<1> DEFINE Done(taken) ==
             /\ Slots(InMemory(taken)) \in NewObjects
             /\ CreateStackObjects(Slots(InMemory(taken)))
             /\ code' = FlattenSeq([p \in DOMAIN code |->
                                      Rewritten(code[p], Asg(taken),
                                                Slot(InMemory(taken)))])
<1>3. \E order \in AllocationOrders, spilled \in {{}, CrossingCalls} :
        \E taken \in {Assignment(order, spilled)} : Done(taken)
  BY Zenon DEF RegAlloc
<1> HIDE DEF Done
<1>4. PICK order, spilled, taken :
        /\ order \in AllocationOrders /\ taken = Assignment(order, spilled)
        /\ Done(taken)
  BY <1>3
<1> DEFINE mem == InMemory(taken)
<1>5. /\ Slots(mem) \in NewObjects
      /\ objs' = objs \o Slots(mem)
      /\ code' = FlattenSeq([p \in DOMAIN code |->
                               Rewritten(code[p], Asg(taken), Slot(mem))])
  BY <1>4, Zenon DEF Done, CreateStackObjects
<1> HIDE DEF mem
<1>6. \A r \in DOMAIN Asg(taken) : Asg(taken)[r] \in Allocatable
  <2>1. \A x \in taken : x.val = NoReg \/ x.reg \in Allocatable
    BY <1>2, <1>4, OrdersAssumption, AssignmentLemma
  <2> SUFFICES ASSUME NEW v \in InRegister(taken)
               PROVE  (CHOOSE x \in taken : x.val = v).reg \in Allocatable
    OBVIOUS
  <2> DEFINE x == CHOOSE x \in taken : x.val = v
  <2>2. v # NoReg /\ \E y \in taken : y.val = v
    OBVIOUS
  <2>3. x \in taken /\ x.val = v
    BY <2>2
  <2> HIDE DEF x
  <2>4. x.reg \in Allocatable
    BY <2>1, <2>2, <2>3
  <2> QED BY <2>4 DEF x
<1> HIDE DEF InMemory, Asg
<1>7. Slots(mem) \in Seq(Object)
  BY <1>5, NewObjectsAssumption
<1>8. DOMAIN mem = 1 .. Len(Slots(mem))
  <2> DEFINE t == Slots(mem)
  <2>1. DOMAIN t = DOMAIN mem
    OBVIOUS
  <2>2. t \in Seq(Object)
    BY <1>7
  <2> HIDE DEF t
  <2>3. DOMAIN t = 1 .. Len(t)
    BY <2>2
  <2> QED BY <2>1, <2>3 DEF t
<1> HIDE DEF Slots
<1>9. /\ FrameIndices \subseteq FrameIndices' /\ FrameIndices' \in SUBSET Int
      /\ \A k \in DOMAIN mem : Len(objs) + k \in FrameIndices'
  BY <1>1, <1>5, <1>7, <1>8, IndicesGrow
<1>10. \A r \in DOMAIN Slot(mem) : Slot(mem)[r] \in FrameIndices'
  <2> SUFFICES ASSUME NEW v \in {code[p].rd : p \in ToSet(mem)}
               PROVE  Len(objs) + (CHOOSE k \in DOMAIN mem :
                                     code[mem[k]].rd = v) \in FrameIndices'
    OBVIOUS
  <2> DEFINE c == CHOOSE k \in DOMAIN mem : code[mem[k]].rd = v
  <2>1. \E k \in DOMAIN mem : code[mem[k]].rd = v
    BY DEF ToSet
  <2>2. c \in DOMAIN mem
    BY <2>1
  <2> HIDE DEF c
  <2>3. Len(objs) + c \in FrameIndices'
    BY <1>9, <2>2
  <2> QED BY <2>3 DEF c
<1> HIDE DEF Slot
<1> DEFINE B == Selected(FrameIndices', Untouched')
           f == [p \in DOMAIN code |->
                   Rewritten(code[p], Asg(taken), Slot(mem))]
<1>11. Untouched' = Untouched
  BY <1>1 DEF Untouched
<1>12. /\ DOMAIN code = 1 .. Len(code) /\ Len(code) \in Nat
       /\ \A p \in DOMAIN code : code[p] \in Selected(FrameIndices, Untouched)
  BY <1>2
<1>13. \A p \in DOMAIN code : f[p] \in Seq(B)
  <2> SUFFICES ASSUME NEW p \in DOMAIN code
               PROVE  Rewritten(code[p], Asg(taken), Slot(mem)) \in Seq(B)
    OBVIOUS
  <2>1. code[p] \in Selected(FrameIndices, Untouched)
    BY <1>12
  <2>2. Rewritten(code[p], Asg(taken), Slot(mem))
          \in Seq(Selected(FrameIndices', Untouched))
    BY <1>6, <1>9, <1>10, <2>1, RewrittenLemma
  <2> QED BY <1>11, <2>2
<1> HIDE DEF B
<1>14. f \in [1 .. Len(code) -> Seq(B)]
  BY <1>12, <1>13
<1>15. code' = FlattenSeq(f)
  BY <1>5
<1> HIDE DEF f
<1>16. code' \in Seq(B)
  BY <1>12, <1>14, <1>15, Flattened
<1> QED BY <1>1, <1>16, BeforeLayout DEF B

(* The call frame is reserved, so that no pseudo becomes an addition to SP.*)
LEMMA EliminateCallFramePseudoInstrsInv ==
    ASSUME SelectedInv, EliminateCallFramePseudoInstrs PROVE CodegenInv'
<1> DEFINE Adjusted(i) ==
             IF i.op \notin {"ADJCALLSTACKDOWN", "ADJCALLSTACKUP"} THEN <<i>>
             ELSE IF hasReservedCallFrame \/ i.imm = 0 THEN <<>>
             ELSE <<ADDI(X2, X2, IF i.op = "ADJCALLSTACKDOWN" THEN -i.imm
                                                              ELSE i.imm)>>
           f == [p \in DOMAIN code |-> Adjusted(code[p])]
           B == Selected(FrameIndices, Untouched)
<1>1. /\ pass = "callframes" /\ pass' = "csr" /\ UNCHANGED frameVars
      /\ UNCHANGED <<prog, cur>>
  BY DEF EliminateCallFramePseudoInstrs
<1>2. code' = FlattenSeq(f)
  BY Zenon DEF EliminateCallFramePseudoInstrs
<1>3. code \in Seq(B)
  BY <1>1 DEF SelectedInv
<1>4. ASSUME NEW i \in B PROVE Adjusted(i) = <<i>> \/ Adjusted(i) = <<>>
  <2>1. CASE i.op \notin {"ADJCALLSTACKDOWN", "ADJCALLSTACKUP"}
    BY <2>1
  <2>2. CASE i.op \in {"ADJCALLSTACKDOWN", "ADJCALLSTACKUP"}
    BY <2>2 DEF hasReservedCallFrame, hasFPImpl
  <2> QED BY <2>1, <2>2
<1> HIDE DEF Adjusted, B
<1>5. /\ DOMAIN code = 1 .. Len(code) /\ Len(code) \in Nat
      /\ \A p \in DOMAIN code : code[p] \in B
  BY <1>3
<1>6. \A p \in DOMAIN code : f[p] \in Seq(B)
  <2> SUFFICES ASSUME NEW p \in DOMAIN code PROVE f[p] \in Seq(B)
    OBVIOUS
  <2>1. f[p] = Adjusted(code[p]) /\ code[p] \in B
    BY <1>5
  <2>2. <<code[p]>> \in Seq(B) /\ <<>> \in Seq(B)
    BY <2>1
  <2> QED BY <1>4, <2>1, <2>2
<1>7. f \in [1 .. Len(code) -> Seq(B)]
  BY <1>5, <1>6
<1> HIDE DEF f
<1>8. code' \in Seq(B)
  BY <1>2, <1>5, <1>7, Flattened
<1>9. FrameIndices' = FrameIndices /\ Untouched' = Untouched
  BY <1>1 DEF frameVars, FrameIndices, Untouched
<1> QED BY <1>1, <1>8, <1>9, BeforeLayout DEF B
-----------------------------------------------------------------------------
(* Callee-saved registers.                                                 *)

(* CSI lists the callee-saved registers that are written, each of them.    *)
LEMMA CSILemma ==
    /\ CSI \in Seq(CSR_RV32I)
    /\ \A r \in Written \cap CSR_RV32I : \E k \in 1 .. Len(CSI) : CSI[k] = r
<1> DEFINE list == CSR_RV32I_SaveList
           f == [k \in DOMAIN list |->
                   IF list[k] \in Written THEN <<list[k]>> ELSE <<>>]
           n == Len(list)
<1>1. DOMAIN list = 1 .. n /\ n \in Nat
  <2> HIDE DEF list
  <2> QED BY SaveListLemma DEF list
<1>2. \A k \in DOMAIN list : list[k] \in CSR_RV32I
  BY DEF CSR_RV32I
<1>3. CSI = FlattenSeq(f)
  BY DEF CSI
<1>4. \A r \in CSR_RV32I : \E k \in DOMAIN list : list[k] = r
  BY DEF CSR_RV32I
<1> HIDE DEF list, n
<1>5. f \in [1 .. n -> Seq(CSR_RV32I)]
  BY <1>1, <1>2
<1>6. \A k \in DOMAIN list : list[k] \in Written => f[k] = <<list[k]>>
  OBVIOUS
<1> HIDE DEF f
<1>7. PICK pos : /\ Len(CSI) = pos[n] /\ CSI \in Seq(CSR_RV32I)
                 /\ Places(f, n, pos, CSI)
  BY <1>1, <1>3, <1>5, Flattened
<1>8. ASSUME NEW r \in Written \cap CSR_RV32I
      PROVE  \E k \in 1 .. Len(CSI) : CSI[k] = r
  <2>1. PICK k \in 1 .. n : list[k] = r
    BY <1>1, <1>4
  <2>2. f[k] = <<r>>
    BY <1>1, <1>6, <2>1
  <2>3. 1 \in 1 .. Len(f[k]) /\ f[k][1] = r
    BY <2>2
  <2>4. pos[k - 1] + 1 \in 1 .. pos[n] /\ CSI[pos[k - 1] + 1] = f[k][1]
    BY <1>7, <2>3 DEF Places
  <2> QED BY <1>7, <2>3, <2>4
<1> QED BY <1>7, <1>8

(* BeforeReturns: pos[p] is the place of instruction p.  Every instruction *)
(* keeps its order, what is put in comes right before the returns, and     *)
(* instructions with no return among them stay together.                   *)
Placed(x, b, pos) ==
    /\ pos \in [0 .. Len(code) -> Nat] /\ pos[0] = 0
    /\ \A p \in DOMAIN code : pos[p] \in DOMAIN b /\ b[pos[p]] = code[p]
    /\ \A p \in DOMAIN code : IsReturn(code[p]) =>
         pos[p] = pos[p - 1] + (Len(x) + 1)
    /\ \A p \in DOMAIN code : IsReturn(code[p]) =>
         \A j \in 1 .. Len(x) :
           pos[p] - j \in DOMAIN b /\ b[pos[p] - j] = x[(Len(x) + 1) - j]
    /\ \A q \in DOMAIN b : \E p \in DOMAIN code :
         \/ q = pos[p]
         \/ /\ IsReturn(code[p])
            /\ \E j \in 1 .. Len(x) : q = pos[p] - j
    /\ \A a, e \in 0 .. Len(code) :
         a <= e /\ (\A p \in a + 1 .. e : ~IsReturn(code[p]))
           => \A p \in a .. e : pos[p] = pos[a] + (p - a)

(* BeforeReturns puts its instructions where Placed says.                  *)
LEMMA BeforeReturnsLemma ==
    ASSUME code \in Seq(Instruction), NEW x \in Seq(Instruction)
    PROVE  /\ BeforeReturns(x) \in Seq(Instruction)
           /\ \E pos : Placed(x, BeforeReturns(x), pos)
<1> DEFINE n == Len(code)
           m == Len(x)
           b == BeforeReturns(x)
           f == [p \in DOMAIN code |->
                   IF code[p].op = "PseudoRET" THEN Append(x, code[p])
                                               ELSE <<code[p]>>]
<1>1. /\ DOMAIN code = 1 .. n /\ n \in Nat /\ m \in Nat
      /\ \A p \in 1 .. n : code[p] \in Instruction
  OBVIOUS
<1>2. b = FlattenSeq(f)
  BY DEF BeforeReturns
<1>3. \A p \in 1 .. n : ~IsReturn(code[p]) => f[p] = <<code[p]>>
  BY <1>1 DEF IsReturn
<1>4. ASSUME NEW p \in 1 .. n, IsReturn(code[p])
      PROVE  /\ f[p] \in Seq(Instruction) /\ Len(f[p]) = m + 1
             /\ f[p][m + 1] = code[p]
             /\ \A j \in 1 .. m : f[p][j] = x[j]
  <2>1. f[p] = Append(x, code[p])
    BY <1>1, <1>4 DEF IsReturn
  <2> QED BY <1>1, <2>1
<1> HIDE DEF f, b, n, m
<1>5. f \in [1 .. n -> Seq(Instruction)]
  <2>1. ASSUME NEW p \in 1 .. n PROVE f[p] \in Seq(Instruction)
    <3>1. <<code[p]>> \in Seq(Instruction)
      BY <1>1
    <3> QED BY <1>3, <1>4, <3>1
  <2> QED BY <1>1, <2>1 DEF f
<1>6. PICK pos : /\ b \in Seq(Instruction) /\ Len(b) = pos[n]
                 /\ Ends(f, n, pos) /\ Places(f, n, pos, b)
                 /\ Filled(f, n, pos)
  BY <1>1, <1>2, <1>5, Flattened
<1>7. /\ DOMAIN b = 1 .. pos[n] /\ pos \in [0 .. n -> Nat] /\ pos[0] = 0
      /\ \A p \in 1 .. n : pos[p] = pos[p - 1] + Len(f[p])
      /\ \A p \in 1 .. n : pos[p] \in Nat /\ pos[p - 1] \in Nat
  <2>1. \A p \in 1 .. n : p - 1 \in 0 .. n
    BY <1>1
  <2>2. DOMAIN b = 1 .. pos[n]
    BY <1>6
  <2>3. /\ pos \in [0 .. n -> Nat] /\ pos[0] = 0
        /\ \A p \in 1 .. n : pos[p] = pos[p - 1] + Len(f[p])
    BY <1>6 DEF Ends
  <2>4. \A p \in 1 .. n : p \in 0 .. n
    BY <1>1
  <2> QED BY <2>1, <2>2, <2>3, <2>4
<1>8. ASSUME NEW p \in 1 .. n, ~IsReturn(code[p])
      PROVE  pos[p] = pos[p - 1] + 1
  BY <1>3, <1>7, <1>8
<1>9. ASSUME NEW p \in 1 .. n PROVE pos[p] \in DOMAIN b /\ b[pos[p]] = code[p]
  <2>1. CASE ~IsReturn(code[p])
    <3>1. 1 \in 1 .. Len(f[p]) /\ f[p][1] = code[p]
      BY <1>3, <2>1
    <3>2. pos[p - 1] + 1 \in 1 .. pos[n] /\ b[pos[p - 1] + 1] = f[p][1]
      BY <1>6, <3>1 DEF Places
    <3> QED BY <1>7, <1>8, <2>1, <3>1, <3>2
  <2>2. CASE IsReturn(code[p])
    <3>1. m + 1 \in 1 .. Len(f[p]) /\ f[p][m + 1] = code[p]
          /\ pos[p] = pos[p - 1] + (m + 1)
      <4>1. Len(f[p]) = m + 1 /\ f[p][m + 1] = code[p] /\ m \in Nat
        BY <1>1, <1>4, <2>2
      <4> QED BY <1>7, <4>1
    <3>2. pos[p - 1] + (m + 1) \in 1 .. pos[n]
          /\ b[pos[p - 1] + (m + 1)] = f[p][m + 1]
      BY <1>6, <3>1 DEF Places
    <3> QED BY <1>7, <3>1, <3>2
  <2> QED BY <2>1, <2>2
<1>10. ASSUME NEW p \in 1 .. n, IsReturn(code[p]), NEW j \in 1 .. m
       PROVE  pos[p] - j \in DOMAIN b /\ b[pos[p] - j] = x[(m + 1) - j]
  <2>1. /\ (m + 1) - j \in 1 .. Len(f[p]) /\ (m + 1) - j \in 1 .. m
        /\ pos[p] = pos[p - 1] + (m + 1)
        /\ pos[p] - j = pos[p - 1] + ((m + 1) - j)
    <3>1. Len(f[p]) = m + 1 /\ m \in Nat
      BY <1>1, <1>4, <1>10
    <3>2. pos[p] \in Nat /\ pos[p - 1] \in Nat /\ pos[p] = pos[p - 1] + Len(f[p])
      BY <1>7
    <3>3. PICK u \in Nat, w \in Nat : u = pos[p - 1] /\ w = pos[p]
      BY <3>2
    <3>4. w = u + (m + 1) /\ j \in 1 .. m /\ j \in Int
      BY <1>10, <3>1, <3>2, <3>3
    <3>5. /\ (m + 1) - j \in 1 .. m + 1 /\ (m + 1) - j \in 1 .. m
          /\ w - j = u + ((m + 1) - j)
      BY <3>1, <3>4
    <3> QED BY <3>1, <3>3, <3>4, <3>5
  <2>2. f[p][(m + 1) - j] = x[(m + 1) - j]
    BY <1>4, <1>10, <2>1
  <2>3. pos[p - 1] + ((m + 1) - j) \in 1 .. pos[n]
        /\ b[pos[p - 1] + ((m + 1) - j)] = f[p][(m + 1) - j]
    BY <1>6, <2>1 DEF Places
  <2> QED BY <1>7, <2>1, <2>2, <2>3
<1>11. ASSUME NEW q \in DOMAIN b
       PROVE  \E p \in 1 .. n : \/ q = pos[p]
                                \/ /\ IsReturn(code[p])
                                   /\ \E j \in 1 .. m : q = pos[p] - j
  <2>1. PICK p \in 1 .. n : q - pos[p - 1] \in 1 .. Len(f[p])
    BY <1>6, <1>7 DEF Filled
  <2>2. CASE ~IsReturn(code[p])
    <3>1. Len(f[p]) = 1
      <4>1. f[p] = <<code[p]>>
        BY <1>3, <2>2
      <4> QED BY <4>1
    <3>2. q = pos[p]
      <4>1. pos[p] = pos[p - 1] + 1 /\ pos[p - 1] \in Nat /\ q \in Int
        BY <1>7, <1>8, <2>2
      <4> QED BY <2>1, <3>1, <4>1
    <3> QED BY <3>2
  <2>3. CASE IsReturn(code[p])
    <3>1. Len(f[p]) = m + 1 /\ pos[p] = pos[p - 1] + (m + 1)
      BY <1>4, <1>7, <2>3
    <3>2. CASE q = pos[p]
      BY <3>2
    <3>3. CASE q # pos[p]
      <4>1. pos[p] - q \in 1 .. m /\ q = pos[p] - (pos[p] - q)
        <5>1. m \in Nat /\ pos[p] \in Nat /\ pos[p - 1] \in Nat /\ q \in Int
          BY <1>1, <1>7
        <5>2. PICK u \in Nat, w \in Nat : u = pos[p - 1] /\ w = pos[p]
          BY <5>1
        <5>3. w = u + (m + 1) /\ q - u \in 1 .. m + 1 /\ q # w
          BY <2>1, <3>1, <3>3, <5>2
        <5>4. w - q \in 1 .. m /\ q = w - (w - q)
          BY <5>1, <5>3
        <5> QED BY <5>2, <5>4
      <4> QED BY <2>3, <4>1
    <3> QED BY <3>2, <3>3
  <2> QED BY <2>2, <2>3
<1>12. ASSUME NEW a \in 0 .. n, NEW e \in 0 .. n, a <= e,
              \A p \in a + 1 .. e : ~IsReturn(code[p])
       PROVE  \A p \in a .. e : pos[p] = pos[a] + (p - a)
  <2>1. \A p \in a + 1 .. e : pos[p] = pos[p - 1] + 1
    <3> SUFFICES ASSUME NEW p \in a + 1 .. e PROVE pos[p] = pos[p - 1] + 1
      OBVIOUS
    <3>1. p \in 1 .. n
      BY <1>1
    <3> QED BY <1>8, <1>12, <3>1
  <2> QED BY <1>1, <1>7, <1>12, <2>1, Contiguous
<1>13. \A p \in 1 .. n : IsReturn(code[p]) => pos[p] = pos[p - 1] + (m + 1)
  BY <1>4, <1>7
<1>14. Placed(x, b, pos)
  BY <1>1, <1>7, <1>9, <1>10, <1>11, <1>12, <1>13, ZenonT(60)
  DEF Placed, n, m
<1> QED BY <1>6, <1>14 DEF b

(* The slots of the callee-saved registers, before indices are replaced.   *)
LEMMA SlotInstrLemma ==
    ASSUME NEW reg \in Int, NEW fi \in Int
    PROVE  /\ storeRegToStackSlot(reg, fi) =
                WithFI(Instr("SW", NoReg, NoReg, reg, 0), fi)
           /\ storeRegToStackSlot(reg, fi) \in Instruction
           /\ storeRegToStackSlot(reg, fi).op = "SW"
           /\ storeRegToStackSlot(reg, fi).rd = NoReg
           /\ storeRegToStackSlot(reg, fi).rs2 = reg
           /\ storeRegToStackSlot(reg, fi).fi = fi
           /\ loadRegFromStackSlot(reg, fi) =
                WithFI(Instr("LW", reg, NoReg, NoReg, 0), fi)
           /\ loadRegFromStackSlot(reg, fi) \in Instruction
           /\ loadRegFromStackSlot(reg, fi).op = "LW"
           /\ loadRegFromStackSlot(reg, fi).rd = reg
           /\ loadRegFromStackSlot(reg, fi).fi = fi
<1>1. NoReg \in Int
  BY DEF NoReg
<1>2. /\ Instr("SW", NoReg, NoReg, reg, 0) \in Instruction
      /\ Instr("SW", NoReg, NoReg, reg, 0).op = "SW"
      /\ Instr("SW", NoReg, NoReg, reg, 0).rd = NoReg
      /\ Instr("SW", NoReg, NoReg, reg, 0).rs2 = reg
  BY <1>1, OpcodeLemma, InstrLemma
<1>3. /\ Instr("LW", reg, NoReg, NoReg, 0) \in Instruction
      /\ Instr("LW", reg, NoReg, NoReg, 0).op = "LW"
      /\ Instr("LW", reg, NoReg, NoReg, 0).rd = reg
  BY <1>1, OpcodeLemma, InstrLemma
<1>4. storeRegToStackSlot(reg, fi) =
        WithFI(Instr("SW", NoReg, NoReg, reg, 0), fi)
  BY DEF storeRegToStackSlot, SW
<1>5. loadRegFromStackSlot(reg, fi) =
        WithFI(Instr("LW", reg, NoReg, NoReg, 0), fi)
  BY DEF loadRegFromStackSlot, LW
<1> DEFINE st == Instr("SW", NoReg, NoReg, reg, 0)
           ld == Instr("LW", reg, NoReg, NoReg, 0)
<1> HIDE DEF st, ld
<1>6. /\ WithFI(st, fi) \in Instruction /\ WithFI(st, fi).fi = fi
      /\ WithFI(st, fi).op = "SW" /\ WithFI(st, fi).rd = NoReg
      /\ WithFI(st, fi).rs2 = reg
  <2>1. st \in Instruction /\ st.op = "SW" /\ st.rd = NoReg /\ st.rs2 = reg
    BY <1>2 DEF st
  <2> QED BY <2>1, WithFILemma
<1>7. /\ WithFI(ld, fi) \in Instruction /\ WithFI(ld, fi).fi = fi
      /\ WithFI(ld, fi).op = "LW" /\ WithFI(ld, fi).rd = reg
  <2>1. ld \in Instruction /\ ld.op = "LW" /\ ld.rd = reg
    BY <1>3 DEF ld
  <2> QED BY <2>1, WithFILemma
<1>8. storeRegToStackSlot(reg, fi) = WithFI(st, fi)
      /\ loadRegFromStackSlot(reg, fi) = WithFI(ld, fi)
  BY <1>4, <1>5 DEF st, ld
<1> QED BY <1>4, <1>5, <1>6, <1>7, <1>8

(* Every instruction that SpillCalleeSavedRegisters leaves is a save, one  *)
(* of before, or a restore.                                                *)
LEMMA SpillCalleeSavedRegistersInv ==
    ASSUME SelectedInv, FrameTypeOK, SpillCalleeSavedRegisters
    PROVE  CodegenInv'
<1> DEFINE n == Len(CSI)
           saves == [k \in DOMAIN CSI |->
                       storeRegToStackSlot(CSI[k], Len(objs) + k)]
           restores == [k \in DOMAIN CSI |->
                          loadRegFromStackSlot(CSI[k], Len(objs) + k)]
           x == Reverse(restores)
           b == BeforeReturns(x)
           c == code'
           new == [i \in 1 .. n |-> [size |-> 4, align |-> 4]]
<1>1. /\ pass = "csr" /\ pass' = "layout" /\ c = saves \o b
      /\ UNCHANGED <<prog, cur, fixed, varSized>>
      /\ minCS' = Len(objs) + 1 /\ objs' = objs \o new
  BY Zenon DEF SpillCalleeSavedRegisters, AssignCalleeSavedSpillSlots
<1>2. /\ DOMAIN CSI = 1 .. n /\ n \in Nat
      /\ \A k \in 1 .. n : CSI[k] \in CSR_RV32I /\ CSI[k] \in Int
                           /\ CSI[k] # X2 /\ CSI[k] # NoReg
  <2>1. \A k \in DOMAIN CSI : CSI[k] \in CSR_RV32I
    BY CSILemma
  <2>2. DOMAIN CSI = 1 .. n /\ n \in Nat
    BY CSILemma
  <2> HIDE DEF n
  <2> QED BY <2>1, <2>2, SaveListLemma
<1>3. /\ code \in Seq(Instruction) /\ DOMAIN code = 1 .. Len(code)
      /\ Len(code) \in Nat
      /\ \A p \in DOMAIN code : /\ code[p] \in Instruction
                                /\ code[p].fi \in FrameIndices \cup {0}
                                /\ code[p].rd \notin Untouched
  <2>1. code \in Seq(Selected(FrameIndices, Untouched))
    BY <1>1 DEF SelectedInv
  <2> DEFINE B == Selected(FrameIndices, Untouched)
  <2>2. \A i \in B : i \in Instruction /\ i.fi \in FrameIndices \cup {0}
                     /\ i.rd \notin Untouched
    BY DEF Selected
  <2> HIDE DEF B
  <2>3. code \in Seq(B)
    BY <2>1 DEF B
  <2> QED BY <2>2, <2>3
<1>4. Len(objs) \in Nat /\ DOMAIN objs = 1 .. Len(objs) /\ objs \in Seq(Object)
  BY DEF FrameTypeOK
<1>5. new \in Seq(Object) /\ Len(new) = n
  <2>1. [size |-> 4, align |-> 4] \in Object
    BY DEF Object, Aligns
  <2> HIDE DEF n
  <2> QED BY <1>2, <2>1
<1> HIDE DEF n, new
<1>6. /\ FrameIndices \subseteq FrameIndices' /\ FrameIndices' \in SUBSET Int
      /\ \A k \in 1 .. n : Len(objs) + k \in FrameIndices'
      /\ Len(objs') = Len(objs) + n
  BY <1>1, <1>4, <1>5, IndicesGrow
<1>7. minCS' \in Nat \ {0} /\ NumSaves' = n /\ NumSaves' \in Nat
  BY <1>1, <1>2, <1>4, <1>6 DEF NumSaves
<1>8. \A fi \in FrameIndices : ~(fi >= minCS')
  BY <1>1, <1>4 DEF FrameIndices, FrameTypeOK
<1>9. ASSUME NEW k \in 1 .. n
      PROVE  /\ saves[k] =
                  WithFI(Instr("SW", NoReg, NoReg, CSI[k], 0), minCS' + k - 1)
             /\ saves[k] \in Instruction /\ saves[k].op = "SW"
             /\ saves[k].rd = NoReg /\ saves[k].rs2 = CSI[k]
             /\ saves[k].fi \in FrameIndices'
             /\ restores[k] =
                  WithFI(Instr("LW", CSI[k], NoReg, NoReg, 0), minCS' + k - 1)
             /\ restores[k] \in Instruction /\ restores[k].op = "LW"
             /\ restores[k].rd = CSI[k] /\ restores[k].fi \in FrameIndices'
  <2>1. Len(objs) + k = minCS' + k - 1 /\ Len(objs) + k \in Int
    BY <1>1, <1>4
  <2>2. CSI[k] \in Int /\ Len(objs) + k \in FrameIndices'
    BY <1>2, <1>6
  <2>3. saves[k] = storeRegToStackSlot(CSI[k], Len(objs) + k)
        /\ restores[k] = loadRegFromStackSlot(CSI[k], Len(objs) + k)
    BY <1>2
  <2> HIDE DEF saves, restores
  <2>4. /\ saves[k] =
             WithFI(Instr("SW", NoReg, NoReg, CSI[k], 0), Len(objs) + k)
        /\ saves[k] \in Instruction /\ saves[k].op = "SW"
        /\ saves[k].rd = NoReg /\ saves[k].rs2 = CSI[k]
        /\ saves[k].fi = Len(objs) + k
    BY <2>1, <2>2, <2>3, SlotInstrLemma
  <2>5. /\ restores[k] =
             WithFI(Instr("LW", CSI[k], NoReg, NoReg, 0), Len(objs) + k)
        /\ restores[k] \in Instruction /\ restores[k].op = "LW"
        /\ restores[k].rd = CSI[k] /\ restores[k].fi = Len(objs) + k
    BY <2>1, <2>2, <2>3, SlotInstrLemma
  <2> QED BY <2>1, <2>2, <2>4, <2>5
<1>10. /\ saves \in Seq(Instruction) /\ Len(saves) = n
       /\ restores \in Seq(Instruction) /\ Len(restores) = n
  <2>1. saves \in [1 .. n -> Instruction] /\ restores \in [1 .. n -> Instruction]
    BY <1>2, <1>9
  <2> HIDE DEF saves, restores
  <2> QED BY <1>2, <2>1
<1> HIDE DEF saves, restores
<1>11. /\ x \in Seq(Instruction) /\ Len(x) = n
       /\ \A j \in 1 .. n : x[(n + 1) - j] = restores[j]
  <2>1. x = [i \in 1 .. n |-> restores[(n - i) + 1]]
    BY <1>10 DEF Reverse
  <2>2. \A i \in 1 .. n : (n - i) + 1 \in 1 .. n /\ (n + 1) - i \in 1 .. n
                          /\ (n - ((n + 1) - i)) + 1 = i
    BY <1>2
  <2>3. x \in [1 .. n -> Instruction]
    BY <1>9, <2>1, <2>2
  <2>4. \A j \in 1 .. n : x[(n + 1) - j] = restores[j]
    BY <2>1, <2>2
  <2> HIDE DEF x
  <2> QED BY <1>2, <2>3, <2>4
<1> HIDE DEF x
<1>12. PICK pos : b \in Seq(Instruction) /\ Placed(x, b, pos)
  BY <1>3, <1>11, BeforeReturnsLemma
<1> HIDE DEF b
<1>13. /\ c \in Seq(Instruction) /\ Len(c) = n + Len(b)
       /\ \A k \in 1 .. n : c[k] = saves[k]
       /\ \A q \in 1 .. Len(b) : c[n + q] = b[q]
  BY <1>1, <1>10, <1>12, Concatenation
<1>14. /\ Len(b) \in Nat /\ DOMAIN b = 1 .. Len(b)
       /\ DOMAIN c = 1 .. n + Len(b)
  BY <1>12, <1>13
<1>15. /\ \A p \in DOMAIN code :
            pos[p] \in Nat /\ pos[p] \in DOMAIN b /\ b[pos[p]] = code[p]
       /\ \A p \in DOMAIN code : IsReturn(code[p]) => \A j \in 1 .. n :
            pos[p] - j \in DOMAIN b /\ b[pos[p] - j] = restores[j]
       /\ \A q \in DOMAIN b : \E p \in DOMAIN code :
            \/ q = pos[p]
            \/ IsReturn(code[p]) /\ \E j \in 1 .. n : q = pos[p] - j
  <2>1. /\ \A p \in DOMAIN code : pos[p] \in DOMAIN b /\ b[pos[p]] = code[p]
        /\ \A p \in DOMAIN code : IsReturn(code[p]) =>
             \A j \in 1 .. n :
               pos[p] - j \in DOMAIN b /\ b[pos[p] - j] = x[(n + 1) - j]
        /\ \A q \in DOMAIN b : \E p \in DOMAIN code :
             \/ q = pos[p]
             \/ IsReturn(code[p]) /\ \E j \in 1 .. n : q = pos[p] - j
    BY <1>11, <1>12 DEF Placed
  <2>2. \A p \in DOMAIN code : pos[p] \in Nat
    BY <1>14, <2>1
  <2> QED BY <1>11, <2>1, <2>2
<1>16. ASSUME NEW p \in DOMAIN c
       PROVE  \/ p \in 1 .. n /\ c[p] = saves[p]
              \/ /\ p \notin 1 .. n
                 /\ \/ \E q \in DOMAIN code : p = n + pos[q] /\ c[p] = code[q]
                    \/ \E j \in 1 .. n : c[p] = restores[j]
  <2>1. CASE p \in 1 .. n
    BY <1>13, <2>1
  <2>2. CASE p \notin 1 .. n
    <3>1. p - n \in DOMAIN b /\ p = n + (p - n)
      BY <1>2, <1>14, <2>2
    <3>2. c[p] = b[p - n]
      BY <1>13, <1>14, <3>1
    <3>3. PICK q \in DOMAIN code :
            \/ p - n = pos[q]
            \/ IsReturn(code[q]) /\ \E j \in 1 .. n : p - n = pos[q] - j
      BY <1>15, <3>1
    <3>4. CASE p - n = pos[q]
      BY <1>15, <2>2, <3>1, <3>2, <3>4
    <3>5. CASE IsReturn(code[q]) /\ \E j \in 1 .. n : p - n = pos[q] - j
      BY <1>15, <2>2, <3>2, <3>5
    <3> QED BY <3>3, <3>4, <3>5
  <2> QED BY <2>1, <2>2
<1>17. /\ NoReg \notin CSR_RV32I /\ NoReg # X2
  BY SaveListLemma DEF NoReg, X2
<1>18. \A k \in 1 .. n : c[0 + k] = saves[k] /\ c[0 + k].rs2 = CSI[k]
  BY <1>2, <1>9, <1>13
<1>19. SavesAtEntry(code, FALSE, 0)'
  <2>1. 0 + NumSaves' <= Len(c)
    BY <1>2, <1>7, <1>13, <1>14
  <2>2. \A k \in 1 .. NumSaves' :
          c[0 + k] = WithFI(Instr("SW", NoReg, NoReg, c[0 + k].rs2, 0),
                            minCS' + k - 1)
    BY <1>7, <1>9, <1>18
  <2> QED BY <2>1, <2>2 DEF SavesAtEntry, SlotAccess
<1>20. RestoresBeforeReturns(code, FALSE, 0, 0)'
  <2> SUFFICES ASSUME NEW p \in DOMAIN c, IsReturn(c[p]), NEW k \in 1 .. n
               PROVE  /\ (p - 0) - k \in DOMAIN c
                      /\ c[(p - 0) - k] =
                           WithFI(Instr("LW", c[0 + k].rs2, NoReg, NoReg, 0),
                                  minCS' + k - 1)
    BY <1>7 DEF RestoresBeforeReturns, SlotAccess
  <2>1. PICK q \in DOMAIN code : p = n + pos[q] /\ c[p] = code[q]
    BY <1>9, <1>16 DEF IsReturn
  <2>2. /\ IsReturn(code[q]) /\ pos[q] \in Nat /\ pos[q] - k \in DOMAIN b
        /\ b[pos[q] - k] = restores[k]
    BY <1>15, <2>1
  <2>3. /\ (p - 0) - k = n + (pos[q] - k) /\ n + (pos[q] - k) \in DOMAIN c
        /\ k \in Int
    <3>1. k \in Int /\ pos[q] - k \in 1 .. Len(b)
      BY <1>2, <1>14, <2>2
    <3>2. PICK u \in Nat : u = pos[q]
      BY <2>2
    <3>3. u - k \in 1 .. Len(b) /\ p = n + u
      BY <2>1, <3>1, <3>2
    <3>4. (p - 0) - k = n + (u - k) /\ n + (u - k) \in 1 .. n + Len(b)
      BY <1>2, <1>14, <3>1, <3>3
    <3> QED BY <1>14, <3>1, <3>2, <3>4
  <2>4. c[(p - 0) - k] = restores[k]
    BY <1>13, <1>14, <2>2, <2>3
  <2> QED BY <1>9, <1>18, <2>3, <2>4
<1>21. ClobberedSaved(code, 0)'
  <2> SUFFICES ASSUME NEW p \in DOMAIN c, NEW r \in Clobbers(c[p]) \cap CSR_RV32I
               PROVE  \E k \in 1 .. n : c[0 + k].rs2 = r
    BY <1>7 DEF ClobberedSaved
  <2>1. CASE p \in 1 .. n /\ c[p] = saves[p]
    BY <1>9, <1>17, <2>1 DEF Clobbers
  <2>2. CASE \E q \in DOMAIN code : c[p] = code[q]
    <3>1. r \in Written
      BY <2>2 DEF Written
    <3>2. \E k \in 1 .. n : CSI[k] = r
      BY <3>1, CSILemma DEF n
    <3> QED BY <1>18, <3>2
  <2>3. CASE \E j \in 1 .. n : c[p] = restores[j]
    <3>1. PICK j \in 1 .. n : c[p] = restores[j]
      BY <2>3
    <3>2. r = CSI[j]
      BY <1>9, <3>1 DEF Clobbers
    <3> QED BY <1>18, <3>2
  <2> QED BY <1>16, <2>1, <2>2, <2>3
<1>22. AdjustsSP(code, 0, 0)'
  <2> SUFFICES ASSUME ~varSized, NEW p \in DOMAIN c PROVE c[p].rd # X2
    BY <1>1 DEF AdjustsSP
  <2> QED BY <1>2, <1>3, <1>9, <1>16, <1>17 DEF Untouched
<1>23. IndicesOwned(code, FALSE, 0)'
  <2> SUFFICES ASSUME NEW p \in DOMAIN c, c[p].fi # 0
               PROVE  /\ c[p].fi \in FrameIndices'
                      /\ c[p].fi >= minCS' =>
                           p \in 0 + 1 .. 0 + n \/ c[p].op = "LW"
    BY <1>7 DEF IndicesOwned
  <2>1. CASE p \in 1 .. n /\ c[p] = saves[p]
    BY <1>2, <1>9, <2>1
  <2>2. CASE \E q \in DOMAIN code : c[p] = code[q]
    BY <1>3, <1>6, <1>8, <2>2
  <2>3. CASE \E j \in 1 .. n : c[p] = restores[j]
    BY <1>9, <2>3
  <2> QED BY <1>16, <2>1, <2>2, <2>3
<1>24. Framed(code, FALSE, 0, 0)'
  BY <1>13, <1>19, <1>20, <1>21, <1>22, <1>23 DEF Framed
<1> QED BY <1>1, <1>7, <1>24 DEF CodegenInv, SelectedInv, FramedInv
-----------------------------------------------------------------------------
(* The prologue and the epilogues.                                         *)

(* Before frame indices are replaced, what is said of the code does not    *)
(* depend on where the objects are.                                        *)
LEMMA FramedUnplaced ==
    ASSUME Framed(code, FALSE, 0, 0),
           UNCHANGED <<code, objs, minCS, varSized, fixed>>
    PROVE  Framed(code, FALSE, 0, 0)'
<1>1. NumSaves' = NumSaves /\ FrameIndices' = FrameIndices
  BY DEF NumSaves, FrameIndices
<1>2. SavesAtEntry(code, FALSE, 0)' /\ RestoresBeforeReturns(code, FALSE, 0, 0)'
  BY <1>1 DEF Framed, SavesAtEntry, RestoresBeforeReturns, SlotAccess
<1>3. ClobberedSaved(code, 0)' /\ AdjustsSP(code, 0, 0)'
      /\ IndicesOwned(code, FALSE, 0)'
  BY <1>1 DEF Framed, ClobberedSaved, AdjustsSP, IndicesOwned
<1> QED BY <1>2, <1>3 DEF Framed

(* Placing objects and sizing the frame leave the code alone.              *)
LEMMA CalculateFrameObjectOffsetsInv ==
    ASSUME CodegenInv, CalculateFrameObjectOffsets PROVE CodegenInv'
<1>1. /\ pass = "layout" /\ UNCHANGED <<prog, cur, code>>
      /\ UNCHANGED <<objs, minCS, varSized, fixed>>
      /\ \/ pass' = "layout"
         \/ pass' = "prologue" /\ stage' = "sized"
  BY Zenon DEF CalculateFrameObjectOffsets, PlaceObject, SetStackSize
<1>2. Framed(code, FALSE, 0, 0)'
  BY <1>1, FramedUnplaced DEF CodegenInv, FramedInv
<1>3. NumSaves' = NumSaves
  BY <1>1 DEF NumSaves
<1> QED BY <1>1, <1>2, <1>3 DEF CodegenInv, SelectedInv, FramedInv

(* The frame as it is after a pass that only changes the code.             *)
LEMMA FrameKept ==
    ASSUME UNCHANGED frameVars
    PROVE  /\ UNCHANGED <<minCS, stackSize, stage>>
           /\ NumSaves' = NumSaves
           /\ PrologueLen' = PrologueLen /\ EpilogueLen' = EpilogueLen
           /\ \A c, pre, post :
                Framed(c, FALSE, pre, post) => Framed(c, FALSE, pre, post)'
           /\ \A c, pre, post :
                Framed(c, TRUE, pre, post) => Framed(c, TRUE, pre, post)'
<1>1. /\ UNCHANGED <<objs, minCS, varSized, fixed, off, stackSize, stage,
                     adjustsStack>>
      /\ NumSaves' = NumSaves /\ FrameIndices' = FrameIndices
  BY DEF frameVars, NumSaves, FrameIndices
<1>2. \A fi, imm : eliminateFrameIndex(fi, imm)' = eliminateFrameIndex(fi, imm)
  BY <1>1 DEF eliminateFrameIndex, ObjectOffset
<1>3. PrologueLen' = PrologueLen /\ EpilogueLen' = EpilogueLen
  BY <1>1 DEF PrologueLen, EpilogueLen
<1>4. ASSUME NEW c, NEW pre, NEW post, Framed(c, FALSE, pre, post)
      PROVE  Framed(c, FALSE, pre, post)'
  BY <1>1, <1>4
  DEF Framed, SavesAtEntry, RestoresBeforeReturns, SlotAccess, ClobberedSaved,
      AdjustsSP, IndicesOwned
<1>5. ASSUME NEW c, NEW pre, NEW post, Framed(c, TRUE, pre, post)
      PROVE  Framed(c, TRUE, pre, post)'
  BY <1>1, <1>2, <1>5
  DEF Framed, SavesAtEntry, RestoresBeforeReturns, SlotAccess, ClobberedSaved,
      AdjustsSP, IndicesOwned
<1> QED BY <1>1, <1>3, <1>4, <1>5

(* The change of SP that the prologue and the epilogue make.               *)
LEMMA AdjustmentLemma ==
    ASSUME NEW k \in Int
    PROVE  /\ ADDI(X2, X2, k) \in Instruction
           /\ ADDI(X2, X2, k).op = "ADDI" /\ ADDI(X2, X2, k).rd = X2
           /\ ADDI(X2, X2, k).fi = 0 /\ ~IsReturn(ADDI(X2, X2, k))
           /\ Clobbers(ADDI(X2, X2, k)) \cap CSR_RV32I = {}
<1>1. X2 \in Int /\ NoReg \in Int
  BY DEF X2, NoReg
<1>2. /\ ADDI(X2, X2, k) \in Instruction /\ ADDI(X2, X2, k).op = "ADDI"
      /\ ADDI(X2, X2, k).rd = X2 /\ ADDI(X2, X2, k).fi = 0
  BY <1>1, OpcodeLemma, InstrLemma DEF ADDI
<1> QED BY <1>2, SaveListLemma DEF IsReturn, Clobbers

(* Whatever comes in front of the code, with no save register among it.    *)
LEMMA emitPrologueInv ==
    ASSUME CodegenInv, FrameTypeOK, emitPrologue PROVE CodegenInv'
<1>1. /\ pass = "prologue" /\ pass' = "epilogue" /\ UNCHANGED frameVars
      /\ UNCHANGED <<prog, cur>>
      /\ code' = IF stackSize = 0 /\ ~adjustsStack THEN code
                 ELSE <<ADDI(X2, X2, PrologueImm)>> \o code
  BY DEF emitPrologue
<1>2. Framed(code, FALSE, 0, 0) /\ NumSaves \in Nat /\ minCS \in Nat \ {0}
      /\ stage = "sized" /\ SelectedInv
  BY <1>1 DEF CodegenInv, FramedInv
<1>3. ASSUME Framed(code', FALSE, PrologueLen, 0) PROVE CodegenInv'
  <2>1. PICK c : c = code'
    OBVIOUS
  <2>2. Framed(code, FALSE, PrologueLen, 0)'
    BY <1>1, <1>3, <2>1, FrameKept
  <2> QED
    BY <1>1, <1>2, <2>2, FrameKept DEF CodegenInv, SelectedInv, FramedInv
<1>4. CASE stackSize = 0 /\ ~adjustsStack
  BY <1>1, <1>2, <1>3, <1>4 DEF PrologueLen
<1>5. CASE ~(stackSize = 0 /\ ~adjustsStack)
  <2> DEFINE a == ADDI(X2, X2, PrologueImm)
             c == <<a>> \o code
  <2>1. a = ADDI(X2, X2, -stackSize) /\ PrologueLen = 1 /\ -stackSize \in Int
    BY <1>5 DEF PrologueImm, PrologueLen, FrameTypeOK
  <2>2. /\ a \in Instruction /\ a.fi = 0 /\ ~IsReturn(a) /\ a.rd = X2
        /\ Clobbers(a) \cap CSR_RV32I = {}
    BY <2>1, AdjustmentLemma
  <2> HIDE DEF a
  <2>3. code \in Seq(Instruction) /\ <<a>> \in Seq(Instruction)
        /\ Len(<<a>>) = 1 /\ <<a>>[1] = a
    BY <1>2, <2>2 DEF Framed
  <2>4. /\ c \in Seq(Instruction) /\ Len(c) = 1 + Len(code) /\ c[1] = a
        /\ \A q \in 1 .. Len(code) : c[1 + q] = code[q]
    BY <2>3, Concatenation
  <2> HIDE DEF c
  <2>5. /\ DOMAIN c = 1 .. 1 + Len(code) /\ DOMAIN code = 1 .. Len(code)
        /\ Len(code) \in Nat
    BY <2>3, <2>4
  <2>6. ASSUME NEW p \in DOMAIN c
        PROVE  \/ p = 1 /\ c[p] = a
               \/ \E q \in DOMAIN code : p = 1 + q /\ c[p] = code[q]
    <3>1. CASE p # 1
      <4>1. p - 1 \in DOMAIN code /\ p = 1 + (p - 1)
        BY <2>5, <3>1
      <4> QED BY <2>4, <2>5, <4>1
    <3> QED BY <2>4, <3>1
  <2>7. \A k \in 1 .. NumSaves : /\ k \in 1 .. Len(code) /\ c[1 + k] = code[0 + k]
                                 /\ 0 + k = k
    BY <1>2, <2>4, <2>5 DEF Framed, SavesAtEntry
  <2>8. SavesAtEntry(c, FALSE, 1)
    <3>1. 0 + NumSaves <= Len(code)
          /\ \A k \in 1 .. NumSaves :
               code[0 + k] = SlotAccess(FALSE, "SW", NoReg, code[0 + k].rs2, k)
      BY <1>2 DEF Framed, SavesAtEntry
    <3>2. \A k \in 1 .. NumSaves :
            c[1 + k] = SlotAccess(FALSE, "SW", NoReg, c[1 + k].rs2, k)
      BY <2>7, <3>1
    <3>3. 1 + NumSaves <= Len(c)
      BY <1>2, <2>4, <2>5, <3>1
    <3> QED BY <3>2, <3>3 DEF SavesAtEntry
  <2>9. RestoresBeforeReturns(c, FALSE, 1, 0)
    <3> SUFFICES ASSUME NEW p \in DOMAIN c, IsReturn(c[p]), NEW k \in 1 .. NumSaves
                 PROVE  /\ (p - 0) - k \in DOMAIN c
                        /\ c[(p - 0) - k] =
                             SlotAccess(FALSE, "LW", c[1 + k].rs2, NoReg, k)
      BY DEF RestoresBeforeReturns
    <3>1. PICK q \in DOMAIN code : p = 1 + q /\ c[p] = code[q]
      BY <2>2, <2>6
    <3>2. (q - 0) - k \in DOMAIN code
          /\ code[(q - 0) - k] =
               SlotAccess(FALSE, "LW", code[0 + k].rs2, NoReg, k)
      BY <1>2, <3>1 DEF Framed, RestoresBeforeReturns
    <3>3. (p - 0) - k = 1 + ((q - 0) - k) /\ (p - 0) - k \in DOMAIN c
      BY <1>2, <2>5, <3>1, <3>2
    <3> QED BY <2>4, <2>5, <2>7, <3>2, <3>3
  <2>10. ClobberedSaved(c, 1)
    BY <1>2, <2>2, <2>6, <2>7 DEF Framed, ClobberedSaved
  <2>11. AdjustsSP(c, 1, 0)
    BY <1>2, <2>1, <2>4, <2>6 DEF Framed, AdjustsSP
  <2>12. IndicesOwned(c, FALSE, 1)
    BY <1>2, <2>2, <2>5, <2>6 DEF Framed, IndicesOwned
  <2> QED
    BY <1>1, <1>3, <1>5, <2>1, <2>4, <2>8, <2>9, <2>10, <2>11, <2>12
    DEF Framed, a, c
<1> QED BY <1>4, <1>5

(* The saves at the entry, and what stands before a return, are no returns *)
(* and no copies.                                                          *)
LEMMA SlotAccessLemma ==
    ASSUME NEW resolved \in BOOLEAN, NEW op, NEW rd, NEW rs2, NEW k
    PROVE  SlotAccess(resolved, op, rd, rs2, k).op = op
<1>1. CASE resolved
  BY <1>1, Zenon DEF SlotAccess, Instr
<1>2. CASE ~resolved
  <2>1. SlotAccess(resolved, op, rd, rs2, k) =
          WithFI(Instr(op, rd, NoReg, rs2, 0), minCS + k - 1)
    BY <1>2, Zenon DEF SlotAccess
  <2>2. WithFI(Instr(op, rd, NoReg, rs2, 0), minCS + k - 1).op = op
    BY DEF WithFI, Instr
  <2> QED BY <2>1, <2>2
<1> QED BY <1>1, <1>2

(* The saves after the prologue, and the reloads before an epilogue.       *)
LEMMA AroundLemma ==
    ASSUME NEW c, NEW resolved \in BOOLEAN, NEW pre \in {0, 1},
           NEW post \in {0, 1}, Framed(c, resolved, pre, post), NumSaves \in Nat
    PROVE  /\ \A p \in 1 .. pre + NumSaves :
                p \in DOMAIN c /\ c[p].op \in {"ADDI", "SW"}
           /\ \A p \in DOMAIN c : IsReturn(c[p]) =>
                \A j \in 1 .. post + NumSaves :
                  p - j \in DOMAIN c /\ c[p - j].op \in {"ADDI", "LW"}
<1>1. c \in Seq(Instruction) /\ SavesAtEntry(c, resolved, pre)
      /\ RestoresBeforeReturns(c, resolved, pre, post) /\ AdjustsSP(c, pre, post)
  BY DEF Framed
<1>2. DOMAIN c = 1 .. Len(c) /\ Len(c) \in Nat
  BY <1>1
<1>3. \A n \in Int : ADDI(X2, X2, n).op = "ADDI"
  BY DEF ADDI, Instr
<1>4. ASSUME NEW p \in 1 .. pre + NumSaves
      PROVE  p \in DOMAIN c /\ c[p].op \in {"ADDI", "SW"}
  <2>1. p \in DOMAIN c
    BY <1>1, <1>2 DEF SavesAtEntry
  <2>2. CASE pre = 1 /\ p = 1
    BY <1>1, <2>1, <2>2 DEF AdjustsSP, ADDI, Instr
  <2>3. CASE ~(pre = 1 /\ p = 1)
    <3>1. p - pre \in 1 .. NumSaves /\ p = pre + (p - pre)
      BY <2>3
    <3>2. c[p] = SlotAccess(resolved, "SW", NoReg, c[p].rs2, p - pre)
      BY <1>1, <3>1, Zenon DEF SavesAtEntry
    <3> QED BY <2>1, <3>2, SlotAccessLemma
  <2> QED BY <2>2, <2>3
<1>5. ASSUME NEW p \in DOMAIN c, IsReturn(c[p]), NEW j \in 1 .. post + NumSaves
      PROVE  p - j \in DOMAIN c /\ c[p - j].op \in {"ADDI", "LW"}
  <2>1. CASE post = 1 /\ j = 1
    BY <1>1, <1>5, <2>1 DEF AdjustsSP, ADDI, Instr
  <2>2. CASE ~(post = 1 /\ j = 1)
    <3>1. j - post \in 1 .. NumSaves /\ p - j = (p - post) - (j - post)
      BY <1>2, <2>2
    <3>2. /\ p - j \in DOMAIN c
          /\ c[p - j] = SlotAccess(resolved, "LW", c[pre + (j - post)].rs2,
                                   NoReg, j - post)
      BY <1>1, <1>5, <3>1, Zenon DEF RestoresBeforeReturns
    <3> QED BY <3>2, SlotAccessLemma
  <2> QED BY <2>1, <2>2
<1> QED BY <1>4, <1>5

(* With nothing to put back the code stays; otherwise the prologue is      *)
(* there, and an addition comes between the reloads and every return.      *)
LEMMA emitEpilogueInv ==
    ASSUME CodegenInv, FrameTypeOK, emitEpilogue PROVE CodegenInv'
<1> DEFINE n == NumSaves
           a == ADDI(X2, X2, EpilogueImm)
           b == BeforeReturns(<<a>>)
<1>1. /\ pass = "epilogue" /\ pass' = "frameindex" /\ UNCHANGED frameVars
      /\ UNCHANGED <<prog, cur>>
      /\ code' = IF stackSize = 0 THEN code ELSE b
  BY DEF emitEpilogue
<1>2. Framed(code, FALSE, PrologueLen, 0) /\ n \in Nat /\ minCS \in Nat \ {0}
      /\ stage = "sized" /\ SelectedInv
  BY <1>1 DEF CodegenInv, FramedInv
<1>3. ASSUME Framed(code', FALSE, PrologueLen, EpilogueLen) PROVE CodegenInv'
  <2>1. PICK c : c = code'
    OBVIOUS
  <2>2. Framed(code, FALSE, PrologueLen, EpilogueLen)'
    BY <1>1, <1>3, <2>1, FrameKept
  <2> QED
    BY <1>1, <1>2, <2>2, FrameKept DEF CodegenInv, SelectedInv, FramedInv
<1>4. CASE stackSize = 0
  BY <1>1, <1>2, <1>3, <1>4 DEF EpilogueLen
<1>5. CASE stackSize # 0
  <2>1. /\ a = ADDI(X2, X2, stackSize) /\ stackSize \in Int
        /\ PrologueLen = 1 /\ EpilogueLen = 1
    BY <1>5 DEF EpilogueImm, PrologueLen, EpilogueLen, FrameTypeOK
  <2>2. /\ a \in Instruction /\ a.fi = 0 /\ ~IsReturn(a) /\ a.rd = X2
        /\ Clobbers(a) \cap CSR_RV32I = {}
    BY <2>1, AdjustmentLemma
  <2> HIDE DEF a, n
  <2>3. /\ Framed(code, FALSE, 1, 0) /\ code \in Seq(Instruction)
        /\ DOMAIN code = 1 .. Len(code) /\ Len(code) \in Nat
    <3>1. Framed(code, FALSE, 1, 0)
      BY <1>2, <2>1
    <3>2. code \in Seq(Instruction)
      BY <3>1 DEF Framed
    <3>3. DOMAIN code = 1 .. Len(code) /\ Len(code) \in Nat
      BY <3>2
    <3> QED BY <3>1, <3>2, <3>3
  <2>4. /\ <<a>> \in Seq(Instruction) /\ Len(<<a>>) = 1
        /\ <<a>>[(Len(<<a>>) + 1) - 1] = a
    BY <2>2
  <2>5. PICK pos : b \in Seq(Instruction) /\ Placed(<<a>>, b, pos)
    BY <2>3, <2>4, BeforeReturnsLemma
  <2> HIDE DEF b
  <2>6. /\ \A p \in DOMAIN code : pos[p] \in DOMAIN b /\ b[pos[p]] = code[p]
        /\ \A p \in DOMAIN code : IsReturn(code[p]) =>
             /\ pos[p] = pos[p - 1] + 2
             /\ pos[p] - 1 \in DOMAIN b /\ b[pos[p] - 1] = a
        /\ \A q \in DOMAIN b : \E p \in DOMAIN code :
             \/ q = pos[p]
             \/ IsReturn(code[p]) /\ q = pos[p] - 1
    <3>1. 1 .. Len(<<a>>) = {1} /\ Len(<<a>>) + 1 = 2
      BY <2>4
    <3> QED BY <2>4, <2>5, <3>1, SMTT(30) DEF Placed
  <2>7. /\ DOMAIN b = 1 .. Len(b) /\ Len(b) \in Nat
        /\ pos[0] = 0 /\ \A p \in 0 .. Len(code) : pos[p] \in Nat
        /\ \A s, e \in 0 .. Len(code) :
             s <= e /\ (\A p \in s + 1 .. e : ~IsReturn(code[p]))
               => \A p \in s .. e : pos[p] = pos[s] + (p - s)
    <3>1. /\ pos \in [0 .. Len(code) -> Nat] /\ pos[0] = 0
          /\ \A s, e \in 0 .. Len(code) :
               s <= e /\ (\A p \in s + 1 .. e : ~IsReturn(code[p]))
                 => \A p \in s .. e : pos[p] = pos[s] + (p - s)
      BY <2>5, Zenon DEF Placed
    <3>2. DOMAIN b = 1 .. Len(b) /\ Len(b) \in Nat
      BY <2>5
    <3>3. \A p \in 0 .. Len(code) : pos[p] \in Nat
      BY <3>1
    <3> QED BY <3>1, <3>2, <3>3
  <2>8. /\ \A p \in 1 .. 1 + n : p \in DOMAIN code /\ ~IsReturn(code[p])
        /\ \A p \in DOMAIN code : IsReturn(code[p]) => \A j \in 1 .. n :
             p - j \in DOMAIN code /\ ~IsReturn(code[p - j])
    <3>1. /\ \A p \in 1 .. 1 + n :
               p \in DOMAIN code /\ code[p].op \in {"ADDI", "SW"}
          /\ \A p \in DOMAIN code : IsReturn(code[p]) => \A j \in 1 .. 0 + n :
               p - j \in DOMAIN code /\ code[p - j].op \in {"ADDI", "LW"}
      BY <1>2, <2>3, AroundLemma DEF n
    <3>2. 0 + n = n
      BY <1>2
    <3> QED BY <3>1, <3>2 DEF IsReturn
  <2>9. \A p \in 1 .. 1 + n : pos[p] = p /\ p \in DOMAIN b /\ b[p] = code[p]
    <3>1. 1 + n \in 1 .. 1 + n /\ 1 + n \in 0 .. Len(code) /\ 0 \in 0 .. Len(code)
          /\ 0 <= 1 + n
      BY <1>2, <2>3, <2>8
    <3>2. \A p \in 0 .. 1 + n : pos[p] = pos[0] + (p - 0)
      <4>1. \A p \in 0 + 1 .. 1 + n : ~IsReturn(code[p])
        BY <2>8
      <4> QED BY <2>7, <3>1, <4>1
    <3> QED BY <1>2, <2>6, <2>7, <2>8, <3>2
  <2>10. ASSUME NEW p \in DOMAIN code, IsReturn(code[p]), NEW k \in 1 .. n
         PROVE  pos[p - k] = (pos[p] - 1) - k
    <3>1. p - k \in DOMAIN code /\ k \in Int /\ p \in Int
      BY <1>2, <2>3, <2>8, <2>10
    <3>2. /\ p - k \in 0 .. Len(code) /\ p - 1 \in 0 .. Len(code)
          /\ p - k <= p - 1 /\ p - 1 \in p - k .. p - 1
      BY <1>2, <2>3, <3>1
    <3>3. \A q \in (p - k) + 1 .. p - 1 : ~IsReturn(code[q])
      <4> SUFFICES ASSUME NEW q \in (p - k) + 1 .. p - 1 PROVE ~IsReturn(code[q])
        OBVIOUS
      <4>1. p - q \in 1 .. n /\ q = p - (p - q)
        BY <1>2, <3>1
      <4> QED BY <2>8, <2>10, <4>1
    <3>4. pos[p - 1] = pos[p - k] + ((p - 1) - (p - k))
      BY <2>7, <3>2, <3>3
    <3>5. pos[p] = pos[p - 1] + 2
      BY <2>6, <2>10
    <3>6. PICK u \in Nat, v \in Nat, w \in Nat :
            u = pos[p - k] /\ v = pos[p - 1] /\ w = pos[p]
      <4>1. p \in 0 .. Len(code)
        BY <2>3
      <4> QED BY <2>7, <3>2, <4>1
    <3> QED BY <3>1, <3>4, <3>5, <3>6
  <2>11. ASSUME NEW q \in DOMAIN b, IsReturn(b[q])
         PROVE  \E p \in DOMAIN code : q = pos[p] /\ IsReturn(code[p])
    BY <2>2, <2>6, <2>11
  <2>12. SavesAtEntry(b, FALSE, 1)
    <3>1. /\ 1 + n <= Len(code) /\ n \in Nat
          /\ \A k \in 1 .. n :
               code[1 + k] = SlotAccess(FALSE, "SW", NoReg, code[1 + k].rs2, k)
      BY <1>2, <2>3 DEF Framed, SavesAtEntry, n
    <3>2. 1 + n <= Len(b)
      BY <2>7, <2>9, <3>1
    <3>3. \A k \in 1 .. n : b[1 + k] = code[1 + k]
      BY <2>9, <3>1
    <3> QED BY <3>1, <3>2, <3>3 DEF SavesAtEntry, n
  <2>13. \A k \in 1 .. n : b[1 + k] = code[1 + k]
    BY <1>2, <2>9
  <2>14. RestoresBeforeReturns(b, FALSE, 1, 1)
    <3> SUFFICES ASSUME NEW q \in DOMAIN b, IsReturn(b[q]), NEW k \in 1 .. n
                 PROVE  /\ (q - 1) - k \in DOMAIN b
                        /\ b[(q - 1) - k] =
                             SlotAccess(FALSE, "LW", b[1 + k].rs2, NoReg, k)
      BY DEF RestoresBeforeReturns, n
    <3>1. PICK p \in DOMAIN code : q = pos[p] /\ IsReturn(code[p])
      BY <2>11
    <3>2. (q - 1) - k = pos[p - k]
      BY <2>10, <3>1
    <3>3. /\ (p - 0) - k \in DOMAIN code /\ p - k = (p - 0) - k
          /\ code[(p - 0) - k] =
               SlotAccess(FALSE, "LW", code[1 + k].rs2, NoReg, k)
      <4>1. /\ (p - 0) - k \in DOMAIN code
            /\ code[(p - 0) - k] =
                 SlotAccess(FALSE, "LW", code[1 + k].rs2, NoReg, k)
        BY <2>3, <3>1 DEF Framed, RestoresBeforeReturns, n
      <4>2. p \in Int /\ k \in Int
        BY <1>2, <2>3
      <4> QED BY <4>1, <4>2
    <3> QED BY <2>6, <2>13, <3>2, <3>3, ZenonT(60)
  <2>15. ClobberedSaved(b, 1)
    <3> SUFFICES ASSUME NEW q \in DOMAIN b, NEW r \in Clobbers(b[q]) \cap CSR_RV32I
                 PROVE  \E k \in 1 .. n : b[1 + k].rs2 = r
      BY DEF ClobberedSaved, n
    <3>1. PICK p \in DOMAIN code : b[q] = code[p]
      BY <2>2, <2>6
    <3>2. \E k \in 1 .. n : code[1 + k].rs2 = r
      BY <2>3, <3>1 DEF Framed, ClobberedSaved, n
    <3> QED BY <2>13, <3>2
  <2>16. AdjustsSP(b, 1, 1)
    <3>1. 1 \in 1 .. 1 + n
      BY <1>2
    <3>2. b[1] = ADDI(X2, X2, -stackSize)
      BY <2>3, <2>9, <3>1 DEF Framed, AdjustsSP
    <3>3. \A q \in DOMAIN b : IsReturn(b[q]) => q - 1 \in DOMAIN b /\ b[q - 1] = a
      BY <2>6, <2>11
    <3>4. ASSUME ~varSized, NEW q \in DOMAIN b, b[q].rd = X2
          PROVE  q = 1 \/ (q + 1 \in DOMAIN b /\ IsReturn(b[q + 1]))
      <4>1. PICK p \in DOMAIN code : \/ q = pos[p]
                                     \/ IsReturn(code[p]) /\ q = pos[p] - 1
        BY <2>6
      <4>2. CASE q = pos[p]
        <5>1. code[p].rd = X2
          BY <2>6, <3>4, <4>2
        <5>2. p = 1
          BY <2>3, <3>4, <5>1 DEF Framed, AdjustsSP
        <5> QED BY <2>9, <3>1, <4>2, <5>2
      <4>3. CASE IsReturn(code[p]) /\ q = pos[p] - 1
        <5>1. pos[p] \in Nat
          BY <2>3, <2>7
        <5>2. q + 1 = pos[p]
          BY <4>3, <5>1
        <5> QED BY <2>6, <4>3, <5>2
      <4> QED BY <4>1, <4>2, <4>3
    <3> QED BY <2>1, <3>2, <3>3, <3>4 DEF AdjustsSP
  <2>17. IndicesOwned(b, FALSE, 1)
    <3> SUFFICES ASSUME NEW q \in DOMAIN b, b[q].fi # 0
                 PROVE  /\ b[q].fi \in FrameIndices
                        /\ b[q].fi >= minCS =>
                             q \in 1 + 1 .. 1 + n \/ b[q].op = "LW"
      BY DEF IndicesOwned, n
    <3>1. PICK p \in DOMAIN code : q = pos[p] /\ b[q] = code[p]
      BY <2>2, <2>6
    <3>2. /\ code[p].fi \in FrameIndices
          /\ code[p].fi >= minCS =>
               p \in 1 + 1 .. 1 + n \/ code[p].op = "LW"
      BY <2>3, <3>1 DEF Framed, IndicesOwned, n
    <3>3. p \in 1 + 1 .. 1 + n => pos[p] = p
      BY <1>2, <2>9
    <3> QED BY <3>1, <3>2, <3>3
  <2> QED
    BY <1>1, <1>3, <1>5, <2>1, <2>5, <2>12, <2>14, <2>15, <2>16, <2>17
    DEF Framed
<1> QED BY <1>4, <1>5
-----------------------------------------------------------------------------
(* Frame indices, copies, and the next function.                           *)

(* A frame index of a sized frame is resolved to an integer.               *)
LEMMA ResolvableLemma ==
    ASSUME FrameInv, stage = "sized", NEW fi \in FrameIndices, NEW imm \in Int
    PROVE  eliminateFrameIndex(fi, imm) \in Int
<1>1. stackSize \in Int
  BY DEF FrameInv, FrameTypeOK
<1>2. ObjectOffset(fi) \in Int
  <2>1. CASE fi < 0
    <3>1. -fi \in Nat \ {0}
      BY <2>1, FrameIndicesLemma DEF FrameInv
    <3> QED BY <2>1, <3>1, FixedOffsetLemma DEF ObjectOffset
  <2>2. CASE ~(fi < 0)
    <3>1. fi \in DOMAIN objs
      BY <2>2 DEF FrameIndices, FrameInv, FrameTypeOK
    <3>2. DOMAIN off = DOMAIN objs /\ off \in [DOMAIN off -> Int]
      BY DEF FrameInv, SizedFrame, FrameTypeOK
    <3> QED BY <2>2, <3>1, <3>2 DEF ObjectOffset
  <2> QED BY <2>1, <2>2
<1> QED BY <1>1, <1>2 DEF eliminateFrameIndex

Replaced(i, e) == [i EXCEPT !.rs1 = X2, !.fi = 0, !.imm = e]

(* A resolved frame index changes the base register and the immediate.     *)
LEMMA ReplacedLemma ==
    ASSUME NEW i \in Instruction, NEW e \in Int
    PROVE  /\ Replaced(i, e) \in Instruction /\ Replaced(i, e).fi = 0
           /\ Replaced(i, e).op = i.op /\ Replaced(i, e).rd = i.rd
           /\ Replaced(i, e).rs2 = i.rs2
<1> DEFINE r == X2
<1>1. r \in Int
  BY DEF X2
<1> HIDE DEF r
<1>2. /\ [i EXCEPT !.rs1 = r] \in Instruction
      /\ [i EXCEPT !.rs1 = r].op = i.op /\ [i EXCEPT !.rs1 = r].rd = i.rd
      /\ [i EXCEPT !.rs1 = r].rs2 = i.rs2
  BY <1>1 DEF Instruction
<1> DEFINE h == [i EXCEPT !.rs1 = r]
           k == [h EXCEPT !.fi = 0]
<1>3. h \in Instruction /\ h.op = i.op /\ h.rd = i.rd /\ h.rs2 = i.rs2
  BY <1>2
<1>4. Replaced(i, e) = [k EXCEPT !.imm = e]
  BY Zenon DEF Replaced, r
<1> HIDE DEF h
<1>5. /\ k \in Instruction /\ k.fi = 0 /\ k.op = i.op /\ k.rd = i.rd
      /\ k.rs2 = i.rs2
  BY <1>3 DEF Instruction
<1> HIDE DEF k
<1>6. /\ [k EXCEPT !.imm = e] \in Instruction /\ [k EXCEPT !.imm = e].fi = 0
      /\ [k EXCEPT !.imm = e].op = i.op /\ [k EXCEPT !.imm = e].rd = i.rd
      /\ [k EXCEPT !.imm = e].rs2 = i.rs2
  BY <1>5 DEF Instruction
<1> QED BY <1>4, <1>6

(* Every instruction keeps its place, its operation and its registers; the *)
(* accesses to the callee-saved slots get the addresses of the slots.      *)
LEMMA ReplaceFrameIndicesInv ==
    ASSUME CodegenInv, FrameInv, ReplaceFrameIndices PROVE CodegenInv'
<1> DEFINE n == NumSaves
           pre == PrologueLen
           post == EpilogueLen
           c == [p \in DOMAIN code |->
                   IF code[p].fi = 0 THEN code[p]
                   ELSE [code[p] EXCEPT
                           !.rs1 = X2, !.fi = 0,
                           !.imm = eliminateFrameIndex(code[p].fi, @)]]
<1>1. /\ pass = "frameindex" /\ pass' = "copies" /\ UNCHANGED frameVars
      /\ UNCHANGED <<prog, cur>> /\ code' = c
  BY DEF ReplaceFrameIndices, BaseReg, hasFPImpl
<1>2. Framed(code, FALSE, pre, post) /\ n \in Nat /\ minCS \in Nat \ {0}
      /\ stage = "sized" /\ SelectedInv
  BY <1>1 DEF CodegenInv, FramedInv
<1>3. pre \in {0, 1} /\ post \in {0, 1}
  BY DEF PrologueLen, EpilogueLen
<1> HIDE DEF n, pre, post
<1>4. code \in Seq(Instruction)
  BY <1>2 DEF Framed
<1>5. /\ DOMAIN code = 1 .. Len(code) /\ Len(code) \in Nat
      /\ \A p \in DOMAIN code : code[p] \in Instruction
  BY <1>4
<1>6. ASSUME NEW p \in DOMAIN code
      PROVE  /\ c[p] \in Instruction /\ c[p].fi = 0
             /\ c[p].op = code[p].op /\ c[p].rd = code[p].rd
             /\ c[p].rs2 = code[p].rs2
             /\ code[p].fi = 0 => c[p] = code[p]
             /\ code[p].fi # 0 =>
                  c[p] = [code[p] EXCEPT
                            !.rs1 = X2, !.fi = 0,
                            !.imm = eliminateFrameIndex(code[p].fi, @)]
  <2>1. CASE code[p].fi = 0
    <3>1. c[p] = code[p]
      BY <2>1
    <3> HIDE DEF c
    <3> QED BY <1>5, <2>1, <3>1
  <2>2. CASE code[p].fi # 0
    <3>1. c[p] = [code[p] EXCEPT
                    !.rs1 = X2, !.fi = 0,
                    !.imm = eliminateFrameIndex(code[p].fi, @)]
      BY <2>2
    <3> HIDE DEF c
    <3>2. code[p].fi \in FrameIndices
      BY <1>2, <2>2 DEF Framed, IndicesOwned
    <3>3. code[p].imm \in Int
      BY <1>5 DEF Instruction
    <3>4. PICK e \in Int : e = eliminateFrameIndex(code[p].fi, code[p].imm)
      BY <1>2, <3>2, <3>3, ResolvableLemma
    <3>5. c[p] = [code[p] EXCEPT !.rs1 = X2, !.fi = 0, !.imm = e]
      BY <3>1, <3>4
    <3>6. code[p] \in Instruction /\ X2 \in Int
      BY <1>5 DEF X2
    <3>7. /\ c[p] \in Instruction /\ c[p].fi = 0
          /\ c[p].op = code[p].op /\ c[p].rd = code[p].rd
          /\ c[p].rs2 = code[p].rs2
      <4>1. PICK i \in Instruction : i = code[p]
        BY <3>6
      <4>2. c[p] = [i EXCEPT !.rs1 = X2, !.fi = 0, !.imm = e]
        BY <3>5, <4>1
      <4>3. c[p] = Replaced(i, e)
        BY <4>2, Zenon DEF Replaced
      <4> QED BY <4>1, <4>3, ReplacedLemma
    <3> QED BY <2>2, <3>1, <3>7
  <2> QED BY <2>1, <2>2
<1>7. DOMAIN c = DOMAIN code
  OBVIOUS
<1> HIDE DEF c
<1>8. c \in Seq(Instruction) /\ Len(c) = Len(code)
  <2>1. c \in [1 .. Len(code) -> Instruction]
    BY <1>1, <1>5, <1>6, <1>7 DEF c
  <2> QED BY <1>5, <2>1
(* The k-th slot is resolved alike in every access to it.                  *)
<1>9. ASSUME NEW p \in DOMAIN code, NEW k \in 1 .. n, NEW op, NEW rd, NEW rs2,
             code[p] = SlotAccess(FALSE, op, rd, rs2, k)
      PROVE  c[p] = SlotAccess(TRUE, op, rd, rs2, k)
  <2>1. code[p] = WithFI(Instr(op, rd, NoReg, rs2, 0), minCS + k - 1)
    BY <1>9 DEF SlotAccess
  <2>2. minCS + k - 1 # 0
    BY <1>2
  <2>3. code[p].fi = minCS + k - 1 /\ code[p].imm = 0
    BY <2>1 DEF WithFI, Instr
  <2>4. c[p] = [code[p] EXCEPT !.rs1 = X2, !.fi = 0,
                               !.imm = eliminateFrameIndex(minCS + k - 1, 0)]
    BY <1>6, <2>2, <2>3, ZenonT(60)
  <2>5. c[p] = Instr(op, rd, X2, rs2, eliminateFrameIndex(minCS + k - 1, 0))
    BY <2>1, <2>4, ZenonT(60) DEF WithFI, Instr
  <2> QED BY <2>5 DEF SlotAccess
<1>10. \A k \in 1 .. n : pre + k \in DOMAIN code /\ c[pre + k].rs2 = code[pre + k].rs2
  <2>1. pre + n <= Len(code)
    BY <1>2 DEF Framed, SavesAtEntry, n
  <2>2. \A k \in 1 .. n : pre + k \in DOMAIN code
    BY <1>2, <1>3, <1>5, <2>1
  <2> QED BY <1>6, <2>2
<1>11. SavesAtEntry(c, TRUE, pre)
  <2>1. /\ pre + n <= Len(code)
        /\ \A k \in 1 .. n :
             code[pre + k] = SlotAccess(FALSE, "SW", NoReg, code[pre + k].rs2, k)
    BY <1>2 DEF Framed, SavesAtEntry, n
  <2>2. \A k \in 1 .. n :
          c[pre + k] = SlotAccess(TRUE, "SW", NoReg, c[pre + k].rs2, k)
    <3> SUFFICES ASSUME NEW k \in 1 .. n
                 PROVE  c[pre + k] =
                          SlotAccess(TRUE, "SW", NoReg, c[pre + k].rs2, k)
      OBVIOUS
    <3>1. code[pre + k] = SlotAccess(FALSE, "SW", NoReg, code[pre + k].rs2, k)
      BY <2>1
    <3>2. c[pre + k] = SlotAccess(TRUE, "SW", NoReg, code[pre + k].rs2, k)
      BY <1>9, <1>10, <3>1, Zenon
    <3> QED BY <1>10, <3>2
  <2> QED BY <1>8, <2>1, <2>2 DEF SavesAtEntry, n
<1>12. RestoresBeforeReturns(c, TRUE, pre, post)
  <2> SUFFICES ASSUME NEW p \in DOMAIN code, IsReturn(code[p]), NEW k \in 1 .. n
               PROVE  /\ (p - post) - k \in DOMAIN code
                      /\ c[(p - post) - k] =
                           SlotAccess(TRUE, "LW", c[pre + k].rs2, NoReg, k)
    <3>1. \A p \in DOMAIN code : IsReturn(c[p]) => IsReturn(code[p])
      BY <1>6 DEF IsReturn
    <3> QED BY <1>7, <3>1 DEF RestoresBeforeReturns, n
  <2>1. /\ (p - post) - k \in DOMAIN code
        /\ code[(p - post) - k] =
             SlotAccess(FALSE, "LW", code[pre + k].rs2, NoReg, k)
    BY <1>2 DEF Framed, RestoresBeforeReturns, n
  <2>2. c[(p - post) - k] =
          SlotAccess(TRUE, "LW", code[pre + k].rs2, NoReg, k)
    BY <1>9, <2>1, Zenon
  <2> QED BY <1>10, <2>1, <2>2
<1>13. ClobberedSaved(c, pre)
  <2> SUFFICES ASSUME NEW p \in DOMAIN code,
                      NEW r \in Clobbers(c[p]) \cap CSR_RV32I
               PROVE  \E k \in 1 .. n : c[pre + k].rs2 = r
    BY <1>7 DEF ClobberedSaved, n
  <2>1. Clobbers(c[p]) = Clobbers(code[p])
    BY <1>6 DEF Clobbers
  <2>2. \E k \in 1 .. n : code[pre + k].rs2 = r
    BY <1>2, <2>1 DEF Framed, ClobberedSaved, n
  <2> QED BY <1>10, <2>2
<1>14. AdjustsSP(c, pre, post)
  <2>1. \A k : ADDI(X2, X2, k).fi = 0
    BY DEF ADDI, Instr
  <2>2. pre = 1 => c[1] = ADDI(X2, X2, -stackSize)
    <3> SUFFICES ASSUME pre = 1 PROVE c[1] = ADDI(X2, X2, -stackSize)
      OBVIOUS
    <3>1. code[1] = ADDI(X2, X2, -stackSize)
      BY <1>2 DEF Framed, AdjustsSP
    <3>2. 1 \in DOMAIN code
      BY <1>2, <1>3, <1>5 DEF Framed, SavesAtEntry, n
    <3>3. code[1].fi = 0
      BY <2>1, <3>1
    <3> QED BY <1>6, <3>1, <3>2, <3>3
  <2>3. post = 1 => \A p \in DOMAIN c : IsReturn(c[p]) =>
          p - 1 \in DOMAIN c /\ c[p - 1] = ADDI(X2, X2, stackSize)
    <3> SUFFICES ASSUME post = 1, NEW p \in DOMAIN code, IsReturn(code[p])
                 PROVE  p - 1 \in DOMAIN code
                        /\ c[p - 1] = ADDI(X2, X2, stackSize)
      BY <1>6, <1>7 DEF IsReturn
    <3>1. p - 1 \in DOMAIN code /\ code[p - 1] = ADDI(X2, X2, stackSize)
      BY <1>2 DEF Framed, AdjustsSP
    <3>2. code[p - 1].fi = 0
      BY <2>1, <3>1
    <3> QED BY <1>6, <3>1, <3>2
  <2>4. ~varSized => \A p \in DOMAIN c : c[p].rd = X2 =>
          \/ pre = 1 /\ p = 1
          \/ post = 1 /\ p + 1 \in DOMAIN c /\ IsReturn(c[p + 1])
    <3> SUFFICES ASSUME ~varSized, NEW p \in DOMAIN code, code[p].rd = X2
                 PROVE  \/ pre = 1 /\ p = 1
                        \/ post = 1 /\ p + 1 \in DOMAIN code /\ IsReturn(c[p + 1])
      BY <1>6, <1>7
    <3>1. \/ pre = 1 /\ p = 1
          \/ post = 1 /\ p + 1 \in DOMAIN code /\ IsReturn(code[p + 1])
      BY <1>2 DEF Framed, AdjustsSP
    <3> QED BY <1>6, <3>1 DEF IsReturn
  <2> QED BY <2>2, <2>3, <2>4 DEF AdjustsSP
<1>15. IndicesOwned(c, TRUE, pre)
  BY <1>6, <1>7 DEF IndicesOwned
<1>16. Framed(c, TRUE, pre, post)
  BY <1>8, <1>11, <1>12, <1>13, <1>14, <1>15 DEF Framed
<1>17. Framed(code, TRUE, PrologueLen, EpilogueLen)'
  BY <1>1, <1>16, FrameKept DEF pre, post
<1> QED BY <1>1, <1>2, <1>17, FrameKept DEF CodegenInv, SelectedInv, FramedInv, n

(* Copies become additions to the same register or vanish; what stands     *)
(* around the body has no copy in it and stays together.                   *)
LEMMA ExpandCopiesInv ==
    ASSUME CodegenInv, ExpandCopies PROVE CodegenInv'
<1> DEFINE n == NumSaves
           pre == PrologueLen
           post == EpilogueLen
           m == Len(code)
           copyPhysReg(i) == IF i.op # "COPY" THEN <<i>>
                             ELSE IF i.rd = i.rs1 THEN <<>>
                             ELSE <<ADDI(i.rd, i.rs1, 0)>>
           f == [p \in DOMAIN code |-> copyPhysReg(code[p])]
           c == FlattenSeq(f)
<1>1. /\ pass = "copies" /\ pass' = "emit" /\ UNCHANGED frameVars
      /\ UNCHANGED <<prog, cur>>
  BY DEF ExpandCopies
<1>2. code' = c
  BY Zenon DEF ExpandCopies
<1>3. Framed(code, TRUE, pre, post) /\ n \in Nat /\ minCS \in Nat \ {0}
      /\ stage = "sized" /\ SelectedInv
  BY <1>1 DEF CodegenInv, FramedInv
<1>4. pre \in {0, 1} /\ post \in {0, 1}
  BY DEF PrologueLen, EpilogueLen
<1>5. code \in Seq(Instruction)
  BY <1>3 DEF Framed
<1>6. /\ DOMAIN code = 1 .. m /\ m \in Nat
      /\ \A p \in 1 .. m : code[p] \in Instruction
  BY <1>5
<1> DEFINE Copied(p) == ADDI(code[p].rd, code[p].rs1, 0)
<1>7. ASSUME NEW p \in 1 .. m
      PROVE  /\ code[p].op # "COPY" => f[p] = <<code[p]>>
             /\ code[p].op = "COPY" => f[p] = <<>> \/ f[p] = <<Copied(p)>>
  BY <1>6
<1>8. ASSUME NEW p \in 1 .. m
      PROVE  /\ Copied(p) \in Instruction /\ Copied(p).fi = 0
             /\ Copied(p).op = "ADDI" /\ Copied(p).rd = code[p].rd
  <2>1. code[p].rd \in Int /\ code[p].rs1 \in Int /\ NoReg \in Int
    BY <1>6 DEF Instruction, NoReg
  <2> QED BY <2>1, OpcodeLemma, InstrLemma DEF ADDI
<1> HIDE DEF n, pre, post, m, Copied
<1>9. f \in [1 .. m -> Seq(Instruction)]
  <2>1. ASSUME NEW p \in 1 .. m PROVE f[p] \in Seq(Instruction)
    <3>1. /\ <<code[p]>> \in Seq(Instruction) /\ <<Copied(p)>> \in Seq(Instruction)
          /\ <<>> \in Seq(Instruction)
      BY <1>6, <1>8
    <3> HIDE DEF f
    <3> QED BY <1>7, <3>1
  <2>2. DOMAIN f = 1 .. m
    BY <1>6
  <2>3. f = [p \in 1 .. m |-> f[p]]
    BY <2>2
  <2> QED BY <2>1, <2>3
<1> HIDE DEF f
<1>10. PICK pos : /\ c \in Seq(Instruction) /\ Len(c) = pos[m]
                  /\ Ends(f, m, pos) /\ Places(f, m, pos, c)
                  /\ Filled(f, m, pos)
  BY <1>6, <1>9, Flattened
<1> HIDE DEF c
<1>11. /\ pos \in [0 .. m -> Nat] /\ pos[0] = 0
       /\ \A p \in 1 .. m : pos[p] = pos[p - 1] + Len(f[p])
       /\ \A p \in 1 .. m : p \in 0 .. m /\ p - 1 \in 0 .. m
  BY <1>6, <1>10 DEF Ends
<1>12. /\ DOMAIN c = 1 .. pos[m]
       /\ \A p \in 0 .. m : pos[p] \in Nat
       /\ \A p \in 1 .. m : pos[p] \in Nat /\ pos[p - 1] \in Nat
  <2>1. DOMAIN c = 1 .. pos[m]
    BY <1>10
  <2>2. \A p \in 0 .. m : pos[p] \in Nat
    BY <1>11
  <2> QED BY <1>11, <2>1, <2>2
<1>13. ASSUME NEW p \in 1 .. m, code[p].op # "COPY"
       PROVE  /\ pos[p] = pos[p - 1] + 1
              /\ pos[p] \in DOMAIN c /\ c[pos[p]] = code[p]
  <2>1. f[p] = <<code[p]>>
    BY <1>7, <1>13
  <2>2. Len(f[p]) = 1 /\ 1 \in 1 .. Len(f[p]) /\ f[p][1] = code[p]
    BY <2>1
  <2>3. pos[p - 1] + 1 \in 1 .. pos[m] /\ c[pos[p - 1] + 1] = f[p][1]
    BY <1>10, <2>2 DEF Places
  <2> QED BY <1>11, <1>12, <2>2, <2>3
<1>14. ASSUME NEW q \in DOMAIN c
       PROVE  \E p \in 1 .. m :
                \/ code[p].op # "COPY" /\ q = pos[p] /\ c[q] = code[p]
                \/ code[p].op = "COPY" /\ c[q] = Copied(p)
  <2>1. PICK p \in 1 .. m : q - pos[p - 1] \in 1 .. Len(f[p])
    BY <1>10, <1>12 DEF Filled
  <2>2. q = pos[p - 1] + (q - pos[p - 1]) /\ q \in Int
    BY <1>12
  <2>3. c[q] = f[p][q - pos[p - 1]]
    BY <1>10, <2>1, <2>2 DEF Places
  <2>4. CASE code[p].op # "COPY"
    <3>1. f[p] = <<code[p]>>
      BY <1>7, <2>4
    <3>2. Len(f[p]) = 1 /\ f[p][1] = code[p]
      BY <3>1
    <3>3. q - pos[p - 1] = 1
      BY <1>12, <2>1, <2>2, <3>2
    <3>4. q = pos[p]
      BY <1>12, <1>13, <2>2, <2>4, <3>3
    <3> QED BY <2>3, <2>4, <3>2, <3>3, <3>4
  <2>5. CASE code[p].op = "COPY"
    <3>1. f[p] = <<Copied(p)>>
      <4>1. CASE f[p] = <<>>
        <5>1. Len(f[p]) = 0
          BY <4>1
        <5> QED BY <2>1, <5>1
      <4> QED BY <1>7, <2>5, <4>1
    <3>2. Len(f[p]) = 1 /\ f[p][1] = Copied(p)
      BY <3>1
    <3>3. q - pos[p - 1] = 1
      BY <1>12, <2>1, <2>2, <3>2
    <3> QED BY <2>3, <2>5, <3>2, <3>3
  <2> QED BY <2>4, <2>5
<1>15. /\ \A p \in 1 .. pre + n : p \in 1 .. m /\ code[p].op \in {"ADDI", "SW"}
       /\ \A p \in 1 .. m : IsReturn(code[p]) =>
            \A j \in 1 .. post + n :
              p - j \in 1 .. m /\ code[p - j].op \in {"ADDI", "LW"}
  BY <1>3, <1>4, <1>6, AroundLemma DEF n
<1>16. \A p \in 1 .. pre + n : pos[p] = p /\ p \in DOMAIN c /\ c[p] = code[p]
  <2>1. CASE pre + n = 0
    BY <1>3, <1>4, <2>1
  <2>2. CASE pre + n # 0
    <3>1. pre + n \in 0 .. m /\ 0 \in 0 .. m /\ 0 <= pre + n
      <4>1. pre + n \in 1 .. pre + n
        BY <1>3, <1>4, <2>2
      <4> QED BY <1>6, <1>15, <4>1
    <3>2. \A p \in 0 + 1 .. pre + n : pos[p] = pos[p - 1] + 1
      BY <1>13, <1>15
    <3>3. \A p \in 0 .. pre + n : pos[p] = pos[0] + (p - 0)
      BY <1>6, <1>11, <3>1, <3>2, Contiguous
    <3>4. \A p \in 1 .. pre + n : pos[p] = p
      BY <1>3, <1>4, <1>11, <3>3
    <3> QED BY <1>13, <1>15, <3>4
  <2> QED BY <2>1, <2>2
<1>17. ASSUME NEW p \in 1 .. m, IsReturn(code[p]), NEW k \in 1 .. post + n
       PROVE  /\ pos[p - k] = pos[p] - k
              /\ pos[p] - k \in DOMAIN c /\ c[pos[p] - k] = code[p - k]
  <2>1. p - k \in 1 .. m /\ code[p - k].op # "COPY"
    BY <1>15, <1>17
  <2>2. p \in Int /\ k \in Int /\ k >= 1
    BY <1>3, <1>4, <1>6
  <2>3. p - k \in 0 .. m /\ p \in 0 .. m /\ p - k <= p /\ p \in p - k .. p
    BY <1>6, <2>1, <2>2
  <2>4. \A q \in (p - k) + 1 .. p : pos[q] = pos[q - 1] + 1
    <3> SUFFICES ASSUME NEW q \in (p - k) + 1 .. p PROVE pos[q] = pos[q - 1] + 1
      OBVIOUS
    <3>1. CASE q = p
      BY <1>13, <1>17, <3>1 DEF IsReturn
    <3>2. CASE q # p
      <4>1. p - q \in 1 .. post + n /\ q = p - (p - q)
        BY <1>3, <1>4, <2>2, <3>2
      <4>2. q \in 1 .. m /\ code[q].op # "COPY"
        BY <1>15, <1>17, <4>1
      <4> QED BY <1>13, <4>2
    <3> QED BY <3>1, <3>2
  <2>5. pos[p] = pos[p - k] + (p - (p - k))
    BY <1>6, <1>11, <2>3, <2>4, Contiguous
  <2>6. PICK u \in Nat, w \in Nat : u = pos[p - k] /\ w = pos[p]
    BY <1>12, <2>1
  <2>7. u = w - k
    BY <2>2, <2>5, <2>6
  <2> QED BY <1>13, <2>1, <2>6, <2>7
<1>18. ASSUME NEW q \in DOMAIN c, IsReturn(c[q])
       PROVE  \E p \in 1 .. m : q = pos[p] /\ c[q] = code[p] /\ IsReturn(code[p])
  BY <1>8, <1>14, <1>18 DEF IsReturn
<1>19. \A k \in 1 .. n : pre + k \in 1 .. pre + n /\ c[pre + k] = code[pre + k]
  <2>1. \A k \in 1 .. n : pre + k \in 1 .. pre + n
    BY <1>3, <1>4
  <2> QED BY <1>16, <2>1
<1>20. SavesAtEntry(c, TRUE, pre)
  <2>1. \A k \in 1 .. n :
          code[pre + k] = SlotAccess(TRUE, "SW", NoReg, code[pre + k].rs2, k)
    BY <1>3 DEF Framed, SavesAtEntry, n
  <2>2. pre + n <= Len(c)
    <3>1. CASE pre + n = 0
      BY <1>10, <1>12, <1>6, <3>1
    <3>2. CASE pre + n # 0
      <4>1. pre + n \in 1 .. pre + n
        BY <1>3, <1>4, <3>2
      <4> QED BY <1>10, <1>12, <1>16, <4>1
    <3> QED BY <3>1, <3>2
  <2> QED BY <1>19, <2>1, <2>2 DEF SavesAtEntry, n
<1>21. RestoresBeforeReturns(c, TRUE, pre, post)
  <2> SUFFICES ASSUME NEW q \in DOMAIN c, IsReturn(c[q]), NEW k \in 1 .. n
               PROVE  /\ (q - post) - k \in DOMAIN c
                      /\ c[(q - post) - k] =
                           SlotAccess(TRUE, "LW", c[pre + k].rs2, NoReg, k)
    BY DEF RestoresBeforeReturns, n
  <2>1. PICK p \in 1 .. m : q = pos[p] /\ IsReturn(code[p])
    BY <1>18
  <2>2. /\ post + k \in 1 .. post + n /\ k \in Int /\ p \in Int /\ q \in Int
        /\ (q - post) - k = q - (post + k) /\ (p - post) - k = p - (post + k)
    BY <1>3, <1>4, <1>6, <1>12
  <2>3. code[(p - post) - k] =
          SlotAccess(TRUE, "LW", code[pre + k].rs2, NoReg, k)
    BY <1>3, <1>6, <2>1 DEF Framed, RestoresBeforeReturns, n
  <2>4. /\ q - (post + k) \in DOMAIN c
        /\ c[q - (post + k)] = code[p - (post + k)]
    BY <1>17, <2>1, <2>2
  <2> QED BY <1>19, <2>2, <2>3, <2>4
<1>22. ClobberedSaved(c, pre)
  <2> SUFFICES ASSUME NEW q \in DOMAIN c, NEW r \in Clobbers(c[q]) \cap CSR_RV32I
               PROVE  \E k \in 1 .. n : c[pre + k].rs2 = r
    BY DEF ClobberedSaved, n
  <2>1. PICK p \in 1 .. m : \/ c[q] = code[p]
                            \/ code[p].op = "COPY" /\ c[q] = Copied(p)
    BY <1>14
  <2>2. Clobbers(c[q]) = Clobbers(code[p])
    BY <1>8, <2>1 DEF Clobbers
  <2>3. \E k \in 1 .. n : code[pre + k].rs2 = r
    BY <1>3, <1>6, <2>2 DEF Framed, ClobberedSaved, n
  <2> QED BY <1>19, <2>3
<1>23. AdjustsSP(c, pre, post)
  <2>1. pre = 1 => c[1] = ADDI(X2, X2, -stackSize)
    <3> SUFFICES ASSUME pre = 1 PROVE c[1] = ADDI(X2, X2, -stackSize)
      OBVIOUS
    <3>1. 1 \in 1 .. pre + n
      BY <1>3
    <3> QED BY <1>3, <1>16, <3>1 DEF Framed, AdjustsSP
  <2>2. post = 1 => \A q \in DOMAIN c : IsReturn(c[q]) =>
          q - 1 \in DOMAIN c /\ c[q - 1] = ADDI(X2, X2, stackSize)
    <3> SUFFICES ASSUME post = 1, NEW q \in DOMAIN c, IsReturn(c[q])
                 PROVE  q - 1 \in DOMAIN c /\ c[q - 1] = ADDI(X2, X2, stackSize)
      OBVIOUS
    <3>1. PICK p \in 1 .. m : q = pos[p] /\ IsReturn(code[p])
      BY <1>18
    <3>2. code[p - 1] = ADDI(X2, X2, stackSize)
      BY <1>3, <1>6, <3>1 DEF Framed, AdjustsSP
    <3>3. 1 \in 1 .. post + n
      BY <1>3
    <3> QED BY <1>17, <3>1, <3>2, <3>3
  <2>3. ~varSized => \A q \in DOMAIN c : c[q].rd = X2 =>
          \/ pre = 1 /\ q = 1
          \/ post = 1 /\ q + 1 \in DOMAIN c /\ IsReturn(c[q + 1])
    <3> SUFFICES ASSUME ~varSized, NEW q \in DOMAIN c, c[q].rd = X2
                 PROVE  \/ pre = 1 /\ q = 1
                        \/ post = 1 /\ q + 1 \in DOMAIN c /\ IsReturn(c[q + 1])
      OBVIOUS
    <3>1. PICK p \in 1 .. m :
            \/ code[p].op # "COPY" /\ q = pos[p] /\ c[q] = code[p]
            \/ code[p].op = "COPY" /\ c[q] = Copied(p)
      BY <1>14
    <3>2. code[p].rd = X2
      BY <1>8, <3>1
    <3>3. \/ pre = 1 /\ p = 1
          \/ post = 1 /\ p + 1 \in 1 .. m /\ IsReturn(code[p + 1])
      BY <1>3, <1>6, <3>2 DEF Framed, AdjustsSP
    <3>4. CASE pre = 1 /\ p = 1
      <4>1. 1 \in 1 .. pre + n
        BY <1>3, <3>4
      <4>2. code[p].op # "COPY" /\ pos[p] = 1
        BY <1>15, <1>16, <3>4, <4>1
      <4> QED BY <3>1, <3>4, <4>2
    <3>5. CASE post = 1 /\ p + 1 \in 1 .. m /\ IsReturn(code[p + 1])
      <4>1. 1 \in 1 .. post + n /\ (p + 1) - 1 = p
        BY <1>3, <1>6, <3>5
      <4>2. code[p].op # "COPY"
        BY <1>15, <3>5, <4>1
      <4>3. q = pos[p] /\ pos[p] \in Nat
        BY <1>12, <3>1, <4>2
      <4>4. code[p + 1].op # "COPY"
        BY <3>5 DEF IsReturn
      <4>5. pos[p + 1] = pos[p] + 1 /\ pos[p + 1] \in DOMAIN c
            /\ c[pos[p + 1]] = code[p + 1]
        BY <1>13, <3>5, <4>1, <4>4
      <4> QED BY <3>5, <4>3, <4>5
    <3> QED BY <3>3, <3>4, <3>5
  <2> QED BY <2>1, <2>2, <2>3 DEF AdjustsSP
<1>24. IndicesOwned(c, TRUE, pre)
  <2>1. \A p \in 1 .. m : code[p].fi = 0
    BY <1>3, <1>6 DEF Framed, IndicesOwned
  <2>2. \A q \in DOMAIN c : c[q].fi = 0
    BY <1>8, <1>14, <2>1
  <2> QED BY <2>2 DEF IndicesOwned
<1>25. Framed(c, TRUE, pre, post)
  BY <1>10, <1>20, <1>21, <1>22, <1>23, <1>24 DEF Framed
<1>26. Framed(code, TRUE, PrologueLen, EpilogueLen)'
  <2>1. PICK d : d = c
    OBVIOUS
  <2> QED BY <1>1, <1>2, <1>25, <2>1, FrameKept DEF pre, post
<1> QED BY <1>1, <1>3, <1>26, FrameKept DEF CodegenInv, SelectedInv, FramedInv, n

(* The next function starts with no code and no frame.                     *)
LEMMA EmitFunctionInv ==
    ASSUME CodegenInv, EmitFunction PROVE CodegenInv'
<1>1. /\ prog \in Programs /\ cur \in DOMAIN prog
  BY DEF CodegenInv, SelectedInv, EmitFunction
<1>2. prog \in Seq(Function)
  BY <1>1, ProgramsAssumption
<1>3. DOMAIN prog = 1 .. Len(prog) /\ Len(prog) \in Nat
  BY <1>2
<1>4. /\ prog' = prog /\ cur' = cur + 1 /\ code' = <<>>
      /\ pass' = IF cur = Len(prog) THEN "done" ELSE "alloca"
  BY DEF EmitFunction
<1>5. pass' # "done" => cur' \in DOMAIN prog'
  BY <1>1, <1>3, <1>4
<1> QED BY <1>1, <1>4, <1>5 DEF CodegenInv, SelectedInv, FramedInv

(* Compilation starts with the first function and no code.                 *)
LEMMA CodegenInitInv == CodegenInit => CodegenInv
<1> SUFFICES ASSUME CodegenInit PROVE CodegenInv
  OBVIOUS
<1>1. prog \in Programs /\ cur = 1 /\ pass = "alloca" /\ code = <<>>
  BY DEF CodegenInit
<1>2. prog \in Seq(Function) /\ prog # <<>>
  BY <1>1, ProgramsAssumption
<1>3. 1 \in DOMAIN prog
  BY <1>2
<1> QED BY <1>1, <1>3 DEF CodegenInv, SelectedInv, FramedInv

(* Every step of the code generator keeps the invariant.                   *)
LEMMA CodegenStep ==
    CodegenInv /\ FrameInv /\ [CompileStep]_compileVars => CodegenInv'
<1> SUFFICES ASSUME CodegenInv, FrameInv, [CompileStep]_compileVars
             PROVE  CodegenInv'
  OBVIOUS
<1>1. SelectedInv /\ FrameTypeOK
  BY DEF CodegenInv, FrameInv
<1>2. CASE BeginFunction
  BY <1>1, <1>2, BeginFunctionInv
<1>3. CASE LowerFormalArguments
  BY <1>1, <1>3, LowerFormalArgumentsInv
<1>4. CASE \/ SelectConstant \/ SelectAdd \/ SelectFrameIndex
           \/ SelectLoad \/ SelectStore
  BY <1>1, <1>4, SelectConstantInv, SelectAddInv, SelectFrameIndexInv,
     SelectLoadInv, SelectStoreInv
<1>5. CASE ExpandDynamicStackAlloc \/ StartBlock \/ SelectBR \/ SelectBR_CC
  BY <1>1, <1>5, ExpandDynamicStackAllocInv, StartBlockInv, SelectBRInv,
     SelectBR_CCInv
<1>6. CASE LowerCall \/ LowerReturn \/ FinishISel
  BY <1>1, <1>6, LowerCallInv, LowerReturnInv, FinishISelInv
<1>7. CASE RegAlloc
  BY <1>1, <1>7, RegAllocInv
<1>8. CASE EliminateCallFramePseudoInstrs \/ SpillCalleeSavedRegisters
  BY <1>1, <1>8, EliminateCallFramePseudoInstrsInv, SpillCalleeSavedRegistersInv
<1>9. CASE CalculateFrameObjectOffsets
  BY <1>9, CalculateFrameObjectOffsetsInv
<1>10. CASE emitPrologue \/ emitEpilogue
  BY <1>1, <1>10, emitPrologueInv, emitEpilogueInv
<1>11. CASE ReplaceFrameIndices \/ ExpandCopies
  BY <1>11, ReplaceFrameIndicesInv, ExpandCopiesInv
<1>12. CASE EmitFunction
  BY <1>12, EmitFunctionInv
<1>13. CASE UNCHANGED compileVars
  <2>1. UNCHANGED frameVars /\ UNCHANGED <<prog, cur, pass, todo, code>>
    BY <1>13 DEF compileVars, cgVars
  <2>2. SelectedInv'
    BY <1>1, <2>1
    DEF SelectedInv, frameVars, FrameIndices, Untouched
  <2>3. FramedInv'
    BY <2>1, FrameKept DEF CodegenInv, FramedInv
  <2> QED BY <2>2, <2>3 DEF CodegenInv
<1> QED
  BY <1>2, <1>3, <1>4, <1>5, <1>6, <1>7, <1>8, <1>9, <1>10, <1>11, <1>12, <1>13
  DEF CompileStep
-----------------------------------------------------------------------------
(* In every state of compiling any program, in any order of allocation,    *)
(* the code between two passes is what the passes before it promise.       *)
THEOREM CodegenInvariant == CompileSpec => []CodegenInv
<1>1. CompileSpec => []FrameInv
  BY CompileImplementsFrame, FrameInvariant, PTL
<1> QED BY <1>1, CodegenInitInv, CodegenStep, PTL DEF CompileSpec

(* When a function is printed, its frame adjustments are the prologue and  *)
(* the epilogue of every return, of the same size, and, without            *)
(* variable-sized objects, nothing else writes SP.                         *)
THEOREM CompiledStackPointerBalanced == CompileSpec => []StackPointerBalanced
<1>1. CodegenInv => StackPointerBalanced
  <2> SUFFICES ASSUME CodegenInv, pass = "emit", ~varSized
               PROVE  StackPointerBalanced
    BY DEF StackPointerBalanced
  <2>1. Framed(code, TRUE, PrologueLen, EpilogueLen) /\ NumSaves \in Nat
    BY DEF CodegenInv, FramedInv
  <2>2. PrologueLen \in {0, 1} /\ EpilogueLen \in {0, 1}
        /\ (stackSize # 0 => PrologueLen = 1 /\ EpilogueLen = 1)
    BY DEF PrologueLen, EpilogueLen
  <2>3. code \in Seq(Instruction) /\ AdjustsSP(code, PrologueLen, EpilogueLen)
    BY <2>1 DEF Framed
  <2>4. DOMAIN code \subseteq Int
    BY <2>3
  <2>5. ASSUME NEW p \in DOMAIN code, code[p].rd = X2
        PROVE  \/ p = 1 /\ code[p] = ADDI(X2, X2, -stackSize)
               \/ /\ code[p] = ADDI(X2, X2, stackSize)
                  /\ p + 1 \in DOMAIN code /\ IsReturn(code[p + 1])
    <3>1. CASE PrologueLen = 1 /\ p = 1
      BY <2>3, <3>1 DEF AdjustsSP
    <3>2. CASE EpilogueLen = 1 /\ p + 1 \in DOMAIN code /\ IsReturn(code[p + 1])
      <4>1. code[(p + 1) - 1] = ADDI(X2, X2, stackSize) /\ (p + 1) - 1 = p
        BY <2>3, <2>4, <3>2 DEF AdjustsSP
      <4> QED BY <3>2, <4>1
    <3> QED BY <2>3, <2>5, <3>1, <3>2 DEF AdjustsSP
  <2>6. ASSUME stackSize # 0
        PROVE  /\ 1 \in DOMAIN code /\ code[1] = ADDI(X2, X2, -stackSize)
               /\ \A p \in DOMAIN code : IsReturn(code[p]) =>
                    p - 1 \in DOMAIN code /\ code[p - 1] = ADDI(X2, X2, stackSize)
    <3>1. 1 \in 1 .. PrologueLen + NumSaves
      BY <2>1, <2>2, <2>6
    <3>2. 1 \in DOMAIN code
      BY <2>1, <2>2, <3>1, AroundLemma
    <3> QED BY <2>2, <2>3, <2>6, <3>2 DEF AdjustsSP
  <2> QED BY <2>5, <2>6 DEF StackPointerBalanced
<1> QED BY <1>1, CodegenInvariant, PTL

(* When a function is printed, every callee-saved register it changes is   *)
(* saved at its entry and reloaded from that slot before every return.     *)
THEOREM CompiledCalleeSavedRestored == CompileSpec => []CalleeSavedRestored
<1>1. CodegenInv => CalleeSavedRestored
  <2> SUFFICES ASSUME CodegenInv, pass = "emit" PROVE CalleeSavedRestored
    BY DEF CalleeSavedRestored
  <2>1. Framed(code, TRUE, PrologueLen, EpilogueLen) /\ NumSaves \in Nat
    BY DEF CodegenInv, FramedInv
  <2>2. /\ PrologueLen + NumSaves <= Len(code)
        /\ \A k \in 1 .. NumSaves :
             code[PrologueLen + k] =
               Instr("SW", NoReg, X2, code[PrologueLen + k].rs2,
                     eliminateFrameIndex(minCS + k - 1, 0))
    BY <2>1 DEF Framed, SavesAtEntry, SlotAccess
  <2>3. \A p \in DOMAIN code : \A r \in Clobbers(code[p]) \cap CSR_RV32I :
          \E k \in 1 .. NumSaves : code[PrologueLen + k].rs2 = r
    BY <2>1 DEF Framed, ClobberedSaved
  <2>4. \A p \in DOMAIN code : IsReturn(code[p]) => \A k \in 1 .. NumSaves :
          /\ p - EpilogueLen - k \in DOMAIN code
          /\ code[p - EpilogueLen - k] =
               Instr("LW", code[PrologueLen + k].rs2, X2, NoReg,
                     eliminateFrameIndex(minCS + k - 1, 0))
    BY <2>1 DEF Framed, RestoresBeforeReturns, SlotAccess
  <2> QED BY <2>2, <2>3, <2>4 DEF CalleeSavedRestored
<1> QED BY <1>1, CodegenInvariant, PTL

(* When frame indices are replaced each is one of the frame, only its save *)
(* stores to the slot of a callee-saved register, and none is printed.     *)
THEOREM CompiledFrameIndicesOwned == CompileSpec => []FrameIndicesOwned
<1>1. CodegenInv => FrameIndicesOwned
  <2> SUFFICES ASSUME CodegenInv PROVE FrameIndicesOwned
    OBVIOUS
  <2>1. ASSUME pass = "frameindex", NEW p \in DOMAIN code, code[p].fi # 0
        PROVE  /\ code[p].fi \in FrameIndices
               /\ code[p].fi >= minCS =>
                    p <= PrologueLen + NumSaves \/ code[p].op = "LW"
    <3>1. IndicesOwned(code, FALSE, PrologueLen)
      BY <2>1 DEF CodegenInv, FramedInv, Framed
    <3> QED BY <2>1, <3>1 DEF IndicesOwned
  <2>2. pass = "emit" => \A p \in DOMAIN code : code[p].fi = 0
    <3>1. pass = "emit" => IndicesOwned(code, TRUE, PrologueLen)
      BY DEF CodegenInv, FramedInv, Framed
    <3> QED BY <3>1 DEF IndicesOwned
  <2> QED BY <2>1, <2>2 DEF FrameIndicesOwned
<1> QED BY <1>1, CodegenInvariant, PTL
=============================================================================
