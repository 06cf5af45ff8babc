# RV32I backend: specifications, model checking and proofs

This directory models the out-of-tree LLVM backend for RV32I in `src/`: what it
does to a function on its way from LLVM IR to the instructions of a RISC-V
machine, and what a machine that runs those instructions then does. The
modules are checked with TLC and some of them proved about with TLAPS.

A backend runs no threads, and all it keeps on disk is its output. What makes it
hard to test is that its pieces are called by LLVM, one hook at a time, and agree with
each other only by convention: `LowerCall` of one function with
`LowerFormalArguments` of another, `eliminateFrameIndex` with the layout of
`PrologEpilogInserter`, the prologue with the epilogue at the other end of the
function, the pieces of an immediate in `RV32IInstrFormats.td` with the
decoder of a processor. A wrong convention shows for some frames, operands or
call chains and not for others. The models put the two sides of each
convention together; two more follow an operation through the tables of
legalization and selection, and the driver through everything that can stop it.

- [1. The system](#1-the-system)
- [2. Modules](#2-modules)
- [3. Runs](#3-runs)
- [4. Disagreements found](#4-disagreements-found)
- [5. Proofs](#5-proofs)
- [6. What is assumed of LLVM and of the machine](#6-what-is-assumed-of-llvm-and-of-the-machine)
- [7. What is not modelled](#7-what-is-not-modelled)
- [8. Plan](#8-plan)

## 1. The system

`driver/compiler.cpp` parses an IR file, sets up the target machine and runs
LLVM's code generation passes once. Every component below is called from those
passes.

| Component | Source | State | Operations |
|---|---|---|---|
| Calling convention, registers | `RV32ICallingConv.td`, `RV32IRegisterInfo.*` | none (tables) | `CC_RV32I`, `RetCC_RV32I`, `CSR_RV32I`, `getReservedRegs`, `eliminateFrameIndex` |
| Frame lowering | `RV32IFrameLowering.*` | reads and fills `MachineFrameInfo`, one per function | `emitPrologue`, `emitEpilogue`, `eliminateCallFramePseudoInstr`, `hasFPImpl`, `hasReservedCallFrame` |
| Instruction info | `RV32IInstrInfo.cpp` | none | `copyPhysReg`, `storeRegToStackSlot`, `loadRegFromStackSlot`, stack slot queries |
| Calls, arguments, returns | `RV32ISelLowering.cpp` | the SelectionDAG of a block; fixed objects, virtual registers | `LowerFormalArguments`, `LowerCall`, `LowerCallResult`, `LowerReturn` |
| Comparisons and branches | `RV32ISelLowering.cpp`, `RV32ISelDAGtoDAG.cpp` | a node of the DAG | `LowerBRCOND`, `LowerBR_CC`, `Select`, the SETCC patterns |
| Global addresses | `RV32ISelLowering.cpp`, `RV32IAsmPrinter.cpp`, `MCTargetDesc/RV32IInstPrinter.cpp` | operands of two instructions | `LowerGlobalAddress`, operand lowering, `%hi` / `%lo` printing |
| Other legality | `RV32ISelLowering.cpp` | the table of `setOperationAction` | LLVM's legalizer acts on it |
| Instruction selection | `RV32ISelDAGtoDAG.cpp`, `RV32IInstrInfo.td` | DAG to machine instructions | `Select` and the patterns |
| Formats and emitter | `RV32IInstrFormats.td`, `RV32IInstrInfo.td`, `MCTargetDesc/RV32IMCCodeEmitter.cpp` | the byte buffer `CB` | `encodeInstruction`, `getMachineOpValue` |
| Asm and instruction printer | `RV32IAsmPrinter.cpp`, `MCTargetDesc/RV32IInstPrinter.cpp` | the output stream | operand lowering, printing |
| Target machine, subtarget, registration | `RV32ITargetMachine.*`, `RV32ISubtarget.*`, ... | built once | the order of the passes |
| Driver | `driver/compiler.cpp` | `output.s`, its buffer, the registered parts | `main` |

Interaction. LLVM's passes own the order: static allocas, formal arguments,
selection of the body, register allocation with spills, elimination of call
frame pseudos, saves of registers, frame layout, prologue and epilogue, frame
indices, copies, emission. The components talk through the frame
(`MachineFrameInfo`) and the instruction list of the function being compiled,
and two functions talk only at run time, through registers and the stack.

What is hard, per component, and the properties that make it correct:

- **Frame.** Fixed objects (above the incoming stack pointer), locals, spills,
  saved registers and outgoing arguments are resolved by one formula. They must
  be apart (`AreasApart`, `ObjectsDisjoint`) and aligned (`ObjectsAligned`,
  `CallsAligned`) for every mix of objects.
- **Calls.** Caller, callee and allocator agree on registers and slots; the
  return address survives only because `PseudoCALL` defines `X1`; the epilogue
  relies on a stack pointer nobody moved. State of the caller survives
  (`CallerStateRestored`), stores stay in the frame (`StoresStayInFrame`), the
  arguments and results are those of the source (`ImplementsCalls`), and the
  chain of returns comes back (`ProgramReturns`); also in functions with several
  returns, where each has its own epilogue, and with values that live around a
  loop. What this needs of the instructions themselves can be said of each
  function without running it: SP goes down and up by the same amount on the
  way to every return (`StackPointerBalanced`), each callee-saved register that
  changes is saved and reloaded (`CalleeSavedRestored`), and nothing else
  writes its slot (`FrameIndicesOwned`). There is no `analyzeBranch`: the inverted branch, the explicit jump and
  the order of the blocks must fit together by themselves.
- **Comparisons.** Ten condition codes, six branches, exchanged operands,
  signed and unsigned order (`OutcomeAsMeant`); each must be selectable at all
  (`ConditionTypeOK`, `ComparisonDecided`).
- **Globals.** A signed low part and a high part that makes up for it
  (`SymbolReached`, `GlobalTypeOK`).
- **Encoding.** Immediates cut into pieces and put together by the processor
  (`DecodedAsEmitted`).
- **Legality and selection.** Whether an operation ends in instructions is
  decided by a table in one file and patterns in another, with LLVM's expansions
  in between; nothing but the compilation of a program that uses it tells.
  Every operation must come to an end as instructions (`EveryBlockCompiled`,
  `SupportedCompiled`), and immediates, which are sign-extended, are folded only
  where they fit (`ValueAsMeant`).
- **Driver.** The output is buffered, `keep()` and the success message come before
  the flush, a fatal error, an error diagnostic or a signal may come at any point,
  up to the end of the process, and an older `output.s` may be there. Exit status 0
  must mean a whole output (`SuccessMeansOutput`), other ends that clean up no
  partial one (`AllOrNothing`), and none may mix two outputs (`NeverMixed`). Construction needs a dozen registrations and members in the right order (`StartsUp`).

`PROJECT.json` lists under "hazards" each place in the code where one of these
can go wrong, with the properties that would show it.

## 2. Modules

    RV32ICallingConv            calling convention, as constant operators
          |
    RV32IFrame ------------ MCFrame
          |
    RV32ICodegen ---------- RV32ICodegen_proofs  (implements RV32IFrame)
          |                     a function through the whole pipeline
    RV32IExec ------------- RV32IExec_proofs
          |
    RV32IExecCalls -------- MCExec               (implements ProcCalls)

    RV32ICondCodes              lowering of a branch; RV32ICodegen uses it too
          |
    RV32IConditions ------- RV32IConditions_proofs, MCConditions
    RV32IGlobals ---------- RV32IGlobals_proofs, MCGlobals
    RV32IEncoding --------- RV32IEncoding_proofs, MCEncoding
    RV32ISelection -------- RV32ISelection_proofs, MCSelection
    RV32IDriver ----------- RV32IDriver_proofs

    SequenceLemmas              induction and sequences, for the *_proofs modules

**RV32ICallingConv.** `CC_RV32I(i)` is the location of argument word i: X10 to
X17, then the words of the stack. `CSR_RV32I_SaveList` and `ReservedRegs` are
the tables of `RV32ICallingConv.td` and `RV32IRegisterInfo.cpp`.

**RV32IFrame.** `MachineFrameInfo` of one function, in four stages. `fixed`,
`objs`, `varSized`, `adjustsStack`, `maxCallFrame` are its fields while the
function is selected and allocated; `off`, `offset` are the offsets the layout
hands out; `stackSize` is what the prologue reads. `CreateFixedObjects` is the
part of `LowerFormalArguments` that touches the frame, `NoteCallFrame` that of
`LowerCall`. `eliminateFrameIndex`, `PrologueImm`, `EpilogueImm` are what the
backend computes from it. `FrameSpec` lets functions be anything: every list
of objects out of a set, in any order with calls and dynamic allocas.

**RV32ICodegen.** The functions of a program, one after the other, through the
passes of the pipeline. `pass` says which pass runs next; `todo` holds the IR
statements not selected, `code` the machine instructions. The frame of the
function is the state of RV32IFrame, and every pass that touches it uses that
module's action, so that the theorems about the frame are about the same
actions. One action per lowering or hook: `LowerFormalArguments`, `LowerCall`
(with `LowerCallResult`), `LowerReturn`, the selected patterns,
`EliminateCallFramePseudoInstrs`, `SpillCalleeSavedRegisters`, `emitPrologue`,
`emitEpilogue`, `ReplaceFrameIndices`, `ExpandCopies`, `EmitFunction`.

The body of a function is a list of statements with labels in it, the blocks in
the order LLVM lays them out. `StartBlock`, `SelectBR` and `SelectBR_CC` turn a
block and its branch into instructions: SelectionDAGBuilder inverts the condition
when the block of the true case comes next and drops a jump to the next block,
`LoweredBR_CC` (of RV32ICondCodes) exchanges the operands, and a conditional
branch is followed by a jump. Live ranges extend around the loops they cross.
Restores and epilogue go into every return block. Blocks have no phis: values
merge through stack slots, as in code compiled without optimization. Two ASSUMEs
describe the inputs: a program is what LLVM's verifier lets through, a non-empty
list of functions whose last statement is a terminator, whose branches go to blocks
they have, whose calls go to functions of the program and whose `addr` statements
name allocas that exist; and the orders the allocator tries list registers.

**RV32IExec.** The emitted functions laid out one behind the other, and a
machine that executes them: `pc`, `regs`, `mem`. Instruction i of function f is
at `FunctionSpace` * f + i; `CodeFits`, in the guard of `Compile`, keeps functions
shorter than `FunctionSpace` = 1000 instructions. `shadow` and `retval` are
history variables: the activations with the state each was entered with, and
the results of the last return. They guard nothing.

**ProcCalls.** The abstract specification: procedures call each other with the
arguments the source computes, in its order, and return what it computes. It
knows no registers and no memory; its `Run` is an interpreter of the source
statements, block by block (`MaxBlocks` = 6 between two calls, enough for every
configured program), that shares nothing with the code generator. `RV32IExecCalls`
states that `RV32IExec` implements it, under the mapping calls <- `shadow` without
saved registers, results <- `retval`; each machine instruction other than a call or a return, and each
step of the compiler, is a stutter.

**RV32IConditions.** One comparison (BRCOND, BR_CC or SETCC node) on its way
through `LowerBRCOND`, `LowerBR_CC` and `Select`; then the machine executes the
instruction. Words have 2 * `Half` values.

**RV32IGlobals.** One `GlobalAddress` node with an offset on its way through
`LowerGlobalAddress`, `LowerRV32IMachineInstrToMCInst`, the printer's `%hi` and
`%lo`, the linker, LUI and ADDI. `Low` and `High` are the sizes of the two
immediate fields.

**RV32IEncoding.** A format of `RV32IInstrFormats.td` is an operator that gives
bit b of the word from the operands and fixed fields; `InstrInfo` has the format,
opcode, funct3 and funct7 of each instruction, `MCInst` the values its operand
classes admit. `encodeInstruction` appends the word to the buffer, little endian;
the machine reads words back and decodes them by the layouts of the RISC-V
manual, which are written down independently of the formats. `Decodings` is the
set of all instructions a word can be read as. `PseudoBR` is the unconditional branch:
it has the encoding of JAL with rd = x0, and is read back as that.

**RV32ISelection.** A value, a store or a call, written as the term of its DAG.
`Shapes` says which nodes there are and how many operands each has; `Terms` are
the terms at most `MaxDepth` deep, and a rewriting that would go beyond is not taken
(`Rewrite`). `LegalizeOp` replaces a node the target marks Expand by what LLVM
expands it into, in any order; there is one action per kind of pattern of
`RV32IInstrInfo.td`, from the root down (`SelectImm12`, `SelectShamt`,
`SelectRegisters`, ...), and `CannotSelect` when none applies, as for a call whose
callee is in a register; `EmitInstruction` is the AsmPrinter, for which an external
symbol is unreachable: a build with assertions stops ("failed"), without them the
behaviour is undefined and the model says no more ("undefined"). `Value` gives the meaning of nodes and of
instructions alike, in the words the registers hold and a constant `Memory`.
Comparisons other than SETLT and SETULT, branches, global
addresses and frame indices have their modules above. `assertions` is how LLVM
was built: with them a SELECT_CC that would be expanded into a SELECT, itself
Expand, stops the compiler.

**RV32IDriver.** Invocations of `main` in one directory: `run[p]` is what one of
them has constructed, its buffer, its place in the file and how it ended; `name`
is the inode called `output.s` and `data` the content of the inodes. `Initializers`
and `Constructors` are the registrations and members in the order of the code,
with what each needs. `Spill` and `DestroyPass` write the buffer and may get only a
part of it to the file; `DestroyOut` closes it and takes the name off the list of
files to remove; `Exit` is what comes after, the other locals and the flush of `outs()`
with the message, which alone can still turn the status into 1. `Fatal` is
report_fatal_error, which removes the file; `Diagnose` is an error diagnostic, which
exits without doing so; `Signal` and `Kill` come at any time.

**Conventions.** Names are those of the source. An operator `X_suffix` in
front of `X`, marked `mutant`, is `X` with a plausible mistake; no
specification uses it. Putting it in the place of `X` makes a run report the
property that "mutants" in `PROJECT.json` names.

## 3. Runs

| Run | What it shows | States |
|---|---|---|
| `Frame.cfg` | parts of a frame are apart and aligned, whatever the function contains | about 121 k |
| `Exec.cfg` | seven programs, compiled in every way, keep their callers' state and implement their calls | about 31 k |
| `Conditions.cfg` | comparisons are lowered and executed as meant | 2952 |
| `Globals.cfg` | every symbol is reached | 960 |
| `Encoding.cfg` | every instruction is read back as emitted | 4362 |
| `Selection.cfg` | values are kept through legalization and selection; operations with patterns, or expansions into such, are compiled | 1140 |
| `Driver.cfg` | success means a whole output, failure no partial one, outputs are not mixed, start-up works | about 332 k |
| `FrameImm.cfg`, `ExecAlloca.cfg`, `ExecTail.cfg`, `GlobalsOffset.cfg`, `Unsupported.cfg` | disagreements, section 4 | |

**Frame.** Up to `MaxObjects` = 3 allocas and spills, added one or two at a
time out of a word, a byte, a 10-byte buffer, an object aligned to 16 and one
aligned to 32; 0, 8, 9 or 11 arguments of the function and of its calls; 0, 1,
3 or 13 saved registers. With three objects every pair of neighbours in the
placement and every rounding between them occurs, together with each kind of
area; 8, 9 and 11 are the last count without stack arguments, the first with
one and one with several.

**Exec.** Call chains of depth three in which (a) an intermediate procedure
needs both arguments after its call and a procedure is called twice, with a
two-word result; (b) nine and ten arguments travel, in exchanged order, so
that incoming and outgoing stack arguments exist in one frame; (c) a callee
has no frame at all; (d) a loop of three rounds goes around a call of a function
with two return blocks of which only one calls, with the bound, the step and two
addresses live around the loop; and three programs of one procedure with (e) two
variable-sized arrays and no other access to its stack, whose addresses come from
SP after each adjustment. Register allocation is a choice: three orders of the
registers (increasing, decreasing, callee-saved first) and, for each function
separately, whether values living across a call are spilled. The stack holds
512 bytes, more than any of the chains needs; `StoresStayInFrame` and
`ExecTypeOK` would show it if it did not. Values are small, so words are not
reduced modulo 2^32. `NewObjects`, `ArgCounts` and `CSCounts` bound the objects,
arguments and saved registers a pass may add, for the sake of the refinement of
section 5; their values hold whatever these programs need. In (e) locals and calls are
excluded because of finding 2, and `CallerStateRestored` excepts procedures
with arrays; the stores must still stay inside the frame and apart, and the values
read back must be those of the source.

The same run checks `StackPointerBalanced`, `CalleeSavedRestored` and
`FrameIndicesOwned`, on the code of each function after its last pass. They say
of every return block what `CallerStateRestored` shows of the returns that the
seven programs reach. `PointersMissSaves` is about the stores that do not name SP:
through the address of a local or an array, and, in `LowerCall`, through a copy of
SP into the outgoing arguments. None of them hits a word in which a procedure that
has not yet returned keeps a register. It is what the theorems of section 5 about
the machine take as their hypothesis, so the run also shows that it can be met.

`ProgramReturns` is the one property with fairness: WF on `ExecStep`, the
machine keeps executing. That is what a processor does. Nothing is assumed of
the compiler. The property starts when compilation is done, so a program the
compiler gives up on is no counterexample. A machine that jumps to where no
code is, or accesses memory outside the stack, stops (`Stopped`) without
having returned.

**Conditions.** 3-bit words: four negative and four non-negative ones, so that
every pair of signs, equality and both ends of the range occur. All ten codes
for branches; for values the two that have patterns (the others are finding 5). The run has
CHECK_DEADLOCK FALSE because a comparison is over once it has an outcome.
Fairness is WF(Next): neither the compiler nor the machine stops in the middle.

**Globals.** 8 low parts and 4 high parts, every address of the space of 32.
The fields are scaled down, the rounding of `%hi` and the wrap-around at the
top of the space occur. The theorem covers the real sizes.

**Encoding.** All 37 real instructions and PseudoBR with immediates that have each single
bit of the field set, the ends of the range and -1 in units of the field;
registers that have each single bit set. Every instruction is followed by a
store, so that an instruction that is not four bytes long would displace the
next one. Words are real 32-bit words.

**Selection.** 66 blocks: every register pattern, every immediate pattern at both
ends of the range, shifts by 0, 1 and 7, the three widths of SIGN_EXTEND_INREG,
rotations, nested terms with shared nodes, and blocks with every operation of the table
that is not compiled. Words have 8 bits and immediates 5, so that constants just beyond the
immediates are still words; the argument registers take the 12 words at the ends of
every range involved, in all pairs. `ValueAsMeant` compares source and block where the
source is defined (a shift by the width or more is poison); the operations that
never become instructions have no value. `SupportedCompiled` is about the 46 blocks of
the first groups, with operations the backend has patterns for or expands into such:
each is compiled to its end. The other 20 are finding 5, and `Unsupported.cfg` takes them
alone. No block comes near the depth of `MaxDepth` = 7: one that a bound held up would
never be finished, and `SupportedCompiled` would show it. Fairness is WF(Next): the
compiler is one thread that does not pause. A block that is done or refused stays so:
CHECK_DEADLOCK FALSE.

**Driver.** Two invocations, one after the other or overlapping; an output of two
pieces, so that it can be complete, empty or cut; `output.s` of an earlier run or
none. The properties of `output.s` speak of an invocation that overlapped no other:
two at once do overwrite each other (the inodes are modelled so, with holes), and
nothing in the code promises otherwise. `AllOrNothing` is about every end but two: a
SIGKILL, after which nobody can clean up, and an error diagnostic, after which LLVM
exits without doing so (the last remark of section 4). In the window between the close of `output.s` and the end of the process it says that the new
file is whole although the status is not 0. `NeverMixed` excepts no end: the next
invocation may find what a killed or diagnosed one left, and must not leave any of it
in its own output. No fairness: an invocation may hang. CHECK_DEADLOCK FALSE, because
the run is over when both invocations have ended.

## 4. Disagreements found

1. **Frames beyond 2047 bytes** (`FrameImm.cfg`, `ImmediatesFit`). The comment in
   `emitPrologue` says frames are limited to the range of ADDI. Nothing limits
   them: a 2100-byte local gives an ADDI whose immediate does not fit.
2. **Dynamic allocas** (`ExecAlloca.cfg`, `StackPointerRestored`). There is no
   frame pointer; after a variable-sized alloca SP is lower than the epilogue
   and the reloads before it assume.
3. **Calls marked tail** (`ExecTail.cfg`, `StaysInProcedure`). `LowerCall` leaves
   `CLI.IsTailCall` set. LLVM then emits no return after the call, and execution
   runs into the next function.
4. **Offset of a global** (`GlobalsOffset.cfg`, `AddressAsMeant`). The AsmPrinter
   does not read the offset of a MO_GlobalAddress operand.
5. **Operations that end nowhere** (`Unsupported.cfg`, `EveryBlockCompiled`). The comments
   of the operation table in `RV32ISelLowering.cpp`, and the README of the repository,
   which lists arithmetic, memory, branches and calls as supported, say otherwise of each:
   - comparisons as values (`Comparisons`): SETCC is Legal for all codes and has patterns
     for two; the comment says the legalizer makes up the others;
   - selects (`Selects`): SELECT and SELECT_CC are both Expand, each into the other: an
     assertion of LLVM, or legalization without end;
   - multiplication and division (`Multiplications`): they become calls of an external
     symbol, an operand `LowerRV32IMachineInstrToMCInst` has no case for;
   - bytes and halfwords (`Bytes`): their loads and stores have instructions but no
     patterns;
   - constants beyond 12 bits (`WideConstants`), those of the program and those inside
     the expansions of CTPOP, CTLZ, CTTZ and BSWAP: no pattern;
   - jump tables (`JumpTables`): BR_JT is expanded into a BRIND, which has no pattern;
   - calls through pointers (`IndirectCalls`): the patterns of PseudoCALL take a global
     or an external symbol, `LowerCall` passes on any callee.

   TLC reports one block; each kind is shown by itself when its set in `MCSelection` takes
   the place of `Unsupported` in the cfg.

The runs of 1 to 3 and 5 have CHECK_DEADLOCK FALSE: they ask one question and the
system may stop after it (a caller's state is lost, a node cannot be selected, a
bound is reached).

Three more remarks. A leaf function subtracts the bare size of its locals from SP,
although `RV32IFrameLowering.h` asks for a multiple of 16: the transient alignment
is left at 1. What functions rely on still holds, `CallsAligned` is proved. The
driver says "Successfully compiled" before the buffered output is written; when a
write fails then, only the exit status tells (`SuccessMeansOutput`). And the driver,
unlike llc, sets no diagnostic handler: an error diagnostic in code generation (a bad inline
asm constraint, say) is printed by LLVM and followed by exit(1) inside `Pass.run`, past
the clean-up of ToolOutputFile, so that an emptied or cut `output.s` stays behind
(`Diagnose`). `AllOrNothing` does not hold of that end; that the status tells of it, and that
the next invocation keeps nothing of what it left, does.

## 5. Proofs

The first part of `RV32ICodegen_proofs` is about `FrameSpec`, for every set of object
lists, every set of argument counts and of saved registers, every bound. The only
assumptions are the named ASSUMEs of `RV32IFrame`: objects have a positive size
and an alignment of at most 32, counts are natural numbers. None of the
properties is inductive: they speak of resolved frame indices, and say nothing
before the frame is sized. `FrameInv` adds what the placement keeps:

- `PlacedInside`: every object placed so far lies in the `offset` bytes below
  the incoming SP and is aligned. It is why the next object, which goes below
  `offset`, meets none of them.
- `PlacedDisjoint`: the placed objects are pairwise disjoint.
- `NothingPlacedYet`: objects and calls are only added before the first
  placement, so what was placed stays as it was.
- `SizedFrame`: at the end all are placed, and the frame has room for them and
  for the outgoing arguments.

One lemma per operation shows that it keeps `FrameInv`. `AreasApart`,
`ObjectsDisjoint`, `ObjectsAligned`, `CallsAligned` follow from it by
`ResolvedLemma`: a resolved index is the offset from the incoming SP plus the
frame size.

`ArgumentsApart` is the calling convention by itself, for argument lists of every
length: no two arguments share a register or a word of the stack, and the caller
writes a stack argument, inside the area it reserved, where the callee has its
fixed object.

Its second part carries this over to code generation: every behaviour of
`CompileSpec`, for every set of programs and allocation orders, is one of
`FrameSpec` (`CompileImplementsFrame`). `StepOfFrame` shows it action by action:
an action of the code generator that touches the frame is built on the frame's
action for the same hook, the others leave the frame alone. So `AreasApart`,
`ObjectsDisjoint`, `ObjectsAligned` and `CallsAligned` hold in every state of every
compilation, with no assumption about the program beyond those on the constants.

The third part proves `StackPointerBalanced`, `CalleeSavedRestored`
and `FrameIndicesOwned` for every program and every allocation order. They are
about the code of the last passes and no pass establishes one alone: the saves are
put in by one pass, moved by the prologue, given their addresses by another; the
reloads must stay in front of an epilogue that comes later. `CodegenInv` says
what the passes hand on:

- `SelectedInv`, up to the insertion of the saves: every frame index is that of an
  object there is, and SP is written only in a function with variable-sized
  objects. Selection keeps it statement by statement, register allocation because
  it hands out registers of the orders and spills into objects it creates, and
  `EliminateCallFramePseudoInstrs` because of the reserved call frame.
- `FramedInv`, from there on: `Framed(c, resolved, pre, post)` describes the code with
  `pre` instructions of prologue, `post` of epilogue before each return, and frame
  indices replaced or not: the saves follow the prologue (`SavesAtEntry`), the
  reloads come before the epilogue of every return in the order of the slots
  (`RestoresBeforeReturns`), what is clobbered is saved (`ClobberedSaved`),
  `AdjustsSP`, `IndicesOwned`. Each pass turns one instance of it into the next.

TLC checked `CodegenInv` in every state of the Exec instance before it was proved.

`RV32IExec_proofs` goes from there to the machine that runs the code. It proves
`CallerStateRestored`, `CalleeStackAligned`, `StaysInProcedure` and `ExecTypeOK`, and
that no store through SP leaves the frame of its procedure
(`CompiledSPStoresInFrame`), for every program, call graph (recursion included),
allocation order and choice of spills, under two hypotheses:

- `PlainProgram`: no function has variable-sized arrays or calls marked tail. With
  them a procedure need not restore SP, or return at all: findings 2 and 3.
- `[]PointersMissSaves`, at every step of the execution. A program can overwrite its
  own stack through a pointer, and then nothing holds; which words its pointers
  reach is decided by values computed at run time and not by the code generator.
  The hypothesis asks for as little as the argument needs: not that pointers stay in
  their objects or frames, but that they hit no word of an active procedure that
  is there for a callee-saved register (`SaveWords`). It also covers the stores of outgoing arguments, which
  `LowerCall` makes through a copy of SP: that this copy is still in its register
  is a statement about the values a program computes.

The second hypothesis speaks of all active procedures. `CompiledPointersMissSaves`
derives it from one about each procedure alone, `[]PointersInFrame`: its stores
through pointers stay in its own frame and off its own saved registers. Since frames
lie below each other (`OwnFrameSuffices`), such a store reaches nothing of a caller.
Under the same condition `CompiledStoresStayInFrame` proves the action property
`StoresStayInFrame`; what it adds to the condition is that saves, spills and locals
addressed through SP stay inside too, and that nothing but a store changes the stack.
TLC checked `PointersInFrame` on the Exec instance; a program that passes the address of
a local to a callee which stores through it meets `PointersMissSaves` only.

The machine of the theorems is that of the run: words are integers and do not wrap,
and an ADDI takes the immediate it is given, so that frames beyond 2047 bytes (finding
1) are a matter of encoding. An access outside the stack stops the machine.

The proof has three invariants, one on top of the other:

- `ControlInv`, next to `CodegenInv`, follows a function through the passes. Each
  source operand is a register or a frame index; a conditional branch or jump names
  a block that has been or will be started (`SelectionInv`); the code ends in a
  return or a jump (`Closed`); stores relative to SP go to objects, and to the slot of
  a saved register only among the saves (`StoresToObjects`). A pass that rewrites the
  code instruction by instruction is described by what it puts in the place of one
  (`PartOf`), and the lemmas `PointwiseClosed` and `FrontClosed` say that this keeps
  the code closed.
- `LayoutInv` is what is left once a function is emitted (`CompiledControl`): for each
  there is a frame `l` with `LaidOut(b, l, fns)`. SP is lowered by the first instruction,
  if at all, and raised right before every return; then come the saves, in words of
  their own inside the frame; the loads before a return are in the same order; what is
  clobbered is saved; labels have become positions, and no jump leads into the
  prologue, the saves or the middle of a return sequence.
- `MachineInv` is what the machine keeps while it runs such code. `Active` says of the
  procedure on top of the stack, at its instruction i: SP is its entry SP, less the
  frame size between prologue and epilogue (`Lowered`); a register that is saved has
  its entry value in its word from the save on, in the register before it, and again
  in the register after its reload (`Restored`); a register that is not saved still has
  its entry value. `Suspended` says the same of a procedure that waits for its callee,
  with the return address in a call it made; and the frames lie below each other.

`MachineInv` is needed because `CallerStateRestored` says nothing between a call and its
return: while the callee runs, the caller's registers are in two places at once, its
own save words and those of its callees, and only all activations together say where.
A step that stays in the procedure keeps it by `ActiveNext` or `ActiveJump`, a call
turns `Active` into `Suspended` (`CallSuspends`), a return turns it back
(`ReturnRestores`, `ActiveReturned`). TLC checked `LayoutInv` and `MachineInv` in
every state of the Exec instance before they were proved.

`RV32IConditions_proofs` is for words of every width and every set of codes.
`ConditionInv` says what each intermediate node means (`CurrentMeaning`) and
that it is what the program meant; `LoweredLemma` is the exchange of operands,
`BranchLemma` and `CompareLemma` the choice of instruction.

`RV32IGlobals_proofs` is for immediate fields of every even size, in particular
2^12 and 2^20. `HiLoLemma` says that the two parts fit their fields and add up to the
address modulo the address space; `GlobalInv` follows the symbol through the
forms of the operands.

`RV32IDriver_proofs` is about any number of invocations and outputs of any length.
`DriverInv` has three parts. `PartsInv` says what each invocation has constructed and
counted: what is left to construct finds what it needs (`Served`, kept by every
construction: `ServedTail`). `FileInv` says, of an invocation that overlaps no other,
that `output.s` is what was there before until it opens it; that from then on the
name refers to the inode it has open, which holds nothing but pieces of its own output
(`Own`), whatever writes failed, and, unless one failed, file and buffer
together are the pieces made so far (`WrittenAppends`); that after the close the
output is whole; and how it ended. No other
invocation can disturb that, because none is running (`FileOfOthers`). All five
properties of the run follow; the one assumption used is that an output has a piece.

`RV32IEncoding_proofs` is for every stream of instructions whose operands are in
their classes. `IInv` says that the bytes of the k-th word are those of the k-th
instruction, and that each word read so far was decoded into that instruction and
no other. The lemmas go from the bits up: `Bits` gives back the number whose bits
stand in a field; the pieces of each format's immediate, put together as the
manual says, are the immediate, sign included; opcode, funct3 and funct7 tell all
instructions of the table apart; and four bytes are the word they came from.

`RV32ISelection_proofs` is for words of 4, 8, 16 and 32 bits, immediates of any width up to
that, every memory, every set of sources and every `MaxDepth`. A DAG `Refines`
another when it has the same value wherever that one is defined. `IInv` says that
the DAG refines the source for all contents of the argument registers (`DagsOK`),
and that emitted instructions are instructions of the DAG with their operands
emitted before them (`EmittedOK`). By induction over terms, a node replaced by one
that refines it leaves a DAG that refines the old one (`ReplaceRefines`); what
remains is one lemma per expansion and per kind of pattern. The two that are not
obvious are that the OR of two shifts is the rotation, because they share no
bits, and that shifting left and then arithmetically right extends the sign.

*How recursive data is handled.* `SequenceLemmas` derives induction from the
library's theorem that < on the natural numbers is well founded, used at a set
instead of an operator (`NatInduct`). Recursive functions are used on bounded
domains: that such a function exists is proved with `NatInduct`, then its
definition unfolds. A sequence put together by FlattenSeq is described by the places
of its parts (`Flattened`, `Contiguous`).

*Only model-checked:*

- `PointersInFrame`, to which `PointersMissSaves` and `StoresStayInFrame` are reduced: it
  needs that a register still holds the pointer the program computed, through
  allocation and spills, and that the program only computes pointers into its objects.
- `ImplementsCalls`, for the same reason, and because the abstract specification
  computes with `ProcCalls!Run`, a RECURSIVE operator, which no module with a theorem
  may reach; `RV32IExecCalls` is a module of its own for that.
- Liveness: `ProgramReturns`, `ComparisonDecided`, `SupportedCompiled`. Out of
  TLAPS's reach.

## 6. What is assumed of LLVM and of the machine

LLVM itself is not in the repository. These definitions model it from how the
backend uses it, and are marked external in the map:

- *Frame layout* (`PlaceObject`, `SetStackSize`): PrologEpilogInserter gives each
  object the next bytes below, aligned, saved registers first; reserves the
  outgoing argument area when the target says so; rounds to the stack alignment
  in a function that calls or has variable-sized objects and to the transient
  alignment otherwise, and to the largest alignment of an object.
- *Register allocation* (`RegAlloc`): values whose live ranges overlap, or that a
  call clobbers, do not share a register; spilled ones are stored after their
  definition and reloaded before each use through scratch registers. Which
  allocation is chosen is left open over the configured orders.
- *Saves* (`SpillCalleeSavedRegisters`): every register of the save list that some
  instruction writes is stored at the entry and reloaded before every return.
- *Statement order*: allocas first, arguments before the body; blocks in the order
  of the source, a tail call ends its block.
- *Branches* (`Follows`, `Inverted`): SelectionDAGBuilder inverts a condition whose
  true block comes next and emits no jump to the next block. Nothing changes the
  layout later: without `analyzeBranch` LLVM leaves terminators alone.
- *Live ranges* (`LiveRange`, `Loops`): a value used in a loop it was defined before
  lives to the end of the loop.
- *Expansions* (`Expansion`): those of LegalizeDAG for the operations of the table.
- *Files and signals*: ToolOutputFile registers its file for removal before it opens
  it, and takes it off that list when it has closed it; raw_fd_ostream keeps a write
  error and reports it, as a fatal error, when it is destroyed, the one of `outs()` with
  the static objects; report_fatal_error runs the signal handlers. LLVMContext::diagnose
  without a handler prints an error and calls exit(1), which destroys static objects but
  no locals.
- *Variable-sized arrays*: SelectionDAGBuilder rounds the number of bytes up to the stack
  alignment before it creates the node that is expanded; the `bytes` of an `alloca`
  statement are what it has after that, multiples of 16 in the configured programs.
- *Assembler and linker*: `%hi` and `%lo` as the RISC-V assembler defines them.
- *The machine*: the instruction semantics of the RISC-V manual.

## 7. What is not modelled

- Phis between blocks; branches on unsigned comparisons in executed programs (they
  are in RV32IConditions); switch statements.
- Integer widths other than a word: promotion of i8 and i16 arguments and results.
- Varargs, aggregates returned through memory, more than two result words
  (`RetCC_RV32I` has no third place, and `CanLowerReturn` is not overridden).
- What a release build does after an llvm_unreachable: RV32ISelection ends in a phase
  "undefined" that no property counts as compiled.
- Object emission of labels: the emitter encodes them as 0 and says that fixups
  are not supported. The driver only asks for assembly.
- Text layout of the assembly, command line parsing, the scheduling model, the stack
  slot queries of `RV32IInstrInfo`: no state the properties could tell apart.

## 8. Plan

Done, in this order: the frame and its theorems; code generation and execution
with the abstract specification; comparisons, globals, encoding; blocks and
branches; the refinement from code generation to the frame; selection; the driver;
theorems about each of these, last those about the machine that runs the code.

Next:

1. That a register allocation keeps values: each use of a value reads the register
   or spill slot its definition wrote. It is what `PointersInFrame`, as far as outgoing
   arguments go, and a proof of `ImplementsCalls` would start from.
2. Phis, as copies at the end of the predecessors, and the critical edges they need.
3. Promotion of sub-word arguments and results.
