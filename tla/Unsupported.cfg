\* Blocks with the operations that have an action or an instruction but end
\* nowhere; any one kind of MCSelection can take the place of Unsupported.
SPECIFICATION Spec
CONSTANTS
    WordBits = 8
    ImmBits = 5
    MaxDepth = 7
    Memory <- SomeMemory
    Inputs <- SomeWords
    Sources <- Unsupported
PROPERTY EveryBlockCompiled
CHECK_DEADLOCK FALSE
