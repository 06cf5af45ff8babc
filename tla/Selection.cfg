\* Blocks of every kind of operation, with and without a way to instructions.
SPECIFICATION Spec
CONSTANTS
    WordBits = 8
    ImmBits = 5
    MaxDepth = 7
    Memory <- SomeMemory
    Inputs <- SomeWords
    Sources <- EverySource
INVARIANTS SelectionTypeOK ValueAsMeant
PROPERTY SupportedCompiled
CHECK_DEADLOCK FALSE
