\* Every symbol.
SPECIFICATION Spec
CONSTANTS
    Low = 8
    High = 4
    Symbols <- EveryAddress
    Offsets <- SmallOffsets
INVARIANTS GlobalTypeOK SymbolReached
