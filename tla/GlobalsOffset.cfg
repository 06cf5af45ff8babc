\* An element of a global array.
SPECIFICATION Spec
CONSTANTS
    Low = 8
    High = 4
    Symbols <- EveryAddress
    Offsets <- SmallOffsets
INVARIANT AddressAsMeant
