\* A frame beyond the range of the 12-bit immediates.
SPECIFICATION FrameSpec
CONSTANTS
    NewObjects <- BigObjects
    ArgCounts <- MCArgCounts
    CSCounts <- MCCSCounts
    MaxObjects = 2
INVARIANT ImmediatesFit
CHECK_DEADLOCK FALSE
