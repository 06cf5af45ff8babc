\* A call marked tail, right before the return.
SPECIFICATION Spec
CONSTANTS
    NewObjects <- MCNewObjects
    ArgCounts <- MCArgCounts
    CSCounts <- MCCSCounts
    MaxObjects = 60
    Programs <- TailPrograms
    AllocationOrders <- MCOrders
    StackTop = 1024
    StackLow = 512
INVARIANT StaysInProcedure
CHECK_DEADLOCK FALSE
