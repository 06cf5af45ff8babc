\* A variable-sized array next to a local, and a call.
SPECIFICATION Spec
CONSTANTS
    NewObjects <- MCNewObjects
    ArgCounts <- MCArgCounts
    CSCounts <- MCCSCounts
    MaxObjects = 60
    Programs <- AllocaPrograms
    AllocationOrders <- MCOrders
    StackTop = 1024
    StackLow = 512
INVARIANT StackPointerRestored
CHECK_DEADLOCK FALSE
