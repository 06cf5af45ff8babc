\* Compile and run seven programs, every allocation choice.
SPECIFICATION Spec
CONSTANTS
    NewObjects <- MCNewObjects
    ArgCounts <- MCArgCounts
    CSCounts <- MCCSCounts
    MaxObjects = 60
    Programs <- MCPrograms
    AllocationOrders <- MCOrders
    StackTop = 1024
    StackLow = 512
INVARIANTS ExecTypeOK CallerStateRestored CalleeStackAligned
           PointersMissSaves
           StackPointerBalanced CalleeSavedRestored FrameIndicesOwned
PROPERTIES StoresStayInFrame ImplementsCalls ProgramReturns
