\* The barrier with stops and read errors: safety, refinement, termination.
SPECIFICATION FairSpec
CONSTANTS
    t1 = t1
    t2 = t2
    t3 = t3
    None = None
    Threads <- MCThreads
    SlotCount <- MCSlotCount
    NodeCount <- MCNodeCount
    ArrayOf <- MCArrayOf
    Pending <- MCPending
    MayStop = TRUE
    MayFailConnect = TRUE
    MayFailRead = TRUE
INVARIANTS
    TypeOK
    StartBarrier
    GroupOrder
PROPERTIES
    ImplementsSchedule
    Termination
