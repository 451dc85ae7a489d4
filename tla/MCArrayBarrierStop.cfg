\* What becomes of the workers once the user stops the transmission.
SPECIFICATION FairSpec
CONSTANTS
    t1 = t1
    t2 = t2
    t3 = t3
    None = None
    Threads <- MCThreads
    SlotCount <- MCSlotCount
    NodeCount <- MCNodeCount
    ArrayOf <- MCArrayOf
    Pending <- MCPending
    MayStop = TRUE
    MayFailConnect = FALSE
    MayFailRead = FALSE
PROPERTIES
    StopReturns
