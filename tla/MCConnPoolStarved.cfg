\* A timer that looks at a part of the pool.
SPECIFICATION FairSpec
CONSTANTS
    SlotCount <- FewSlots
    CheckTotal = 1
    FdCount <- FewFds
PROPERTIES
    AllSilentClosed
