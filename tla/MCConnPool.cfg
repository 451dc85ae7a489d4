\* The lists, the timer's walk and the descriptors, stale events included.
SPECIFICATION FairSpec
CONSTANTS
    SlotCount <- MCSlotCount
    CheckTotal = 2
    FdCount <- MCFdCount
INVARIANTS
    TypeOK
    Linked
    OwnDescriptor
PROPERTIES
    SilentClosed
