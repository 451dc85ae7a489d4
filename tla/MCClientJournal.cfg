\* Two actions of the user, one retry of the preparation, one crash or exit.
SPECIFICATION FairSpec
CONSTANTS
    MaxActs = 2
    MaxRetry = 1
    MaxStops = 1
INVARIANTS
    TypeOK
    Kept
    RiverKept
    Woken
PROPERTIES
    Drains
