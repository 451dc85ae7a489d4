\* Three anchors; the server loses its anchors once.
SPECIFICATION FairSpec
CONSTANTS
    MaxAnchor = 3
    MaxLosses = 1
CHECK_DEADLOCK FALSE
INVARIANTS
    TypeOK
    Caught
    StatusFits
PROPERTIES
    OwnSent
    AnchorForward
    RoundEnds
