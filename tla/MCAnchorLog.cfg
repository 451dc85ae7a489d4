\* Lists from anchors, with breaks, deaths, disk failures and clear_backup.
SPECIFICATION FairSpec
CONSTANTS
    d1 = d1
    d2 = d2
    None = None
    Tool = Tool
    Gone = Gone
    Devices <- MCDevices
    EntrySize = 2
    Backlog = 2
    MaxActs = 2
    MaxAnchor = 5
INVARIANTS
    TypeOK
    NothingMissed
    SearchInside
PROPERTIES
    SearchEnds
    ImplementsChangeLog
