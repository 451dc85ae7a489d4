SPECIFICATION FairSpec
CONSTANTS
    d1 = d1
    d2 = d2
    c1 = c1
    c2 = c2
    None = None
    Devices <- TwoDevices
    Conns <- TwoConns
    MaxSeion = 3
    MaxOpens = 2
    MaxActs = 2
    MayRace = FALSE
    MayDrop = TRUE
    MayVanish = FALSE
    MayLapse = FALSE
    MayLose = FALSE
    MayRepeat = FALSE
    MayFailDisk = FALSE
    MayClear = FALSE
    MayCrash = FALSE
INVARIANTS
    NoDangling
    ReferCovers
    OneDevice
    CacheCoherent
    ServerCount
PROPERTIES
    NothingLost
    Unlocked
    ImplementsTenure
