SPECIFICATION Spec
CONSTANTS
    d1 = d1
    d2 = d2
    c1 = c1
    c2 = c2
    None = None
    Devices <- TwoDevices
    Conns <- TwoConns
    MaxSeion = 3
    MaxOpens = 1
    MaxActs = 1
    MayRace = TRUE
    MayDrop = TRUE
    MayVanish = FALSE
    MayLapse = TRUE
    MayLose = FALSE
    MayRepeat = FALSE
    MayFailDisk = TRUE
    MayClear = FALSE
    MayCrash = TRUE
SYMMETRY Symmetry
INVARIANTS
    CacheNeverAhead
