SPECIFICATION Spec
CONSTANTS
    d1 = d1
    d2 = d2
    c1 = c1
    c2 = c2
    None = None
    Devices <- OneClient
    Conns <- TwoConns
    MaxSeion = 3
    MaxOpens = 2
    MaxActs = 1
    MayRace = FALSE
    MayDrop = TRUE
    MayVanish = TRUE
    MayLapse = FALSE
    MayLose = FALSE
    MayRepeat = FALSE
    MayFailDisk = FALSE
    MayClear = FALSE
    MayCrash = FALSE
PROPERTIES
    LastExceptionFlushes
