SPECIFICATION Spec
CONSTANTS
    s1 = s1
    s2 = s2
    u1 = u1
    u2 = u2
    Servers = {s1, s2}
    Users = {u1, u2}
    Configured <- OneConfigured
    NoServer = NoServer
    Rotate = 2
    MaxDraws = 2
    MaxRefer = 2
    MaxList = 2
    MaxAsked = 2
    MaxHeld = 2
SYMMETRY UserSymmetry
CONSTRAINT Explored
INVARIANTS
    TypeOK
    CountsLocked
PROPERTIES
    EndsFindServer
