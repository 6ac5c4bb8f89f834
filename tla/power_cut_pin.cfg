\* Power cuts, no host: the PIN record is being rewritten when power goes.
CONSTANTS
    Seeds = {s1}
    NoSeed = NoSeed
    Indices <- OneIndex
    NoIndex = NoIndex
    Pins = {p1, p2}
    NoPin = NoPin
    MaxFails = 2
    CountMod = 8
    Heads = {h1}
    Tails = {t1}
    NoPiece = NoPiece
    RawMax = 2
    Requests <- NoRequests
    HostMayTimeOut = FALSE
    NoBody = NoBody
    PowerCuts = TRUE
SPECIFICATION Spec
INVARIANTS
    SeedReachable
CHECK_DEADLOCK TRUE
