\* Setup, PIN entry, lockout and setup again; no host and no power cuts.
CONSTANTS
    Seeds = {s1, s2}
    NoSeed = NoSeed
    Indices <- OneIndex
    NoIndex = NoIndex
    Pins = {p1, p2}
    NoPin = NoPin
    MaxFails = 3
    CountMod = 8
    Heads = {h1}
    Tails = {t1}
    NoPiece = NoPiece
    RawMax = 2
    Requests <- NoRequests
    HostMayTimeOut = FALSE
    NoBody = NoBody
    PowerCuts = FALSE
SPECIFICATION Spec
INVARIANTS
    SeedReachable
    LockoutAfterMaxFails
    TriesLeftAccurate
PROPERTIES
    VaultSpec
CHECK_DEADLOCK TRUE
