\* A host that sends its next transaction while one is under review.
CONSTANTS
    Seeds = {s1}
    NoSeed = NoSeed
    Indices <- OneIndex
    NoIndex = NoIndex
    Pins = {p1}
    NoPin = NoPin
    MaxFails = 2
    CountMod = 8
    Heads = {h1, h2}
    Tails = {t1}
    NoPiece = NoPiece
    RawMax = 2
    Requests <- SignRequests
    HostMayTimeOut = TRUE
    NoBody = NoBody
    PowerCuts = FALSE
SPECIFICATION Spec
INVARIANTS
    SignedAsReviewed
CHECK_DEADLOCK TRUE
