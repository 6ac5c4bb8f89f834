\* A host that waits; CENTER may be down when a review comes up.
CONSTANTS
    Seeds = {s1}
    NoSeed = NoSeed
    Indices <- OneIndex
    NoIndex = NoIndex
    Pins = {p1}
    NoPin = NoPin
    MaxFails = 2
    CountMod = 8
    Heads = {h1}
    Tails = {t1}
    NoPiece = NoPiece
    RawMax = 2
    Requests <- SignRequests
    HostMayTimeOut = FALSE
    NoBody = NoBody
    PowerCuts = FALSE
SPECIFICATION Spec
INVARIANTS
    HoldStartsOnReview
CHECK_DEADLOCK TRUE
