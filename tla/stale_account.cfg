\* A host that waits and confirms one account between two chunks for another.
CONSTANTS
    Seeds = {s1}
    NoSeed = NoSeed
    Indices <- TwoIndices
    NoIndex = NoIndex
    Pins = {p1}
    NoPin = NoPin
    MaxFails = 2
    CountMod = 8
    Heads = {h1}
    Tails = {t1}
    NoPiece = NoPiece
    RawMax = 2
    Requests <- HandlerRequests
    HostMayTimeOut = FALSE
    NoBody = NoBody
    PowerCuts = FALSE
SPECIFICATION Spec
INVARIANTS
    AccountAsRequested
CHECK_DEADLOCK TRUE
