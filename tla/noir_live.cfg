\* A host that waits for its answers, all instructions, a user who decides.
CONSTANTS
    Seeds = {s1}
    NoSeed = NoSeed
    Indices <- OneIndex
    NoIndex = NoIndex
    Pins = {p1}
    NoPin = NoPin
    MaxFails = 2
    CountMod = 8
    Heads = {h1}
    Tails = {t1}
    NoPiece = NoPiece
    RawMax = 2
    Requests <- AllRequests
    HostMayTimeOut = FALSE
    NoBody = NoBody
    PowerCuts = FALSE
SPECIFICATION FairSpec
PROPERTIES
    RequestAnswered
CHECK_DEADLOCK TRUE
