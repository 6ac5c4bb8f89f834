\* A host that waits; its request may come while the words are shown.
CONSTANTS
    Seeds = {s1}
    NoSeed = NoSeed
    Indices <- OneIndex
    NoIndex = NoIndex
    Pins = {p1}
    NoPin = NoPin
    MaxFails = 2
    CountMod = 8
    Heads = {h1}
    Tails = {t1}
    NoPiece = NoPiece
    RawMax = 2
    Requests <- HandlerRequests
    HostMayTimeOut = FALSE
    NoBody = NoBody
    PowerCuts = FALSE
SPECIFICATION Spec
INVARIANTS
    HomeOnlyAfterBackup
CHECK_DEADLOCK TRUE
