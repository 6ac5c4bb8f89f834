\* A power cut at any step, a host that sends again without waiting, two PINs.
CONSTANTS
    Seeds = {s1}
    NoSeed = NoSeed
    Indices <- OneIndex
    NoIndex = NoIndex
    Pins = {p1, p2}
    NoPin = NoPin
    MaxFails = 2
    CountMod = 8
    Heads = {h1}
    Tails = {t1}
    NoPiece = NoPiece
    RawMax = 2
    Requests <- SignRequests
    HostMayTimeOut = TRUE
    NoBody = NoBody
    PowerCuts = TRUE
SPECIFICATION Spec
INVARIANTS
    LockAgreement
    OneWallet
    PageInRange
    PendingOnScreen
    SeedKeepsItsPin
PROPERTIES
    SeedOnlyWiped
CHECK_DEADLOCK TRUE
