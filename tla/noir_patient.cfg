\* A host that waits for its answers; transactions that differ in head or tail,
\* two accounts, one PIN, no power cuts.
CONSTANTS
    Seeds = {s1}
    NoSeed = NoSeed
    Indices <- TwoIndices
    NoIndex = NoIndex
    Pins = {p1}
    NoPin = NoPin
    MaxFails = 2
    CountMod = 8
    Heads = {h1, h2}
    Tails = {t1, t2}
    NoPiece = NoPiece
    RawMax = 2
    Requests <- HandlerRequests
    HostMayTimeOut = FALSE
    NoBody = NoBody
    PowerCuts = FALSE
SPECIFICATION Spec
SYMMETRY PieceSymmetry
INVARIANTS
    TypeOK
    SignedAsReviewed
    AnswerFitsRequest
PROPERTIES
    AnswersNotCut
    SignerSpec
CHECK_DEADLOCK TRUE
