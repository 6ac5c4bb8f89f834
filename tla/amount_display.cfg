CONSTANTS
    Limbs = 3
    LimbBits = 8
    Extra = 2
    Ten = 3
    Window = 4
    LaneBytes = 2
    KeccakBytes = 2
    Prime <- MCPrime
    CurveCount = 2
    Curves <- MCCurves
    Numbers <- MCNumbers
    Scalars <- MCScalars
    Privates = {1, 1046699}
    Nonces = {1, 31337, 777777}
    Squeezed <- MCSqueezed
    Stirred <- MCStirred
    MessageBytes <- MCMessageBytes
    Pieces = {0, 1, 5, 26, 32, 33}
    StreamBound = 66
    Counts = {0, 65280}
    KeyLengths = {3, 32, 33}
    Amounts = {3, 16, 37}
    IntBytes = 2
    SizeBytes = 2
    ChainBytes = 3
    LengthBytes = 2
    AlmostBytes = 2
    HashBytes = 3
    Halves <- MCHalves
    SampleBytes = {0, 1, 2, 48, 127, 128, 130, 255}
    Nonces256 <- MCNonces256
    Chains <- MCChains
    DataLengths = {0, 1, 2, 55, 56, 300, 2040}
    DigitCounts = {1, 9, 12, 13, 18, 19, 20, 24, 31, 32, 33, 41, 42, 77, 78, 79, 80}
    Payloads <- MCPayloads
    HdCurves <- MCHdCurves
    DepthMax = 300
    Hardened = 128
    Tries = 20
    CacheSize = 2
    CacheDepth = 2
    WordBits = 11
    WordList <- MCWordList
    SeedRounds = 16
    PhraseRoom = 6
    PassRoom = 4
    PassMax = 5
    SeedCacheSize = 2
    Mixed <- MCMixed
    Depths = {0, 255, 300}
    Paths <- MCPaths
    Phrases <- MCPhrases
    Entropies <- MCEntropies
SPECIFICATION Spec
INVARIANTS
    AmountInDecimal
