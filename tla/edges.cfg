\* Framing with room for 4 and 6 bytes a report, two routes, two buttons and a short tick,
\* a wheel of two digits, and an element that draws two bytes a command.
CONSTANTS
    FrameSize = 11
    MinApdu = 2
    MaxApdu = 15
    TxSlots = 3
    Lengths <- FrameLengths
    MaxMessages = 3
    MaxRoutes = 2
    MaxResp = 19
    Instructions = {4, 6, 216}
    Handlers = {"config", "sign"}
    Returns <- MCReturns
    Requests <- MCRequests
    ButtonCount = 2
    Debounce = 2
    LongPress = 3
    TickMod = 6
    PollGaps <- OneOrTwo
    Digits = 2
    PinMin = 1
    PinMax = 2
    AnswerLength <- MCAnswerLength
    Draws <- MCDraws
    Statuses = {15, 255}
    Attempts = 2
    Flips = 2
    Wanted = {3}
    SaltLength = 2
    Keys <- MCKeys
SPECIFICATION EdgesSpec
INVARIANTS
    BuffersHold
    PinAsDialled
    RandomAsDrawn
    ApduAnswered
PROPERTIES
    TransportSpec
    LongMeansHeld
    PressSeen
CHECK_DEADLOCK FALSE
