SPECIFICATION Spec
CONSTANTS
    Prices = {10, 12, 15}
    Imbalances = {20, 50, 80}
    Trigger = 65
    Depths = {0, 2}
    Sizes = {1, 2}
    TakerCost = 1
    MakerFee = 1
    Stop = 2
    Target = 1
    Ttl = 1
    Timeout = 2
    MaxTs = 3
    Null = null
    MaxSessions = 2
    Span = 3
    MinSpan = 1
    PageLimit = 1
    MaxPages = 2
    Requests = {1, 2}
    Universe <- MCUniverse
    UsEquities = {"equity"}
    Ranges <- MCRanges
    Intents = {"ALGORITHMIC_TRADING"}
    Absences <- MCAbsences
    MaxAge = 0
    MaxTime = 1
    FloorBars = 2
    ChunkDays = 2
INVARIANTS HaltedIsFlat MakerHasExit StopHolds TradeMatchesReason OrderFitsPosition
    ReplaysUnbroken MatrixFillsForward ServedSpansRequest
CHECK_DEADLOCK FALSE
