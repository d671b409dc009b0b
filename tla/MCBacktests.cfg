SPECIFICATION Spec
CONSTANTS
    a = a
    b = b
    c = c
    Symbols = {a, b, c}
    Primary = a
    Equity = a
    Crypto = b
    SafeHaven = c
    CryptoTickers = {b}
    DefaultTicker = b
    Fragments <- MCFragments
    Fast = 1
    Slow = 2
    Lookback = 1
    RsiPeriod = 2
    Oversold = 30
    Overbought = 70
    KellyMinTrades = 1
    KellyFallback = 25
    KellyShare = 25
    PriceLevels <- MCLevels
    Backtests <- MCBacktests
    InitialCash = 1000
    BpsBase = 10000
    SlipBps = 500
    FeeBps = 300
    Dust = 12
    Programs <- MCPrograms
    Bars = 5
    FullWeight = 2
    BarCloses = {5, 6, 8}
    Raws <- MCRaws
    BarCaps = {0, 1, 4}
    MicroCaps <- MCCaps
    Openings <- MCOpenings
    Specs <- MCSpecs
    Answers <- MCAnswers
    MaxTurns = 3
    Tabs = {t1, t2}
    Addresses = {alice, bob}
    Members = {alice}
    Conversations = {kept, shared, c1, c2}
    Stale = {kept}
    Shared = {shared}
    NoConversation = NoConversation
    Nobody = Nobody
    MaxPosts = 2
    Holders = {alice, bob}
    Snapshots = {s1, s2}
    NoSnapshot = NoSnapshot
    MaxCalls = 2
CHECK_DEADLOCK FALSE
INVARIANTS CashSolvent SignalIsTodays JournalMirrorsPositions
  OrdersExplainWeight TradesAreRuns OverlaysHold
  RunsAreVetted RecommendedSettles ConversationsArePrivate ShownIsCurrent
PROPERTIES TradingOnlyCosts ImplementsBreaker
