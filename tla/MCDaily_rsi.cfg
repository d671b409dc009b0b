SPECIFICATION EngineSpec
CONSTANTS
    a = a
    b = b
    c = c
    Symbols = {a, b, c}
    Primary = a
    Equity = a
    Crypto = b
    SafeHaven = c
    CryptoTickers = {b}
    DefaultTicker = b
    Fragments <- MCFragments
    Fast = 1
    Slow = 2
    Lookback = 1
    RsiPeriod = 2
    Oversold = 30
    Overbought = 70
    KellyMinTrades = 1
    KellyFallback = 25
    KellyShare = 25
    PriceLevels <- MCLevels
    Backtests <- MCBacktests
    InitialCash = 1000
    BpsBase = 10000
    SlipBps = 500
    FeeBps = 300
    Dust = 12
CHECK_DEADLOCK FALSE
INVARIANTS OverboughtIsSold
