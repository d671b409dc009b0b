---------------------------- MODULE DailySignals ----------------------------
(* The signals and schedules of the daily backtest: what signal-engine.ts and *)
(* kelly-sizing.ts compute from the prices known so far.  A price history is  *)
(* a sequence of days, each a function from symbols to prices; weights are    *)
(* percentages.                                                               *)
EXTENDS Integers, Sequences, FiniteSets, SequencesExt, FiniteSetsExt

CONSTANTS
    Symbols,        \* the columns of the price matrix
    Primary,        \* config.primaryTicker
    Equity, Crypto, SafeHaven,  \* the three roles of the asymmetric signal
    Fast, Slow,     \* windows of the moving averages, in days
    Lookback,       \* days of momentum
    RsiPeriod, Oversold, Overbought,
    KellyMinTrades, \* closed trades Kelly wants before it estimates (5 in the code)
    KellyFallback,  \* percentage used before that
    KellyShare      \* fractionalKelly, as a percentage

ASSUME SignalAssumption ==
    /\ {Primary, Equity, Crypto, SafeHaven} \subseteq Symbols /\ IsFiniteSet(Symbols)
    /\ {Fast, Slow, Lookback, RsiPeriod, KellyMinTrades} \subseteq Nat \ {0}
    /\ {KellyFallback, KellyShare} \subseteq Nat

\* One symbol's prices, in day order.
Series(hist, s) == [d \in 1..Len(hist) |-> hist[d][s]]

SumOver(f, S) == MapThenSumSet(LAMBDA x : f[x], S)
SumOf(q) == FoldSeq(LAMBDA x, acc : x + acc, 0, q)
LastOf(q, n) == SubSeq(q, Len(q) - n + 1, Len(q))

\* "price is above its simple moving average": px > sum / n, without division.
AboveSma(q, n) == Len(q) >= n /\ Last(q) * n > SumOf(LastOf(q, n))
\* fast average above slow average.
SmaCross(q) ==
    /\ Len(q) >= Fast /\ Len(q) >= Slow
    /\ SumOf(LastOf(q, Fast)) * Slow > SumOf(LastOf(q, Slow)) * Fast

\* Exponential average as a fraction: the seed is the mean of the first n prices.
Ema(q, n) ==
    FoldSeq(LAMBDA px, e : [num |-> 2 * px * e.den + (n - 1) * e.num, den |-> (n + 1) * e.den],
            [num |-> SumOf(SubSeq(q, 1, n)), den |-> n], SubSeq(q, n + 1, Len(q)))
AboveEma(q, n) == Len(q) >= n /\ LET e == Ema(q, n) IN Last(q) * e.den > e.num

\* Wilder's ratio over the last RsiPeriod changes; 100 when nothing was lost.
Rsi(q) ==
    LET change == [i \in 1..RsiPeriod |-> q[Len(q) - i + 1] - q[Len(q) - i]]
        gains  == SumOf([i \in 1..RsiPeriod |-> IF change[i] > 0 THEN change[i] ELSE 0])
        losses == SumOf([i \in 1..RsiPeriod |-> IF change[i] < 0 THEN -change[i] ELSE 0])
    IN  IF losses = 0 THEN 100 ELSE (100 * gains) \div (gains + losses)

\* Momentum is a ratio of two prices; compared by cross multiplication.
RocKnown(q) == Len(q) > Lookback
RocPast(q) == q[Len(q) - Lookback]
RocAtLeast(q, r) == Last(q) * RocPast(r) >= Last(r) * RocPast(q)

\* z-score of the last price over Slow days at or below -1: the deviation is
\* negative and its square reaches the sample variance.
ZScoreLow(q) ==
    LET w == LastOf(q, Slow)
        dev == Slow * Last(q) - SumOf(w)
        spread == Slow * SumOf([i \in 1..Slow |-> w[i] * w[i]]) - SumOf(w) * SumOf(w)
    IN  Len(q) >= Slow /\ dev < 0 /\ dev * dev * (Slow - 1) >= Slow * spread

AllIn(held) == [s \in Symbols |-> IF s \in held THEN 100 ELSE 0]

\* The best performer, if it gained; the first one in order wins a tie.
DualMomentum(hist) ==
    LET known == {s \in Symbols : RocKnown(Series(hist, s))}
        best  == {s \in known : \A r \in known : RocAtLeast(Series(hist, s), Series(hist, r))}
        pick  == CHOOSE s \in best : TRUE
    IN  IF best # {} /\ Last(Series(hist, pick)) > RocPast(Series(hist, pick))
        THEN AllIn({pick}) ELSE AllIn({})

\* Momentum leader if its trend filter agrees, else the runner-up, else the haven.
AsymmetricTrend(hist) ==
    LET eq == Series(hist, Equity)
        cr == Series(hist, Crypto)
        trend == [s \in {Equity, Crypto} |->
                     IF s = Equity THEN AboveSma(eq, Slow) ELSE AboveEma(cr, Slow)]
        leader == IF RocAtLeast(eq, cr) THEN Equity ELSE Crypto
        runner == IF leader = Equity THEN Crypto ELSE Equity
    IN  CASE ~RocKnown(eq)  -> AllIn({})
          [] RocKnown(eq) /\ trend[leader] -> AllIn({leader})
          [] RocKnown(eq) /\ ~trend[leader] /\ trend[runner] -> AllIn({runner})
          [] OTHER -> AllIn({SafeHaven})

Kinds == {"buy_and_hold", "dual_momentum", "asymmetric_trend_momentum", "sma_crossover", "rsi",
          "z_score", "macro_allocation"}
\* computeTargetWeights for the day that closed last.
TargetWeights(kind, hist) ==
    LET p == Series(hist, Primary) IN
    CASE kind = "buy_and_hold" -> AllIn({Primary})
      [] kind = "dual_momentum" -> DualMomentum(hist)
      [] kind = "asymmetric_trend_momentum" -> AsymmetricTrend(hist)
      [] kind = "sma_crossover" -> AllIn(IF SmaCross(p) THEN {Primary} ELSE {})
      [] kind = "rsi" -> AllIn(IF Len(p) > RsiPeriod /\ Rsi(p) < Oversold THEN {Primary} ELSE {})
      [] kind = "z_score" -> AllIn(IF ZScoreLow(p) THEN {Primary} ELSE {})
      [] kind = "macro_allocation" -> AllIn(IF AboveSma(p, Slow) THEN {Primary} ELSE {})

\* An RSI target without the primary is replaced by what is held of it, whether
\* the target said "no trigger" or "sell": the two are the same weight, 0.
MergeRsiHold(target, held) ==
    IF target[Primary] # 0 THEN target ELSE [target EXCEPT ![Primary] = held[Primary]]

HasRiskAssets(w) == \E s \in Symbols : w[s] > 0

\* isRebalanceDay: a month is counted from year 0, a quarter is three of them.
IsRebalanceDay(months, d, freq) ==
    \/ freq = "DAILY_SIGNAL"
    \/ /\ d > 1
       /\ \/ freq = "MONTHLY" /\ months[d] # months[d - 1]
          \/ freq = "QUARTERLY" /\ months[d] \div 3 # months[d - 1] \div 3

\* The halt is lifted at the start of a cycle, for cyclic strategies only.
IsRiskResetDay(months, d, freq) ==
    freq \in {"MONTHLY", "QUARTERLY"} /\ IsRebalanceDay(months, d, freq)

IsSignalDue(months, d, c) ==
    \/ d = 1 /\ c.kind = "buy_and_hold"
    \/ c.freq = "DAILY_SIGNAL" /\ d > 1
    \/ c.freq \in {"MONTHLY", "QUARTERLY"} /\ IsRebalanceDay(months, d, c.freq)

\* Kelly's fraction of the closed trades, p - (1-p)/b, as a percentage; the
\* fallback while it cannot be estimated.  pnl is the profit of a trade in bps.
KellyCap(trades) ==
    LET pnl == [i \in DOMAIN trades |-> trades[i].pnl]
        loss == [i \in DOMAIN trades |-> -trades[i].pnl]
        Wins == {i \in DOMAIN trades : pnl[i] > 0}
        Losses == {i \in DOMAIN trades : pnl[i] < 0}
        won  == SumOver(pnl, Wins)
        lost == SumOver(loss, Losses)
        closed == Cardinality(Wins) + Cardinality(Losses)
        full == IF won > lost THEN (100 * Cardinality(Wins) * (won - lost)) \div (closed * won) ELSE 0
    IN  IF closed < KellyMinTrades \/ lost = 0 \/ won = 0 THEN KellyFallback
        ELSE Max({1, (KellyShare * full) \div 100})

\* Each weight is cut to the cap; the targets above hold one symbol, so the
\* normalisation of a sum above one never applies.
KellyCapped(w, trades) == [s \in Symbols |-> Min({w[s], KellyCap(trades)})]
=============================================================================
