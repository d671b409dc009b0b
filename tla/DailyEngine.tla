----------------------------- MODULE DailyEngine -----------------------------
(* runEventDrivenBacktest: the daily loop over a price matrix with signals    *)
(* computed at the close of a day and filled on the next one, risk orders     *)
(* that go first, and a suspension after a drawdown.  A day is one step; its  *)
(* phases are operators on the account record, applied in the code's order.   *)
EXTENDS DailySignals

CONSTANTS
    PriceLevels,   \* for each symbol, the closes it can have
    Backtests,     \* pairs of a configuration [kind, freq, kelly, lim, stop,
                   \* liquidate] and a calendar, the month number of each day
    InitialCash,
    BpsBase,       \* 10000 in the code
    SlipBps, FeeBps,
    Dust           \* differences up to this are not traded (1e-9 of the equity)

ASSUME EngineAssumption ==
    /\ PriceLevels \in [Symbols -> (SUBSET (Nat \ {0})) \ {{}}]
    /\ InitialCash \in Nat \ {0}
    /\ \A backtest \in Backtests : backtest[1].kind \in Kinds /\ Len(backtest[2]) \in Nat \ {0, 1}
    /\ BpsBase \in Nat \ {0} /\ SlipBps \in 0..(BpsBase - 1) /\ FeeBps \in 0..(BpsBase - 1)
    /\ Dust \in Nat
    \* What is more than dust buys a share, as any amount does in the code.
    /\ \A s \in Symbols : \A p \in PriceLevels[s] : p * (BpsBase + SlipBps) <= (Dust + 1) * BpsBase

VARIABLES
    cfg, months,   \* the configuration and the calendar of this backtest
    hist,          \* closes so far; Len(hist) is the day
    acct           \* PortfolioState, pending orders and journal

engineVars == <<cfg, months, hist, acct>>

Day == Len(hist)
NoSymbol == [s \in Symbols |-> 0]
NoRebalance == [day |-> 0, target |-> NoSymbol]
NoRisk == [kind |-> "none", symbol |-> Primary]

Held(a) == {s \in Symbols : a.qty[s] > 0}
OpenLegs(a) == {s \in Symbols : a.legs[s].day # 0}
ValueOf(a, px) == a.cash + SumOver([s \in Symbols |-> a.qty[s] * px[s]], Symbols)
Fee(notional) == (notional * FeeBps) \div BpsBase
\* Mutant: the fee is forgotten.
MaxAffordableGross(cash) == cash

MaxAffordable(cash) == (cash * BpsBase) \div (BpsBase + FeeBps)
BuyFill(px)  == px * (BpsBase + SlipBps)   \* times BpsBase
\* Mutant: the slippage of a buy.
SellFillAbove(px) == px * (BpsBase + SlipBps)

SellFill(px) == px * (BpsBase - SlipBps)   \* times BpsBase

NoLeg == [day |-> 0, equity |-> 0]
InitialAccount ==
    [cash |-> InitialCash, qty |-> NoSymbol, entry |-> NoSymbol, pv |-> InitialCash,
     hwm |-> InitialCash, halted |-> FALSE, pending |-> NoRebalance, risk |-> NoRisk,
     legs |-> [s \in Symbols |-> NoLeg], trades |-> <<>>]

(* Journal *)

RecordEntry(a, s, d, equity) ==
    IF s \in OpenLegs(a) THEN a ELSE [a EXCEPT !.legs[s] = [day |-> d, equity |-> equity]]

RecordExit(a, s, d, equity) ==
    IF s \notin OpenLegs(a) THEN a
    ELSE [a EXCEPT !.legs[s] = NoLeg,
                   !.trades = Append(@, [symbol |-> s, in |-> a.legs[s].day, out |-> d,
                       pnl |-> ((equity - a.legs[s].equity) * 100) \div a.legs[s].equity])]

ExitAll(a, S, d) == FoldSet(LAMBDA s, b : RecordExit(b, s, d, b.pv), a, S)
FinalizeAll(a, d) == ExitAll(a, OpenLegs(a), d)

(* Orders *)

\* Mutant: a stop leaves the journal's leg open.
ClosePositionUnlogged(a, s, px, d) ==
    LET notional == (a.qty[s] * SellFill(px[s])) \div BpsBase
        sold == [a EXCEPT !.cash = @ + notional - Fee(notional), !.qty[s] = 0, !.entry[s] = 0]
    IN  [sold EXCEPT !.pv = ValueOf(sold, px)]

ClosePosition(a, s, px, d) ==
    LET notional == (a.qty[s] * SellFill(px[s])) \div BpsBase
        sold == [a EXCEPT !.cash = @ + notional - Fee(notional), !.qty[s] = 0, !.entry[s] = 0]
        logged == RecordExit(sold, s, d, sold.cash)
    IN  IF a.qty[s] = 0 THEN a ELSE [logged EXCEPT !.pv = ValueOf(logged, px)]

CloseAll(a, S, px, d) == FoldSet(LAMBDA s, b : ClosePosition(b, s, px, d), a, S)
\* Mutant: the portfolio is sold but not suspended.
ForcedLiquidationUnhalted(a, px, d) ==
    LET flat == CloseAll(a, Held(a), px, d)
    IN  [flat EXCEPT !.pv = flat.cash]

ForcedLiquidation(a, px, d) ==
    LET flat == CloseAll(a, Held(a), px, d)
    IN  [flat EXCEPT !.pv = flat.cash, !.halted = TRUE]

\* Selling is sized on the portfolio value marked before today's prices.
SellDown(a, s, px, d, target) ==
    LET delta == (a.pv * target[s]) \div 100 - a.qty[s] * px[s]
        shares == Min({a.qty[s], (-delta * BpsBase) \div SellFill(px[s])})
        notional == (shares * SellFill(px[s])) \div BpsBase
        sold == [a EXCEPT !.qty[s] = @ - shares, !.cash = @ + notional - Fee(notional)]
    IN  IF delta >= 0 \/ (delta >= -Dust /\ target[s] # 0) THEN a
        ELSE IF sold.qty[s] > 0 THEN sold
        ELSE RecordExit([sold EXCEPT !.entry[s] = 0], s, d, a.pv)

BuyUp(a, s, px, d, target) ==
    LET delta == (a.pv * target[s]) \div 100 - a.qty[s] * px[s]
        notional == Min({delta, MaxAffordable(a.cash)})
        shares == (notional * BpsBase) \div BuyFill(px[s])
        total == a.qty[s] + shares
    IN  IF delta <= Dust \/ notional <= Dust THEN a
        ELSE RecordEntry([a EXCEPT !.cash = @ - notional - Fee(notional), !.qty[s] = total,
                              !.entry[s] = (@ * a.qty[s] + BuyFill(px[s]) * shares) \div total],
                         s, d, a.pv)

SellAll(a, S, px, d, target) == FoldSet(LAMBDA s, b : SellDown(b, s, px, d, target), a, S)
BuyAll(a, S, px, d, target) == FoldSet(LAMBDA s, b : BuyUp(b, s, px, d, target), a, S)
\* Sells first, then buys, each sized on the value known at its start.
Rebalance(a, px, d, target) ==
    LET sold == SellAll(a, Symbols, px, d, target)
        marked == [sold EXCEPT !.pv = ValueOf(sold, px)]
        bought == BuyAll(marked, Symbols, px, d, target)
    IN  [bought EXCEPT !.pv = ValueOf(bought, px)]

(* The phases of a day *)

ReleaseHalt(a) ==
    IF a.halted THEN [a EXCEPT !.halted = FALSE, !.hwm = Min({@, a.pv})] ELSE a

\* Mutant: a liquidation leaves the signal queued behind it.
FillRiskKeepsPending(a, px, d) ==
    CASE a.risk.kind = "none" -> a
      [] a.risk.kind = "halt_portfolio" ->
            [(IF a.halted THEN a ELSE ForcedLiquidation(a, px, d)) EXCEPT !.risk = NoRisk]
      [] a.risk.kind = "close_position" ->
            [ClosePosition(a, a.risk.symbol, px, d) EXCEPT !.risk = NoRisk]

FillRisk(a, px, d) ==
    CASE a.risk.kind = "none" -> a
      [] a.risk.kind = "halt_portfolio" ->
            [(IF a.halted THEN a ELSE ForcedLiquidation(a, px, d))
                EXCEPT !.pending = NoRebalance, !.risk = NoRisk]
      [] a.risk.kind = "close_position" ->
            [ClosePosition(a, a.risk.symbol, px, d) EXCEPT !.risk = NoRisk]

FillPending(a, px, d) ==
    IF a.pending = NoRebalance \/ a.halted THEN a
    ELSE [Rebalance(a, px, d, a.pending.target) EXCEPT !.pending = NoRebalance]

MarkToMarket(a, px) ==
    [a EXCEPT !.pv = ValueOf(a, px), !.hwm = Max({@, ValueOf(a, px)})]

Drawdown(a, c) == (a.hwm - a.pv) * 100 >= c.lim * a.hwm
\* The trailing reference, max(entry, today's price), never exceeds the entry
\* when the price is below it, so a trailing stop is the plain stop.
Losers(a, px, c) ==
    {s \in Held(a) : (a.entry[s] - px[s] * BpsBase) * 100 >= c.stop * a.entry[s]}

QueueRisk(a, px, d, c) ==
    CASE d = 1 \/ Held(a) = {} \/ a.halted -> a
      [] d > 1 /\ Held(a) # {} /\ ~a.halted /\ c.liquidate /\ Drawdown(a, c) ->
            [a EXCEPT !.risk = [kind |-> "halt_portfolio", symbol |-> Primary],
                      !.pending = NoRebalance]
      [] OTHER ->
            IF Losers(a, px, c) = {} THEN a
            ELSE [a EXCEPT !.risk = [kind |-> "close_position",
                                     symbol |-> CHOOSE s \in Losers(a, px, c) : TRUE]]

HeldWeights(a, px) ==
    IF a.pv = 0 THEN NoSymbol ELSE [s \in Symbols |-> (a.qty[s] * px[s] * 100) \div a.pv]

QueueSignal(a, history, d, c) ==
    LET px == Last(history)
        signal == TargetWeights(c.kind, history)
        merged == IF c.kind = "rsi" THEN MergeRsiHold(signal, HeldWeights(a, px)) ELSE signal
        target == IF c.kelly THEN KellyCapped(merged, a.trades) ELSE merged
    IN  IF ~a.halted /\ IsSignalDue(months, d, c) /\ d < Len(months)
           /\ (HasRiskAssets(target) \/ Held(a) # {})
        THEN [a EXCEPT !.pending = [day |-> d, target |-> target]] ELSE a

EngineInit ==
    /\ \E backtest \in Backtests : cfg = backtest[1] /\ months = backtest[2]
    /\ hist = <<>> /\ acct = InitialAccount

\* One pass of the loop, and the journal's closing on the last day.
RunDay(px) ==
    LET d == Day + 1
        opened == IF IsRiskResetDay(months, d, cfg.freq) THEN ReleaseHalt(acct) ELSE acct
        filled == FillPending(FillRisk(opened, px, d), px, d)
        checked == QueueRisk(MarkToMarket(filled, px), px, d, cfg)
        closed == MarkToMarket(QueueSignal(checked, hist', d, cfg), px)
    IN  /\ Day < Len(months)
        /\ hist' = Append(hist, px)
        /\ acct' = IF d = Len(months) THEN FinalizeAll(closed, d) ELSE closed
        /\ UNCHANGED <<cfg, months>>

\* A symbol the strategy neither looks at nor holds keeps its lowest close.
Traded == IF cfg.kind \in {"dual_momentum", "asymmetric_trend_momentum"} THEN Symbols ELSE {Primary}
Closes ==
    {px \in [Symbols -> UNION {PriceLevels[s] : s \in Symbols}] : \A s \in Symbols :
        IF s \in Traded THEN px[s] \in PriceLevels[s] ELSE px[s] = Min(PriceLevels[s])}

EngineNext == \E px \in Closes : RunDay(px)

EngineSpec == EngineInit /\ [][EngineNext]_engineVars

-----------------------------------------------------------------------------
Percent == [Symbols -> 0..100]

\* Shape of the account.
EngineTypeOK ==
    /\ Day <= Len(months)
    /\ \A d \in 1..Day, s \in Symbols : hist[d][s] \in PriceLevels[s]
    /\ acct.qty \in [Symbols -> Nat] /\ acct.entry \in [Symbols -> Nat]
    /\ acct.pv \in Nat /\ acct.hwm >= acct.pv /\ acct.halted \in BOOLEAN
    /\ acct.pending.day \in 0..Day /\ acct.pending.target \in Percent

\* Orders are sized on a value marked before today's prices, sales pay a fee
\* out of their proceeds and purchases one on top of their cost: whatever the
\* path of prices, the cash never goes below zero.
CashSolvent == acct.cash >= 0

\* A signal is filled on the day after it was computed or never: what waits at
\* the end of a day was computed on that day, also across a suspension, a stop
\* and a release.
SignalIsTodays == acct.pending = NoRebalance \/ acct.pending.day = Day

\* The journal keeps one open leg for each position held, through partial
\* sales, stops, liquidations and re-entries on the day of an exit; the last day
\* closes them all.
JournalMirrorsPositions ==
    OpenLegs(acct) = IF Day = Len(months) THEN {} ELSE Held(acct)

\* Selling and buying at today's prices never leaves more than holding would
\* have: every order costs its slippage and fee, and no order creates money.
TradingOnlyCosts ==
    [][hist' # hist => acct'.pv <= ValueOf(acct, Last(hist'))]_engineVars

\* An RSI strategy that has computed an overbought day orders its position sold.
OverboughtIsSold ==
    LET p == Series(hist, Primary) IN
    (Day > 0 /\ cfg.kind = "rsi" /\ acct.pending.day = Day /\ Len(p) > RsiPeriod /\ Rsi(p) > Overbought)
        => acct.pending.target[Primary] = 0

\* The loop with its release, liquidation and signal phases implements the
\* circuit breaker: a breach is always followed by the liquidation of the next
\* day, and nothing is held from then until a cycle begins.
Breaker == INSTANCE CircuitBreaker WITH
    mode <- IF acct.halted THEN "halted"
            ELSE IF acct.risk.kind = "halt_portfolio" THEN "queued" ELSE "trading",
    invested <- Held(acct) # {},
    cycleStart <- Day > 0 /\ IsRiskResetDay(months, Day, cfg.freq)
ImplementsBreaker == Breaker!BreakerSpec
=============================================================================
