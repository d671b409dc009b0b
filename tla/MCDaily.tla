------------------------------- MODULE MCDaily -------------------------------
EXTENDS DailyEngine, StrategyCompiler

CONSTANTS a, b, c

MCLevels == a :> {4, 6, 10} @@ b :> {5, 8} @@ c :> {5}

MCFragments == [
    WALLET_MANAGEMENT |-> {"WALLET"}, ALGORITHMIC_TRADING |-> {"ALGORITHMIC"},
    HIGH_FREQUENCY_SCALPING |-> {"HIGH", "FREQ", "SCALP"}, hft |-> {"HFT"},
    SMA_CROSSOVER |-> {"SMA", "CROSSOVER"}, RSI |-> {"RSI"}, rsi |-> {"RSI"}, Z_SCORE |-> {"Z", "SCORE"},
    MACRO_ALLOCATION |-> {"MACRO", "ALLOCATION"}, bollinger |-> {"BOLLINGER"},
    MACRO_REGIME_BREAKOUT |-> {"MACRO", "REGIME", "BREAKOUT"}, macro_regime |-> {"MACRO", "REGIME"},
    DUAL_MOMENTUM |-> {"DUAL", "MOMENTUM"}, dual_momentum_rotation |-> {"DUAL", "MOMENTUM", "ROTATION"},
    ASYMMETRIC_TREND_MOMENTUM |-> {"ASYMMETRIC", "TREND", "MOMENTUM"}, asymmetric |-> {"ASYMMETRIC"}]

(* What the model sends *)

Limits(drawdown, stop) == [maxDrawdownLimit |-> drawdown, stopLossPercentage |-> stop]
NoKelly == [enableKellyCap |-> FALSE]
Payload(intent, risk, logic) ==
    [intentClass |-> intent, intentSummary |-> "summary", universe |-> [assets |-> <<a, b, c>>],
     riskManagement |-> risk, backtest |-> [primaryTicker |-> a, timeframe |-> "2y"]] @@ logic
Parameters == [
    RSI |-> "rsi" :> [period |-> 14], rsi |-> "rsi" :> [period |-> 14, oversold |-> 25],
    Z_SCORE |-> "zScore" :> [lookback |-> 20],
    SMA_CROSSOVER |-> "sma" :> [fastPeriod |-> 20, slowPeriod |-> 50]]
AlgoLogic(signal) ==
    "algoLogic" :> (("signal" :> signal) @@ IF signal \in DOMAIN Parameters THEN Parameters[signal] ELSE NoKeys)
Algos(signals, risks) == {Payload("ALGORITHMIC_TRADING", r, AlgoLogic(s)) : s \in signals, r \in risks}
Wallets(frequencies) ==
    {Payload("WALLET_MANAGEMENT", Limits(8, 30),
             "walletLogic" :> [rebalanceFrequency |-> f, weighting |-> "SINGLE_ASSET"]) : f \in frequencies}

\* A capped portfolio draws down less: with 8 a fall of the primary reaches the
\* portfolio's limit first, with 50, which the compiler cuts to 20, the stop.
Capped == {Limits(8, 30),
           Limits(50, 30) @@ [liquidateToBaseOnMaxDrawdown |-> FALSE, slippageBps |-> 3, trailingStop |-> TRUE]}
Singles == {"rsi", "Z_SCORE", "SMA_CROSSOVER", "macro_regime"}
DailyPayloads ==
    Wallets({"MONTHLY", "QUARTERLY", "NONE"}) \cup Algos(Singles, Capped)
    \cup Algos(Singles \ {"macro_regime"}, {Limits(30, 35) @@ NoKelly})
MomentumPayloads == Algos({"dual_momentum_rotation", "asymmetric"}, Capped)

Configs(payloads) == {r.config : r \in UNION {Reports(p, 60) : p \in payloads}}
\* The legacy path: buy and hold, the route's default limit and one that is
\* never reached before the stop.
Legacy == {LegacyConfig(RequestedSpec("buy_and_hold", 0))}
    \cup {LegacyConfig(RequestedSpec("drawdown_to_stable", d)) : d \in {12, 60}}
\* Seven days are enough to enter, breach, liquidate, release and enter again.
MCBacktests ==
    (Configs(DailyPayloads) \cup Legacy) \X {<<1, 2, 3, 4, 6, 7, 7>>}
    \cup Configs(MomentumPayloads) \X {<<1, 2, 3, 3, 4>>}

(* Other ways to write the same, and what is refused *)

HftLogic == [maxLatencyMs |-> 50, orderBookImbalanceTrigger |-> 65, microStopLossBps |-> 100]
Scalpers ==
    {Payload(intent, Limits(8, 2) @@ fee, "hftLogic" :> (HftLogic @@ [useLimitOrdersOnly |-> maker] @@ target)) :
        intent \in {"hft", "HIGH_FREQUENCY_SCALPING", "ALGORITHMIC_TRADING"}, maker \in BOOLEAN,
        fee \in {NoKeys, "feeRate" :> 1, "makerFeeBps" :> 5, "taker_fee_bps" :> 1},
        target \in {NoKeys, "target_profit_bps" :> 200, "targetProfitBps" :> 28}}
\* Every key under the last of its names.
Respelled(block, aliases) ==
    FoldSet(LAMBDA k, out : (Last(aliases[k]) :> block[k]) @@ out, NoKeys, DOMAIN block)
Snake(p) ==
    [risk |-> Respelled(p.riskManagement, RiskAliases), universe |-> [symbols |-> p.universe.assets],
     backtest |-> ("ticker" :> p.backtest.primaryTicker) @@ Only(p.backtest, {"timeframe"})]
    @@ Without(p, {"riskManagement"})
Nested(p) ==
    "algoLogic" :> (IF "algoLogic" \in DOMAIN p THEN p.algoLogic @@ Without(p, {"algoLogic"}) ELSE p)
Strategies == DailyPayloads \cup MomentumPayloads
Refused ==
    Algos({"bollinger"}, Capped) \cup Algos({"RSI"}, {Limits(60, 30), Limits(8, 50)})
    \cup {Without(p, {k}) : p \in Algos({"DUAL_MOMENTUM"}, Capped), k \in {"algoLogic", "riskManagement", "backtest"}}
    \cup {p @@ ("hftLogic" :> HftLogic) : p \in Strategies}
    \cup {[p EXCEPT !.algoLogic = Without(@, {"rsi"})] : p \in Algos({"RSI"}, Capped)}
    \cup {[p EXCEPT !.intentClass = "WALLET_MANAGEMENT"] : p \in Algos({"RSI"}, Capped)}
MCPayloads ==
    Strategies \cup Scalpers \cup Refused \cup {Snake(p) : p \in Strategies} \cup {Nested(p) : p \in Strategies}

\* However the model spells its keys, and also when it puts everything inside
\* algoLogic, the same strategy is built; what is refused stays refused.
ASSUME SpellingsAgree ==
    /\ \A p \in Strategies : BuildQuantitativeStrategy(p) # {}
    /\ \A p \in Strategies : BuildQuantitativeStrategy(Snake(p)) = BuildQuantitativeStrategy(p)
    /\ \A p \in Strategies : BuildQuantitativeStrategy(Nested(p)) = BuildQuantitativeStrategy(p)
    /\ \A p \in Scalpers : "feeRate" \in DOMAIN p.riskManagement =>
        BuildQuantitativeStrategy(p) = BuildQuantitativeStrategy(
            [p EXCEPT !.riskManagement = ("takerFeeBps" :> 100) @@ Without(@, {"feeRate"})])
    /\ \A p \in Refused : BuildQuantitativeStrategy(p) = {}

\* A payload is normalised three times before it runs: nothing that the first
\* pass filled in or converted is changed by the next one.
ASSUME PassesAgree == \A p \in MCPayloads : \A d \in Parsed(p) : Parsed(d) = {d}

\* What is reported was armed: liquidation on, the drawdown limit no higher than
\* asked for and than the fiduciary cap, in the engine's configuration as in the
\* specification kept beside it and in the limits that a page reads back from the
\* report, which it takes from the strategy when it finds none of their own.
ASSUME ReportsAreArmed ==
    \A p \in Strategies : \A r \in Reports(p, 60) :
        LET kept == LegacyConfig(r.legacy) IN
        /\ r.config.liquidate /\ r.config.lim <= 20 /\ r.config.lim <= p.riskManagement.maxDrawdownLimit
        /\ \A k \in {"lim", "stop", "liquidate"} : kept[k] = r.config[k]
        /\ ResolvedRiskCaps(r.caps, NoKeys) = {r.caps} /\ ResolvedRiskCaps(NoKeys, r.compiled) = {r.caps}

\* A scalper that is replayed earns more than half again its round trip, at the
\* costs its engine is given, and never on a primary market.
ASSUME ScalpersCoverCosts ==
    /\ UNION {Reports(p, 60) : p \in Scalpers} # {}
    /\ \A p \in Scalpers : \A r \in Reports(p, 60) :
        LET e == r.config IN
        /\ 2 * e.targetProfitBps > 3 * IF e.useLimitOrdersOnly THEN 2 * e.makerFeeBps
                                       ELSE e.estimatedSpreadBps + 2 * (e.slippageBps + e.takerFeeBps)
        /\ r.routing = "SECONDARY_AMM" /\ ResolvedRiskCaps(r.caps, NoKeys) = {r.caps}
=============================================================================
