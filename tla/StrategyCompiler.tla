-------------------------- MODULE StrategyCompiler --------------------------
(* The way of a strategy from the JSON a model wrote to what an engine runs:  *)
(* afx-payload-normalize.ts renames and fills in, the schema accepts or       *)
(* refuses, afx-quant-compiler.ts caps and checks, strategy-adapter.ts        *)
(* compiles.  An object is a function from its keys; an absent key stands for *)
(* undefined and null.  Fractions and fee rates are percentages.              *)
EXTENDS DailySignals

CONSTANTS
    CryptoTickers,   \* the symbols isCryptoSymbol recognises
    DefaultTicker,   \* "ETH-USD"
    Fragments        \* for each spelling of an intent or a signal, the words in it

\* The tickers, and the words in the names of the three signals that some of
\* their words are enough for.
ASSUME CompilerAssumption ==
    /\ CryptoTickers \cup {DefaultTicker} \subseteq Symbols
    /\ {"MACRO", "REGIME"} \subseteq Fragments["MACRO_REGIME_BREAKOUT"]
    /\ "ASYMMETRIC" \in Fragments["ASYMMETRIC_TREND_MOMENTUM"]
    /\ ~{"MACRO", "REGIME"} \subseteq Fragments["ASYMMETRIC_TREND_MOMENTUM"]
    /\ {"DUAL", "MOMENTUM"} \subseteq Fragments["DUAL_MOMENTUM"]
    /\ ~{"MACRO", "REGIME"} \subseteq Fragments["DUAL_MOMENTUM"]
    /\ "ASYMMETRIC" \notin Fragments["DUAL_MOMENTUM"]

(* Objects and their optional keys *)

NoKeys == <<>>
\* What f says, and what g says besides: { ...g, ...f }.
f ++ g == [x \in DOMAIN f \cup DOMAIN g |-> IF x \in DOMAIN f THEN f[x] ELSE g[x]]
Has(obj, keys) == \E i \in DOMAIN keys : keys[i] \in DOMAIN obj
\* obj.k1 ?? obj.k2 ?? ...
FirstOf(obj, keys) == obj[keys[Min({i \in DOMAIN keys : keys[i] \in DOMAIN obj})]]
Only(obj, keys) == [k \in DOMAIN obj \cap keys |-> obj[k]]
Without(obj, keys) == [k \in DOMAIN obj \ keys |-> obj[k]]
When(cond, k, value) == IF cond THEN [x \in {k} |-> value] ELSE NoKeys

\* A block rewritten under its canonical keys: aliases gives for each of them the
\* keys that are read in turn.
Renamed(block, aliases, defaults) ==
    [k \in {k \in DOMAIN aliases : Has(block, aliases[k]) \/ k \in DOMAIN defaults} |->
        IF Has(block, aliases[k]) THEN FirstOf(block, aliases[k]) ELSE defaults[k]]

(* Normalisation *)

Algo == <<"algoLogic", "algo_logic">>
Intent == <<"intentClass", "intent_class">>
Summary == <<"intentSummary", "intent_summary">>
Hft == <<"hftLogic", "hft_logic">>
Risk == <<"riskManagement", "risk_management", "risk">>
RootStrategyKeys ==
    ToSet(Intent) \cup ToSet(Summary) \cup ToSet(Hft) \cup ToSet(Risk)
        \cup {"universe", "backtest", "walletLogic", "wallet_logic", "marketRoutingMode", "market_routing_mode"}
AlgoParameters ==
    {"sma", "rsi", "zScore", "z_score", "asymmetricTrendMomentum", "asymmetric_trend_momentum"}

\* A strategy that was put inside algoLogic is lifted out of it, unless the root
\* says what it intends.
Unwrapped(raw) ==
    LET nested == FirstOf(raw, Algo)
        algoOnly ==
            When(Has(nested, <<"signal", "entryLogic">>), "signal", FirstOf(nested, <<"signal", "entryLogic">>))
                ++ Only(nested, AlgoParameters)
        hoisted == raw ++ Only(nested, RootStrategyKeys)
        isShell == DOMAIN nested \cap (ToSet(Intent) \cup ToSet(Summary) \cup ToSet(Hft) \cup {"universe"}) # {}
    IN  IF ~Has(raw, Algo) \/ Has(raw, Intent \o Summary) \/ ~isShell THEN raw
        ELSE IF DOMAIN algoOnly = {} THEN Without(hoisted, ToSet(Algo))
        ELSE [algoLogic |-> algoOnly] ++ hoisted

\* Rates are fractions of the notional, here in percent; a basis point is a
\* hundredth of one.
LegacyRateToBps(rate) == rate * 100
FeeOf(raw, bps, rates, default) ==
    IF Has(raw, bps) THEN FirstOf(raw, bps)
    ELSE IF Has(raw, rates) THEN LegacyRateToBps(FirstOf(raw, rates)) ELSE default

RiskAliases == [
    maxDrawdownLimit |-> <<"maxDrawdownLimit", "max_drawdown_limit", "maxDrawdown", "max_drawdown">>,
    stopLossPercentage |-> <<"stopLossPercentage", "stop_loss_percentage", "stopLoss", "stop_loss">>,
    trailingStop |-> <<"trailingStop", "trailing_stop">>,
    liquidateToBaseOnMaxDrawdown |-> <<"liquidateToBaseOnMaxDrawdown", "liquidate_to_base_on_max_drawdown">>,
    slippageBps |-> <<"slippageBps", "slippage_bps">>,
    fractionalKelly |-> <<"fractionalKelly", "fractional_kelly">>,
    enableKellyCap |-> <<"enableKellyCap", "enable_kelly_cap">>]

NormalizeRiskBlock(raw) ==
    Renamed(raw, RiskAliases,
            [trailingStop |-> FALSE, liquidateToBaseOnMaxDrawdown |-> TRUE, slippageBps |-> 0])
    ++ [makerFeeBps |-> FeeOf(raw, <<"makerFeeBps", "maker_fee_bps">>, <<"makerFeeRate", "maker_fee_rate">>, 0),
        takerFeeBps |-> FeeOf(raw, <<"takerFeeBps", "taker_fee_bps">>,
            <<"takerFeeRate", "taker_fee_rate", "transactionFeeRate", "transaction_fee_rate", "feeRate">>, 5)]

Signals == {"SMA_CROSSOVER", "RSI", "Z_SCORE", "MACRO_ALLOCATION", "MACRO_REGIME_BREAKOUT",
            "DUAL_MOMENTUM", "ASYMMETRIC_TREND_MOMENTUM"}
\* Three signals are recognised by some of their words, the others by all.
NormalizeSignal(spelling) ==
    LET words == Fragments[spelling]
        spelled == {s \in Signals : Fragments[s] = words}
    IN  CASE {"MACRO", "REGIME"} \subseteq words -> "MACRO_REGIME_BREAKOUT"
          [] ~{"MACRO", "REGIME"} \subseteq words /\ "ASYMMETRIC" \in words -> "ASYMMETRIC_TREND_MOMENTUM"
          [] ~{"MACRO", "REGIME"} \subseteq words /\ "ASYMMETRIC" \notin words
             /\ {"DUAL", "MOMENTUM"} \subseteq words -> "DUAL_MOMENTUM"
          [] OTHER -> IF spelled = {} THEN spelling ELSE CHOOSE s \in spelled : TRUE

AsymmetricAliases == [
    lookbackPeriodDays |-> <<"lookbackPeriodDays", "lookback_period_days">>,
    equitySmaPeriod |-> <<"equitySmaPeriod", "equity_sma_period">>,
    cryptoEmaPeriod |-> <<"cryptoEmaPeriod", "crypto_ema_period">>,
    equityTicker |-> <<"equityTicker", "equity_ticker">>,
    cryptoTicker |-> <<"cryptoTicker", "crypto_ticker">>,
    safeHavenTicker |-> <<"safeHavenTicker", "safe_haven_ticker">>]
AsymmetricDefaults == [
    lookbackPeriodDays |-> 90, equitySmaPeriod |-> 100, cryptoEmaPeriod |-> 50,
    equityTicker |-> Equity, cryptoTicker |-> Crypto, safeHavenTicker |-> SafeHaven]

NormalizeAlgo(algo) ==
    LET signal == <<"signal", "entryLogic">>
        asymmetric == <<"asymmetricTrendMomentum", "asymmetric_trend_momentum">>
    IN  When(Has(algo, signal), "signal", NormalizeSignal(FirstOf(algo, signal)))
        ++ Only(algo, {"sma", "rsi"})
        ++ When(Has(algo, <<"z_score", "zScore">>), "zScore", FirstOf(algo, <<"z_score", "zScore">>))
        ++ When(Has(algo, asymmetric), "asymmetricTrendMomentum",
                Renamed(FirstOf(algo, asymmetric), AsymmetricAliases, AsymmetricDefaults))

NormalizeEntry(entry) ==
    LET signal == <<"indicator", "signal">> IN
    When(Has(entry, signal), "signal", NormalizeSignal(FirstOf(entry, signal)))
    ++ Only(entry, {"sma", "rsi"})
    ++ When(Has(entry, <<"zScore", "z_score">>), "zScore", FirstOf(entry, <<"zScore", "z_score">>))

HftAliases == [
    maxLatencyMs |-> <<"maxLatencyMs", "max_latency_ms">>,
    orderBookImbalanceTrigger |-> <<"orderBookImbalanceTrigger", "order_book_imbalance_trigger">>,
    microStopLossBps |-> <<"microStopLossBps", "micro_stop_loss_bps">>,
    executionTimeoutSeconds |-> <<"executionTimeoutSeconds", "execution_timeout_seconds">>,
    targetProfitBps |-> <<"targetProfitBps", "target_profit_bps">>,
    estimatedSpreadBps |-> <<"estimatedSpreadBps", "estimated_spread_bps">>,
    useLimitOrdersOnly |-> <<"useLimitOrdersOnly", "use_limit_orders_only">>,
    replayLookbackDays |-> <<"replayLookbackDays", "replay_lookback_days">>,
    replayMaxSessions |-> <<"replayMaxSessions", "replay_max_sessions">>]
HftDefaults == [
    maxLatencyMs |-> 250, orderBookImbalanceTrigger |-> 62, microStopLossBps |-> 25,
    executionTimeoutSeconds |-> 120, targetProfitBps |-> 15, estimatedSpreadBps |-> 8,
    useLimitOrdersOnly |-> TRUE, replayLookbackDays |-> 30, replayMaxSessions |-> 30]

SaysHft(spelling) ==
    {"HIGH", "FREQ"} \subseteq Fragments[spelling] \/ Fragments[spelling] \cap {"HFT", "SCALP"} # {}

NormalizeBacktest(raw, isHft) ==
    LET assets == IF Has(raw, <<"universe">>) /\ Has(raw.universe, <<"assets", "symbols">>)
                  THEN FirstOf(raw.universe, <<"assets", "symbols">>) ELSE <<>>
        primary == CASE assets # <<>> -> Head(assets)
                     [] assets = <<>> /\ Has(raw, <<"primaryTicker">>) -> raw.primaryTicker
                     [] OTHER -> DefaultTicker
    IN  IF Has(raw, <<"backtest">>)
        THEN [backtest |-> Renamed(raw.backtest,
                [primaryTicker |-> <<"primaryTicker", "primary_ticker", "ticker">>,
                 benchmark |-> <<"benchmark">>], [benchmark |-> "^GSPC"])
            ++ IF isHft THEN NoKeys ELSE Only(raw.backtest, {"timeframe"})]
        ELSE When(isHft, "backtest", [primaryTicker |-> primary, benchmark |-> "^GSPC"])

\* The keys that are dropped without having been read under their other name
\* (intent_class, wallet_logic, algo_logic at the root) are lost.
NormalizedPayload(payload) ==
    LET raw == Unwrapped(payload)
        isHft == Has(raw, Hft) \/ (Has(raw, Intent) /\ SaysHft(FirstOf(raw, Intent)))
        rewritten ==
            When(Has(raw, <<"universe">>), "universe",
                 Renamed(raw.universe, [assets |-> <<"assets", "symbols">>,
                     baseCurrency |-> <<"baseCurrency", "base_currency">>], [baseCurrency |-> "USDC"]))
            ++ When(Has(raw, Risk), "riskManagement", NormalizeRiskBlock(FirstOf(raw, Risk)))
            ++ When("algoLogic" \in DOMAIN raw, "algoLogic", NormalizeAlgo(raw.algoLogic))
            ++ When("entryLogic" \in DOMAIN raw, "algoLogic", NormalizeEntry(raw.entryLogic))
            ++ When("walletLogic" \in DOMAIN raw, "walletLogic",
                    raw.walletLogic ++ Renamed(raw.walletLogic,
                        [rebalanceFrequency |-> <<"rebalance_frequency">>], NoKeys))
            ++ NormalizeBacktest(raw, isHft)
            ++ When(Has(raw, Hft), "hftLogic", Renamed(FirstOf(raw, Hft), HftAliases, HftDefaults))
            ++ When("intentClass" \in DOMAIN raw /\ SaysHft(raw.intentClass),
                    "intentClass", "HIGH_FREQUENCY_SCALPING")
    IN  Without(rewritten ++ raw,
            {"risk_management", "risk", "hft_logic", "wallet_logic", "intent_class",
             "intent_summary", "market_routing_mode", "algo_logic", "entryLogic"})

(* The schema: what each key may be, which are required, what is filled in *)

WalletSchema == [
    of |-> [rebalanceFrequency |-> {"MONTHLY", "QUARTERLY", "NONE"},
            weighting |-> {"RISK_PARITY", "EQUAL_WEIGHT", "SINGLE_ASSET"}, macroNotes |-> {"notes"}],
    required |-> {"rebalanceFrequency", "weighting"}, defaults |-> NoKeys]
ParameterSchemas == [
    sma |-> [of |-> [fastPeriod |-> 2..120, slowPeriod |-> 5..250],
             required |-> {"fastPeriod", "slowPeriod"}, defaults |-> NoKeys],
    rsi |-> [of |-> [period |-> 2..100, oversold |-> 5..45, overbought |-> 55..95],
             required |-> {"period"}, defaults |-> [oversold |-> 30, overbought |-> 70]],
    zScore |-> [of |-> [lookback |-> 10..120, entryZ |-> -4..0, exitZ |-> 0..4],
                required |-> {"lookback"}, defaults |-> [entryZ |-> -2, exitZ |-> 0]],
    asymmetricTrendMomentum |->
        [of |-> [lookbackPeriodDays |-> 20..252, equitySmaPeriod |-> 20..250, cryptoEmaPeriod |-> 10..200,
                 equityTicker |-> Symbols, cryptoTicker |-> Symbols, safeHavenTicker |-> Symbols],
         required |-> {}, defaults |-> AsymmetricDefaults]]
RiskSchema == [
    of |-> [maxDrawdownLimit |-> 2..50, stopLossPercentage |-> 1..35, trailingStop |-> BOOLEAN,
            liquidateToBaseOnMaxDrawdown |-> BOOLEAN, makerFeeBps |-> 0..500, takerFeeBps |-> 0..500,
            slippageBps |-> 0..100, fractionalKelly |-> 5..100, enableKellyCap |-> BOOLEAN],
    required |-> {"maxDrawdownLimit", "stopLossPercentage", "trailingStop"},
    defaults |-> [liquidateToBaseOnMaxDrawdown |-> TRUE, makerFeeBps |-> 0, takerFeeBps |-> 5,
                  slippageBps |-> 0, fractionalKelly |-> 25, enableKellyCap |-> TRUE]]
UniverseSchema == [
    of |-> [assets |-> Seq(Symbols), baseCurrency |-> {"USDC"}],
    required |-> {"assets"}, defaults |-> [baseCurrency |-> "USDC"]]
HftSchema == [
    of |-> [maxLatencyMs |-> 1..5000, orderBookImbalanceTrigger |-> 51..99, microStopLossBps |-> 1..500,
            executionTimeoutSeconds |-> 5..3600, targetProfitBps |-> 1..200, estimatedSpreadBps |-> 0..100,
            useLimitOrdersOnly |-> BOOLEAN, replayLookbackDays |-> 1..365, replayMaxSessions |-> 1..365],
    required |-> {"maxLatencyMs", "orderBookImbalanceTrigger", "microStopLossBps", "executionTimeoutSeconds"},
    defaults |-> HftDefaults]
BacktestSchema == [
    of |-> [primaryTicker |-> Symbols, benchmark |-> {"^GSPC"}, timeframe |-> {"1y", "2y", "5y"}],
    required |-> {"primaryTicker"}, defaults |-> [benchmark |-> "^GSPC"]]
BlockSchemas == [
    universe |-> UniverseSchema, walletLogic |-> WalletSchema, hftLogic |-> HftSchema,
    riskManagement |-> RiskSchema, backtest |-> BacktestSchema]

\* .strict(): no other keys.
Fits(obj, schema) ==
    /\ DOMAIN obj \subseteq DOMAIN schema.of /\ schema.required \subseteq DOMAIN obj
    /\ \A k \in DOMAIN obj : obj[k] \in schema.of[k]

AlgoFits(algo) ==
    /\ DOMAIN algo \subseteq {"signal"} \cup DOMAIN ParameterSchemas
    /\ "signal" \in DOMAIN algo /\ algo.signal \in Signals
    /\ \A k \in DOMAIN algo \ {"signal"} : Fits(algo[k], ParameterSchemas[k])

RootFits(p) ==
    /\ DOMAIN p \subseteq DOMAIN BlockSchemas \cup {"intentClass", "intentSummary", "algoLogic", "marketRoutingMode"}
    /\ {"intentClass", "intentSummary", "universe", "riskManagement", "backtest"} \subseteq DOMAIN p
    /\ p.intentClass \in {"WALLET_MANAGEMENT", "ALGORITHMIC_TRADING", "HIGH_FREQUENCY_SCALPING"}
    /\ \A k \in DOMAIN p \cap DOMAIN BlockSchemas : Fits(p[k], BlockSchemas[k])
    /\ Len(p.universe.assets) \in 1..8
    /\ "algoLogic" \in DOMAIN p => AlgoFits(p.algoLogic)

Filled(p) ==
    [k \in DOMAIN p |->
        CASE k \in DOMAIN BlockSchemas -> p[k] ++ BlockSchemas[k].defaults
          [] k = "algoLogic" ->
                [q \in DOMAIN p[k] |->
                    IF q = "signal" THEN p[k][q] ELSE p[k][q] ++ ParameterSchemas[q].defaults]
          [] OTHER -> p[k]]

IsHftStrategy(data) == data.intentClass = "HIGH_FREQUENCY_SCALPING"

\* estimateHftRoundTripCostBps and its margin of one half.
CoversCosts(data) ==
    LET risk == data.riskManagement
        roundTrip == IF data.hftLogic.useLimitOrdersOnly THEN 2 * risk.makerFeeBps
                     ELSE data.hftLogic.estimatedSpreadBps + 2 * risk.slippageBps + 2 * risk.takerFeeBps
    IN  2 * data.hftLogic.targetProfitBps > 3 * roundTrip

Refined(data) ==
    IF IsHftStrategy(data)
    THEN "hftLogic" \in DOMAIN data /\ CoversCosts(data) /\ DOMAIN data \cap {"walletLogic", "algoLogic"} = {}
    ELSE "hftLogic" \notin DOMAIN data /\ "timeframe" \in DOMAIN data.backtest

\* The strategies a pass accepts: none, or the normalised one.
Parsed(raw) == {d \in {Filled(p) : p \in {q \in {NormalizedPayload(raw)} : RootFits(q)}} : Refined(d)}

(* Caps and checks *)

DrawdownCap(data) ==
    IF ToSet(data.universe.assets) \cap CryptoTickers # {} THEN 20
    ELSE IF data.intentClass = "WALLET_MANAGEMENT" THEN 10 ELSE 15
EnforceRiskCaps(data) ==
    [data EXCEPT !.riskManagement.maxDrawdownLimit = Min({@, DrawdownCap(data)}),
                 !.riskManagement.liquidateToBaseOnMaxDrawdown = TRUE]

SignalOf(data) == IF "algoLogic" \in DOMAIN data THEN data.algoLogic.signal ELSE "none"
AsymmetricOf(data) ==
    IF "asymmetricTrendMomentum" \in DOMAIN data.algoLogic THEN data.algoLogic.asymmetricTrendMomentum
    ELSE AsymmetricDefaults
Joined(assets, tickers) == FoldLeft(LAMBDA acc, t : IF t \in ToSet(acc) THEN acc ELSE Append(acc, t), assets, tickers)

WithRoles(data) ==
    LET p == AsymmetricOf(data) IN
    IF data.intentClass = "ALGORITHMIC_TRADING" /\ SignalOf(data) = "ASYMMETRIC_TREND_MOMENTUM"
    THEN [data EXCEPT !.universe.assets = Joined(@, <<p.equityTicker, p.cryptoTicker, p.safeHavenTicker>>)]
    ELSE data
Routed(data) == IF IsHftStrategy(data) THEN [marketRoutingMode |-> "SECONDARY_AMM"] ++ data ELSE data

\* The parameters a signal cannot do without.
Needs == [SMA_CROSSOVER |-> "sma", RSI |-> "rsi", Z_SCORE |-> "zScore"]
MeetsRules(data) ==
    CASE data.intentClass = "WALLET_MANAGEMENT" ->
            "walletLogic" \in DOMAIN data /\ SignalOf(data) \in {"none", "MACRO_ALLOCATION"}
      [] data.intentClass = "ALGORITHMIC_TRADING" ->
            /\ "algoLogic" \in DOMAIN data
            /\ SignalOf(data) \in DOMAIN Needs => Needs[SignalOf(data)] \in DOMAIN data.algoLogic
            /\ SignalOf(data) = "DUAL_MOMENTUM" => Len(data.universe.assets) >= 2
      [] IsHftStrategy(data) -> "hftLogic" \in DOMAIN data /\ CoversCosts(data)

\* validateQuantStrategyInput: parsed once more, capped, completed, checked.
Validated(raw) == {d \in {Routed(WithRoles(EnforceRiskCaps(p))) : p \in Parsed(raw)} : MeetsRules(d)}

\* The tool's schema, the tool itself and its validation each parse the payload.
BuildQuantitativeStrategy(raw) == UNION {Validated(d) : d \in UNION {Parsed(input) : input \in Parsed(raw)}}

(* Compilation *)

\* compileToEventDrivenConfig: the schedule, the signal and the risk the daily
\* engine gets.  The periods of the signals are the constants of DailySignals.
CompiledConfig(data) ==
    LET risk == data.riskManagement
        runs(kind, freq) ==
            [kind |-> kind, freq |-> freq, kelly |-> risk.enableKellyCap, lim |-> risk.maxDrawdownLimit,
             stop |-> risk.stopLossPercentage, liquidate |-> risk.liquidateToBaseOnMaxDrawdown]
        signal == SignalOf(data)
    IN  IF data.intentClass = "WALLET_MANAGEMENT"
        THEN runs("macro_allocation", data.walletLogic.rebalanceFrequency)
        ELSE CASE signal \in {"MACRO_REGIME_BREAKOUT", "MACRO_ALLOCATION"} -> runs("macro_allocation", "MONTHLY")
               [] signal = "DUAL_MOMENTUM" -> runs("dual_momentum", "MONTHLY")
               [] signal = "ASYMMETRIC_TREND_MOMENTUM" -> runs("asymmetric_trend_momentum", "MONTHLY")
               [] signal = "RSI" /\ "rsi" \in DOMAIN data.algoLogic -> runs("rsi", "DAILY_SIGNAL")
               [] signal = "Z_SCORE" /\ "zScore" \in DOMAIN data.algoLogic -> runs("z_score", "DAILY_SIGNAL")
               [] OTHER -> runs("sma_crossover", "DAILY_SIGNAL")

\* compileToEngineSpec: the specification the report keeps beside the other one.
\* It has no momentum, and a wallet trades daily under it.
LegacySpec(data) ==
    LET risk == data.riskManagement
        signal == SignalOf(data)
        kind == CASE data.intentClass = "WALLET_MANAGEMENT"
                     \/ signal \in {"MACRO_REGIME_BREAKOUT", "MACRO_ALLOCATION"} -> "drawdown_to_stable"
                  [] data.intentClass # "WALLET_MANAGEMENT" /\ signal = "RSI" -> "rsi"
                  [] data.intentClass # "WALLET_MANAGEMENT" /\ signal = "Z_SCORE" -> "z_score"
                  [] OTHER -> "sma_crossover"
    IN  [kind |-> kind, maxDrawdownFrac |-> risk.maxDrawdownLimit, stopLossFrac |-> risk.stopLossPercentage,
         circuitBreakerToStable |-> risk.liquidateToBaseOnMaxDrawdown]

\* parseStrategy of the backtest route and runStrategyBacktest of the chat: only
\* two kinds are asked for, and the second one with a limit at most.
RequestedSpec(kind, maxDrawdown) ==
    IF kind = "drawdown_to_stable" THEN [kind |-> kind, maxDrawdownFrac |-> maxDrawdown] ELSE [kind |-> "buy_and_hold"]

\* legacySpecToEventConfig: no Kelly cap, a signal every day unless it only holds.
LegacyConfig(spec) ==
    LET kind == IF spec.kind = "drawdown_to_stable" THEN "macro_allocation" ELSE spec.kind
        risk == Renamed(spec, [lim |-> <<"maxDrawdownFrac">>, stop |-> <<"stopLossFrac">>,
                               liquidate |-> <<"circuitBreakerToStable">>],
                        [lim |-> 15, stop |-> 10, liquidate |-> TRUE])
    IN  IF kind = "buy_and_hold"
        THEN [kind |-> kind, freq |-> "NONE", kelly |-> FALSE, lim |-> 100, stop |-> 100, liquidate |-> TRUE]
        ELSE [kind |-> kind, freq |-> "DAILY_SIGNAL", kelly |-> FALSE] ++ risk

\* compileToHFTConfig, with the seconds of a session in place of the strategy's
\* own time limit.
HftConfig(data, sessionSeconds) ==
    Only(data.hftLogic, {"orderBookImbalanceTrigger", "microStopLossBps", "targetProfitBps",
                         "estimatedSpreadBps", "useLimitOrdersOnly"})
    ++ Only(data.riskManagement, {"slippageBps", "makerFeeBps", "takerFeeBps"})
    ++ [maxLatencyMs |-> Max({data.hftLogic.maxLatencyMs, 150}), executionTimeoutSeconds |-> sessionSeconds,
        primaryTicker |-> data.backtest.primaryTicker]

(* The risk a report shows *)

\* None, or the limits an object states under any of their names.
RiskCaps(obj) ==
    LET caps == Renamed(obj, Only(RiskAliases, {"maxDrawdownLimit", "stopLossPercentage", "trailingStop"})
                    ++ [makerFeeBps |-> <<"makerFeeBps", "maker_fee_bps">>,
                        takerFeeBps |-> <<"takerFeeBps", "taker_fee_bps">>], [trailingStop |-> FALSE])
    IN  {c \in {caps} : {"maxDrawdownLimit", "stopLossPercentage"} \subseteq DOMAIN c}

\* Those saved with the report, else those of the strategy saved with it.
ResolvedRiskCaps(saved, strategy) ==
    LET blocks == <<RiskCaps(saved)>> \o [i \in 1..3 |->
            IF Risk[i] \in DOMAIN strategy THEN RiskCaps(strategy[Risk[i]]) ELSE {}]
        stated == SelectSeq(blocks, LAMBDA caps : caps # {})
    IN  IF stated = <<>> THEN {} ELSE Head(stated)

ReportedRiskCaps(data) ==
    Only(data.riskManagement,
         {"maxDrawdownLimit", "stopLossPercentage", "trailingStop", "makerFeeBps", "takerFeeBps"})

(* What the tool saves when neither the market data nor the engine fails *)

DailyReport(data) ==
    [engine |-> "event-driven-engine", compiled |-> data, config |-> CompiledConfig(data),
     legacy |-> LegacySpec(data), caps |-> ReportedRiskCaps(data),
     routing |-> IF "marketRoutingMode" \in DOMAIN data THEN data.marketRoutingMode ELSE "suggested"]

\* The stop shown is the one of a scalp, in whole percent.
HftReport(data, sessionSeconds) ==
    [engine |-> "hft-engine", compiled |-> data, config |-> HftConfig(data, sessionSeconds),
     sessions |-> data.hftLogic.replayMaxSessions, days |-> data.hftLogic.replayLookbackDays,
     caps |-> [maxDrawdownLimit |-> data.riskManagement.maxDrawdownLimit,
               stopLossPercentage |-> data.hftLogic.microStopLossBps \div 100, trailingStop |-> FALSE],
     routing |-> "SECONDARY_AMM"]

Reports(raw, sessionSeconds) ==
    {IF IsHftStrategy(d) THEN HftReport(d, sessionSeconds) ELSE DailyReport(d) : d \in BuildQuantitativeStrategy(raw)}
=============================================================================
