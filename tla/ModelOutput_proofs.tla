-------------------------- MODULE ModelOutput_proofs --------------------------
(***************************************************************************)
(* Proofs about what the code makes of a language model's output.  First    *)
(* StrategyCompiler, for every payload whatever its keys: a second pass      *)
(* changes nothing, and what is reported was armed.  Then AssistantTurn, for *)
(* any openings, specifications, answers and number of turns: the types,     *)
(* that runs are made of vetted programs only, and that a recommended answer *)
(* settles its question for good.                                            *)
(***************************************************************************)
EXTENDS StrategyCompiler, AssistantTurn, SequenceTheorems, TLAPS

--------------------------------------------------------------------------------
(* Objects: the strategy compiler, for every payload *)

\* An object that is nothing but its keys and their values.
IsObject(obj) == obj = [k \in DOMAIN obj |-> obj[k]]

LEMMA OverIs ==
    ASSUME NEW f, NEW g
    PROVE  /\ IsObject(f ++ g) /\ DOMAIN (f ++ g) = DOMAIN f \cup DOMAIN g
           /\ \A k \in DOMAIN f : (f ++ g)[k] = f[k]
           /\ \A k \in DOMAIN g \ DOMAIN f : (f ++ g)[k] = g[k]
BY DEF ++, IsObject

LEMMA OverSame ==
    ASSUME NEW f, NEW g, IsObject(f), DOMAIN g \subseteq DOMAIN f PROVE f ++ g = f
BY DEF ++, IsObject

LEMMA NoKeysIs == DOMAIN NoKeys = {}
BY DEF NoKeys

LEMMA OnlyIs ==
    ASSUME NEW obj, NEW keys
    PROVE  /\ IsObject(Only(obj, keys)) /\ DOMAIN Only(obj, keys) = DOMAIN obj \cap keys
           /\ \A k \in DOMAIN obj \cap keys : Only(obj, keys)[k] = obj[k]
BY DEF Only, IsObject

\* F says of the keys K what obj says of them.
Part(F, obj, K) == DOMAIN F = DOMAIN obj \cap K /\ \A k \in DOMAIN F : F[k] = obj[k]

LEMMA OnlyIsPart == ASSUME NEW obj, NEW keys PROVE Part(Only(obj, keys), obj, keys)
BY OnlyIs DEF Part

LEMMA WhenIsPart ==
    ASSUME NEW obj, NEW cond \in BOOLEAN, NEW k, NEW v,
           cond <=> k \in DOMAIN obj, cond => v = obj[k]
    PROVE  Part(When(cond, k, v), obj, {k})
<1>1. CASE cond
  BY <1>1 DEF When, Part
<1>2. CASE ~cond
  BY <1>2, NoKeysIs DEF When, Part
<1> QED BY <1>1, <1>2

LEMMA PartsJoin ==
    ASSUME NEW obj, NEW F, NEW K, Part(F, obj, K), NEW G, NEW L, Part(G, obj, L)
    PROVE  Part(F ++ G, obj, K \cup L)
<1>1. DOMAIN (F ++ G) = DOMAIN obj \cap (K \cup L)
  <2>1. DOMAIN (F ++ G) = DOMAIN F \cup DOMAIN G
    BY DEF ++
  <2> QED BY <2>1 DEF Part
<1>2. ASSUME NEW k \in DOMAIN (F ++ G) PROVE (F ++ G)[k] = obj[k]
  <2>1. k \in DOMAIN F \cup DOMAIN G /\ (F ++ G)[k] = IF k \in DOMAIN F THEN F[k] ELSE G[k]
    BY <1>2 DEF ++
  <2> QED BY <2>1 DEF Part
<1> QED BY <1>1, <1>2 DEF Part

LEMMA PartIsAll ==
    ASSUME NEW obj, IsObject(obj), NEW F, IsObject(F), NEW K, Part(F, obj, K), DOMAIN obj \subseteq K
    PROVE  F = obj
BY DEF Part, IsObject

\* The first of its names under which an object has a value wins.
LEMMA FirstIs ==
    ASSUME NEW obj, NEW keys, DOMAIN keys \subseteq Nat \ {0}, 1 \in DOMAIN keys, keys[1] \in DOMAIN obj
    PROVE  Has(obj, keys) /\ FirstOf(obj, keys) = obj[keys[1]]
<1> DEFINE S == {i \in DOMAIN keys : keys[i] \in DOMAIN obj}
<1>1. 1 \in S /\ \A i \in S : i \in Nat /\ 1 <= i
  OBVIOUS
<1>2. Min(S) \in S /\ \A i \in S : Min(S) <= i
  <2>1. \E x \in S : \A y \in S : x <= y
    BY <1>1
  <2> HIDE DEF S
  <2> QED BY <2>1 DEF Min
<1>3. Min(S) = 1
  <2> HIDE DEF S
  <2> QED BY <1>1, <1>2
<1> QED BY <1>3 DEF Has, FirstOf

\* Aliases whose first name is the canonical one.
Canonical(aliases) ==
    \A k \in DOMAIN aliases :
        /\ DOMAIN aliases[k] \subseteq Nat \ {0} /\ 1 \in DOMAIN aliases[k]
        /\ aliases[k][1] = k

LEMMA RenamedIs ==
    ASSUME NEW obj, NEW aliases, Canonical(aliases), NEW defaults,
           DOMAIN aliases \subseteq DOMAIN obj
    PROVE  Renamed(obj, aliases, defaults) = Only(obj, DOMAIN aliases)
<1>1. \A k \in DOMAIN aliases : Has(obj, aliases[k]) /\ FirstOf(obj, aliases[k]) = obj[k]
  BY FirstIs DEF Canonical
<1> QED BY <1>1 DEF Renamed, Only

LEMMA AliasesAreCanonical ==
    Canonical(RiskAliases) /\ Canonical(AsymmetricAliases) /\ Canonical(HftAliases)
<1>1. Canonical(RiskAliases)
  BY DEF Canonical, RiskAliases
<1>2. Canonical(AsymmetricAliases)
  BY DEF Canonical, AsymmetricAliases
<1>3. Canonical(HftAliases)
  BY DEF Canonical, HftAliases
<1> QED BY <1>1, <1>2, <1>3

RiskKeys == DOMAIN RiskAliases \cup {"makerFeeBps", "takerFeeBps"}

LEMMA RiskIsKept ==
    ASSUME NEW risk, IsObject(risk), DOMAIN risk = RiskKeys
    PROVE  NormalizeRiskBlock(risk) = risk
<1>1. Renamed(risk, RiskAliases,
            [trailingStop |-> FALSE, liquidateToBaseOnMaxDrawdown |-> TRUE, slippageBps |-> 0])
        = Only(risk, DOMAIN RiskAliases)
  BY AliasesAreCanonical, RenamedIs DEF RiskKeys
<1>2. FeeOf(risk, <<"makerFeeBps", "maker_fee_bps">>, <<"makerFeeRate", "maker_fee_rate">>, 0) = risk.makerFeeBps
  BY FirstIs DEF FeeOf, RiskKeys
<1>3. FeeOf(risk, <<"takerFeeBps", "taker_fee_bps">>,
            <<"takerFeeRate", "taker_fee_rate", "transactionFeeRate", "transaction_fee_rate", "feeRate">>, 5)
        = risk.takerFeeBps
  BY FirstIs DEF FeeOf, RiskKeys
<1>4. NormalizeRiskBlock(risk) = Only(risk, DOMAIN RiskAliases) ++ [makerFeeBps |-> risk.makerFeeBps, takerFeeBps |-> risk.takerFeeBps]
  BY <1>1, <1>2, <1>3 DEF NormalizeRiskBlock
<1> DEFINE F == Only(risk, DOMAIN RiskAliases)
           G == [makerFeeBps |-> risk.makerFeeBps, takerFeeBps |-> risk.takerFeeBps]
<1>5. Part(F, risk, DOMAIN RiskAliases)
  BY OnlyIsPart
<1>6. Part(G, risk, {"makerFeeBps", "takerFeeBps"})
  BY DEF Part, RiskKeys
<1>7. IsObject(F ++ G) /\ Part(F ++ G, risk, RiskKeys)
  BY <1>5, <1>6, PartsJoin, OverIs DEF RiskKeys
<1> QED BY <1>4, <1>7, PartIsAll

LEMMA AsymmetricIsKept ==
    ASSUME NEW p, IsObject(p), DOMAIN p = DOMAIN AsymmetricAliases
    PROVE  Renamed(p, AsymmetricAliases, AsymmetricDefaults) = p
<1>1. Renamed(p, AsymmetricAliases, AsymmetricDefaults) = Only(p, DOMAIN p)
  BY AliasesAreCanonical, RenamedIs
<1> QED BY <1>1 DEF Only, IsObject

LEMMA HftIsKept ==
    ASSUME NEW p, IsObject(p), DOMAIN p = DOMAIN HftAliases
    PROVE  Renamed(p, HftAliases, HftDefaults) = p
<1>1. Renamed(p, HftAliases, HftDefaults) = Only(p, DOMAIN p)
  BY AliasesAreCanonical, RenamedIs
<1> QED BY <1>1 DEF Only, IsObject

LEMMA UniverseIsKept ==
    ASSUME NEW u, IsObject(u), DOMAIN u = {"assets", "baseCurrency"}
    PROVE  Renamed(u, [assets |-> <<"assets", "symbols">>,
                       baseCurrency |-> <<"baseCurrency", "base_currency">>], [baseCurrency |-> "USDC"]) = u
<1> DEFINE A == [assets |-> <<"assets", "symbols">>, baseCurrency |-> <<"baseCurrency", "base_currency">>]
<1>1. Canonical(A) /\ DOMAIN A = DOMAIN u
  BY DEF Canonical
<1> HIDE DEF A
<1>2. Renamed(u, A, [baseCurrency |-> "USDC"]) = Only(u, DOMAIN u)
  BY <1>1, RenamedIs
<1> QED BY <1>2 DEF Only, IsObject, A

LEMMA WalletIsKept ==
    ASSUME NEW w, IsObject(w), "rebalance_frequency" \notin DOMAIN w
    PROVE  w ++ Renamed(w, [rebalanceFrequency |-> <<"rebalance_frequency">>], NoKeys) = w
<1>1. ~Has(w, <<"rebalance_frequency">>)
  BY DEF Has
<1>2. DOMAIN Renamed(w, [rebalanceFrequency |-> <<"rebalance_frequency">>], NoKeys) = {}
  BY <1>1, NoKeysIs DEF Renamed
<1> QED BY <1>2, OverSame

LEMMA BacktestIsKept ==
    ASSUME NEW b, IsObject(b), {"primaryTicker", "benchmark"} \subseteq DOMAIN b,
           DOMAIN b \subseteq {"primaryTicker", "benchmark", "timeframe"},
           NEW isHft \in BOOLEAN, isHft => "timeframe" \notin DOMAIN b
    PROVE  Renamed(b, [primaryTicker |-> <<"primaryTicker", "primary_ticker", "ticker">>,
                       benchmark |-> <<"benchmark">>], [benchmark |-> "^GSPC"])
             ++ (IF isHft THEN NoKeys ELSE Only(b, {"timeframe"})) = b
<1> DEFINE A == [primaryTicker |-> <<"primaryTicker", "primary_ticker", "ticker">>, benchmark |-> <<"benchmark">>]
           F == Only(b, {"primaryTicker", "benchmark"})
           G == IF isHft THEN NoKeys ELSE Only(b, {"timeframe"})
<1>1. Canonical(A) /\ DOMAIN A = {"primaryTicker", "benchmark"}
  BY DEF Canonical
<1>2. Renamed(b, A, [benchmark |-> "^GSPC"]) = F
  <2> HIDE DEF A
  <2> QED BY <1>1, RenamedIs
<1>3. Part(F, b, {"primaryTicker", "benchmark"})
  BY OnlyIsPart
<1>4. Part(G, b, {"timeframe"})
  <2>1. CASE isHft
    BY <2>1, NoKeysIs DEF Part
  <2>2. CASE ~isHft
    BY <2>2, OnlyIsPart
  <2> QED BY <2>1, <2>2
<1> HIDE DEF F, G, A
<1>5. Part(F ++ G, b, {"primaryTicker", "benchmark", "timeframe"})
  <2>1. Part(F ++ G, b, {"primaryTicker", "benchmark"} \cup {"timeframe"})
    BY <1>3, <1>4, PartsJoin
  <2>2. {"primaryTicker", "benchmark"} \cup {"timeframe"} = {"primaryTicker", "benchmark", "timeframe"}
    OBVIOUS
  <2> QED BY <2>1, <2>2
<1>6. IsObject(F ++ G)
  BY OverIs
<1>7. F ++ G = b
  BY <1>5, <1>6, PartIsAll
<1> QED BY <1>2, <1>7 DEF G, A

\* The signals that are spelled like this, and the case in which they decide.
SpelledLike(spelling) == {s \in Signals : Fragments[s] = Fragments[spelling]}
NoneOfThree(words) ==
    /\ ~{"MACRO", "REGIME"} \subseteq words /\ "ASYMMETRIC" \notin words
    /\ ~{"DUAL", "MOMENTUM"} \subseteq words

LEMMA OtherSignals ==
    ASSUME NEW spelling, NoneOfThree(Fragments[spelling])
    PROVE  NormalizeSignal(spelling) =
             IF SpelledLike(spelling) = {} THEN spelling ELSE CHOOSE s \in SpelledLike(spelling) : TRUE
BY DEF NormalizeSignal, NoneOfThree, SpelledLike

LEMMA SignalIsKept ==
    ASSUME NEW spelling, NormalizeSignal(spelling) \in Signals
    PROVE  NormalizeSignal(NormalizeSignal(spelling)) = NormalizeSignal(spelling)
<1> DEFINE words == Fragments[spelling]
           s == NormalizeSignal(spelling)
<1>1. CASE {"MACRO", "REGIME"} \subseteq words
  <2>1. s = "MACRO_REGIME_BREAKOUT"
    BY <1>1 DEF NormalizeSignal
  <2> QED BY <2>1, CompilerAssumption DEF NormalizeSignal
<1>2. CASE ~{"MACRO", "REGIME"} \subseteq words /\ "ASYMMETRIC" \in words
  <2>1. s = "ASYMMETRIC_TREND_MOMENTUM"
    BY <1>2 DEF NormalizeSignal
  <2> QED BY <2>1, CompilerAssumption DEF NormalizeSignal
<1>3. CASE ~{"MACRO", "REGIME"} \subseteq words /\ "ASYMMETRIC" \notin words /\ {"DUAL", "MOMENTUM"} \subseteq words
  <2>1. s = "DUAL_MOMENTUM"
    BY <1>3 DEF NormalizeSignal
  <2> QED BY <2>1, CompilerAssumption DEF NormalizeSignal
<1>4. CASE NoneOfThree(words)
  <2>1. s = IF SpelledLike(spelling) = {} THEN spelling ELSE CHOOSE x \in SpelledLike(spelling) : TRUE
    BY <1>4, OtherSignals
  <2> HIDE DEF s
  <2>2. SpelledLike(spelling) # {}
    <3> SUFFICES ASSUME SpelledLike(spelling) = {} PROVE FALSE
      OBVIOUS
    <3>1. spelling \in Signals
      BY <2>1 DEF s
    <3> QED BY <3>1 DEF SpelledLike
  <2>3. s \in SpelledLike(spelling) /\ s = CHOOSE x \in SpelledLike(spelling) : TRUE
    BY <2>1, <2>2
  <2>4. Fragments[s] = words /\ SpelledLike(s) = SpelledLike(spelling)
    BY <2>3 DEF SpelledLike
  <2>5. NormalizeSignal(s) = CHOOSE x \in SpelledLike(s) : TRUE
    BY <1>4, <2>2, <2>4, OtherSignals
  <2> QED BY <2>3, <2>4, <2>5 DEF s
<1> QED BY <1>1, <1>2, <1>3, <1>4 DEF NoneOfThree

Parameters == DOMAIN ParameterSchemas

\* A block as a pass leaves it: every parameter under its canonical name, the
\* ones that have a default filled in.
Complete(block, schema) ==
    IsObject(block) /\ Fits(block, schema) /\ DOMAIN schema.defaults \subseteq DOMAIN block

AlgoComplete(algo) ==
    /\ IsObject(algo) /\ "signal" \in DOMAIN algo /\ DOMAIN algo \subseteq {"signal"} \cup Parameters
    /\ algo.signal \in Signals /\ NormalizeSignal(algo.signal) = algo.signal
    /\ \A q \in DOMAIN algo \ {"signal"} : Complete(algo[q], ParameterSchemas[q])

LEMMA ParametersAre == Parameters = {"sma", "rsi", "zScore", "asymmetricTrendMomentum"}
BY DEF Parameters, ParameterSchemas

LEMMA AlgoIsKept ==
    ASSUME NEW algo, AlgoComplete(algo)
    PROVE  NormalizeAlgo(algo) = algo
<1> DEFINE signal == <<"signal", "entryLogic">>
           asymmetric == <<"asymmetricTrendMomentum", "asymmetric_trend_momentum">>
           zs == <<"z_score", "zScore">>
           A == When(Has(algo, signal), "signal", NormalizeSignal(FirstOf(algo, signal)))
           B == Only(algo, {"sma", "rsi"})
           C == When(Has(algo, zs), "zScore", FirstOf(algo, zs))
           E == When(Has(algo, asymmetric), "asymmetricTrendMomentum",
                     Renamed(FirstOf(algo, asymmetric), AsymmetricAliases, AsymmetricDefaults))
<1>0. DOMAIN algo \subseteq {"signal", "sma", "rsi", "zScore", "asymmetricTrendMomentum"}
  BY ParametersAre DEF AlgoComplete
<1>1. Part(A, algo, {"signal"})
  <2>1. Has(algo, signal) /\ FirstOf(algo, signal) = algo.signal
    BY FirstIs DEF AlgoComplete
  <2>2. Has(algo, signal) \in BOOLEAN
    BY DEF Has
  <2> HIDE DEF signal
  <2> QED BY <2>1, <2>2, WhenIsPart DEF AlgoComplete
<1>2. Part(B, algo, {"sma", "rsi"})
  BY OnlyIsPart
<1>3. Part(C, algo, {"zScore"})
  <2>1. Has(algo, zs) <=> "zScore" \in DOMAIN algo
    BY <1>0 DEF Has
  <2>2. Has(algo, zs) => FirstOf(algo, zs) = algo.zScore
    <3> SUFFICES ASSUME "zScore" \in DOMAIN algo PROVE FirstOf(algo, zs) = algo.zScore
      BY <2>1
    <3>1. {i \in DOMAIN zs : zs[i] \in DOMAIN algo} = {2}
      BY <1>0
    <3>2. Min({2}) = 2
      BY DEF Min
    <3> QED BY <3>1, <3>2 DEF FirstOf
  <2>3. Has(algo, zs) \in BOOLEAN
    BY DEF Has
  <2> HIDE DEF zs
  <2> QED BY <2>1, <2>2, <2>3, WhenIsPart
<1>4. Part(E, algo, {"asymmetricTrendMomentum"})
  <2>1. Has(algo, asymmetric) <=> "asymmetricTrendMomentum" \in DOMAIN algo
    BY <1>0 DEF Has
  <2>2. Has(algo, asymmetric)
          => Renamed(FirstOf(algo, asymmetric), AsymmetricAliases, AsymmetricDefaults) = algo.asymmetricTrendMomentum
    <3> SUFFICES ASSUME "asymmetricTrendMomentum" \in DOMAIN algo
                 PROVE  Renamed(FirstOf(algo, asymmetric), AsymmetricAliases, AsymmetricDefaults)
                          = algo.asymmetricTrendMomentum
      BY <2>1
    <3>1. FirstOf(algo, asymmetric) = algo.asymmetricTrendMomentum
      BY FirstIs
    <3>2. Complete(algo.asymmetricTrendMomentum, ParameterSchemas.asymmetricTrendMomentum)
      BY DEF AlgoComplete
    <3>3. /\ DOMAIN ParameterSchemas.asymmetricTrendMomentum.of = DOMAIN AsymmetricAliases
          /\ DOMAIN ParameterSchemas.asymmetricTrendMomentum.defaults = DOMAIN AsymmetricAliases
      BY DEF ParameterSchemas, AsymmetricAliases, AsymmetricDefaults
    <3> HIDE DEF asymmetric
    <3> QED BY <3>1, <3>2, <3>3, AsymmetricIsKept DEF Complete, Fits
  <2>3. Has(algo, asymmetric) \in BOOLEAN
    BY DEF Has
  <2> HIDE DEF asymmetric
  <2> QED BY <2>1, <2>2, <2>3, WhenIsPart
<1>5. NormalizeAlgo(algo) = A ++ B ++ C ++ E
  BY DEF NormalizeAlgo
<1> HIDE DEF A, B, C, E
<1>6. Part(A ++ B ++ C ++ E, algo, {"signal", "sma", "rsi", "zScore", "asymmetricTrendMomentum"})
  <2>1. Part(A ++ B, algo, {"signal", "sma", "rsi"})
    BY <1>1, <1>2, PartsJoin
  <2>2. Part(A ++ B ++ C, algo, {"signal", "sma", "rsi", "zScore"})
    BY <1>3, <2>1, PartsJoin
  <2> QED BY <1>4, <2>2, PartsJoin
<1>7. IsObject(A ++ B ++ C ++ E)
  BY OverIs
<1> QED BY <1>0, <1>5, <1>6, <1>7, PartIsAll DEF AlgoComplete

(* One pass *)

\* The eight things the normalisation writes, and the object they make.
UniverseWritten(raw) ==
    When(Has(raw, <<"universe">>), "universe",
         Renamed(raw.universe, [assets |-> <<"assets", "symbols">>,
             baseCurrency |-> <<"baseCurrency", "base_currency">>], [baseCurrency |-> "USDC"]))
RiskWritten(raw) == When(Has(raw, Risk), "riskManagement", NormalizeRiskBlock(FirstOf(raw, Risk)))
AlgoWritten(raw) == When("algoLogic" \in DOMAIN raw, "algoLogic", NormalizeAlgo(raw.algoLogic))
EntryWritten(raw) == When("entryLogic" \in DOMAIN raw, "algoLogic", NormalizeEntry(raw.entryLogic))
WalletWritten(raw) ==
    When("walletLogic" \in DOMAIN raw, "walletLogic",
         raw.walletLogic ++ Renamed(raw.walletLogic, [rebalanceFrequency |-> <<"rebalance_frequency">>], NoKeys))
SaysHftSomewhere(raw) == Has(raw, Hft) \/ (Has(raw, Intent) /\ SaysHft(FirstOf(raw, Intent)))
HftWritten(raw) == When(Has(raw, Hft), "hftLogic", Renamed(FirstOf(raw, Hft), HftAliases, HftDefaults))
IntentWritten(raw) ==
    When("intentClass" \in DOMAIN raw /\ SaysHft(raw.intentClass), "intentClass", "HIGH_FREQUENCY_SCALPING")
Rewritten(raw) ==
    UniverseWritten(raw) ++ RiskWritten(raw) ++ AlgoWritten(raw) ++ EntryWritten(raw) ++ WalletWritten(raw)
        ++ NormalizeBacktest(raw, SaysHftSomewhere(raw)) ++ HftWritten(raw) ++ IntentWritten(raw)
Dropped == {"risk_management", "risk", "hft_logic", "wallet_logic", "intent_class",
            "intent_summary", "market_routing_mode", "algo_logic", "entryLogic"}

LEMMA NormalizedIs ==
    ASSUME NEW payload
    PROVE  NormalizedPayload(payload) = Without(Rewritten(Unwrapped(payload)) ++ Unwrapped(payload), Dropped)
BY DEF NormalizedPayload, Rewritten, Dropped, UniverseWritten, RiskWritten, AlgoWritten, EntryWritten,
       WalletWritten, HftWritten, IntentWritten, SaysHftSomewhere

\* F says nothing that obj does not say.
Says(F, obj) == DOMAIN F \subseteq DOMAIN obj /\ \A k \in DOMAIN F : F[k] = obj[k]

LEMMA SaysJoin ==
    ASSUME NEW obj, NEW F, Says(F, obj), NEW G, Says(G, obj)
    PROVE  Says(F ++ G, obj)
<1>1. DOMAIN (F ++ G) = DOMAIN F \cup DOMAIN G
  BY DEF ++
<1>2. ASSUME NEW k \in DOMAIN (F ++ G) PROVE (F ++ G)[k] = obj[k]
  <2>1. k \in DOMAIN F \cup DOMAIN G /\ (F ++ G)[k] = IF k \in DOMAIN F THEN F[k] ELSE G[k]
    BY <1>2 DEF ++
  <2> QED BY <2>1 DEF Says
<1> QED BY <1>1, <1>2 DEF Says

LEMMA SaysWhen ==
    ASSUME NEW obj, NEW cond, NEW k, NEW v, cond => k \in DOMAIN obj /\ v = obj[k]
    PROVE  Says(When(cond, k, v), obj)
<1>1. CASE cond
  BY <1>1 DEF When, Says
<1>2. CASE ~cond
  BY <1>2, NoKeysIs DEF When, Says
<1> QED BY <1>1, <1>2

LEMMA SaysNothingNew ==
    ASSUME NEW obj, IsObject(obj), NEW F, Says(F, obj)
    PROVE  F ++ obj = obj
BY DEF ++, Says, IsObject

LEMMA WithoutNone ==
    ASSUME NEW obj, IsObject(obj), NEW keys, DOMAIN obj \cap keys = {}
    PROVE  Without(obj, keys) = obj
BY DEF Without, IsObject

\* What a pass leaves: complete blocks under canonical keys, a signal that is
\* recognised as itself, a scalper that says so and has no timeframe.
Blocks == DOMAIN BlockSchemas
Normal(d) ==
    /\ IsObject(d) /\ RootFits(d) /\ Refined(d)
    /\ \A k \in DOMAIN d \cap Blocks : Complete(d[k], BlockSchemas[k])
    /\ "algoLogic" \in DOMAIN d => AlgoComplete(d.algoLogic)
    /\ SaysHft(d.intentClass) => IsHftStrategy(d)
    /\ "hftLogic" \in DOMAIN d \/ SaysHft(d.intentClass) => "timeframe" \notin DOMAIN d.backtest

LEMMA BlocksAre == Blocks = {"universe", "walletLogic", "hftLogic", "riskManagement", "backtest"}
BY DEF Blocks, BlockSchemas

LEMMA NormalKeys ==
    ASSUME NEW d, Normal(d)
    PROVE  /\ DOMAIN d \subseteq {"universe", "walletLogic", "hftLogic", "riskManagement", "backtest",
                                   "intentClass", "intentSummary", "algoLogic", "marketRoutingMode"}
           /\ {"intentClass", "intentSummary", "universe", "riskManagement", "backtest"} \subseteq DOMAIN d
BY BlocksAre DEF Normal, RootFits, Blocks

LEMMA UnwrappedIsKept ==
    ASSUME NEW d, Normal(d)
    PROVE  Unwrapped(d) = d
<1>1. 1 \in DOMAIN (Intent \o Summary) /\ (Intent \o Summary)[1] = "intentClass"
  BY DEF Intent, Summary
<1>2. Has(d, Intent \o Summary)
  BY <1>1, NormalKeys DEF Has
<1> QED BY <1>2 DEF Unwrapped

LEMMA BlockShapes ==
    /\ DOMAIN UniverseSchema.of = {"assets", "baseCurrency"}
    /\ UniverseSchema.required \cup DOMAIN UniverseSchema.defaults = {"assets", "baseCurrency"}
    /\ DOMAIN WalletSchema.of = {"rebalanceFrequency", "weighting", "macroNotes"}
    /\ DOMAIN HftSchema.of = DOMAIN HftAliases /\ DOMAIN HftSchema.defaults = DOMAIN HftAliases
    /\ DOMAIN RiskSchema.of = RiskKeys /\ RiskSchema.required \cup DOMAIN RiskSchema.defaults = RiskKeys
    /\ DOMAIN BacktestSchema.of = {"primaryTicker", "benchmark", "timeframe"}
    /\ BacktestSchema.required \cup DOMAIN BacktestSchema.defaults = {"primaryTicker", "benchmark"}
<1>1. /\ DOMAIN UniverseSchema.of = {"assets", "baseCurrency"}
      /\ UniverseSchema.required \cup DOMAIN UniverseSchema.defaults = {"assets", "baseCurrency"}
  BY DEF UniverseSchema
<1>2. DOMAIN WalletSchema.of = {"rebalanceFrequency", "weighting", "macroNotes"}
  BY DEF WalletSchema
<1>3. DOMAIN HftSchema.of = DOMAIN HftAliases /\ DOMAIN HftSchema.defaults = DOMAIN HftAliases
  BY DEF HftSchema, HftAliases, HftDefaults
<1>4. DOMAIN RiskSchema.of = RiskKeys /\ RiskSchema.required \cup DOMAIN RiskSchema.defaults = RiskKeys
  BY DEF RiskSchema, RiskKeys, RiskAliases
<1>5. /\ DOMAIN BacktestSchema.of = {"primaryTicker", "benchmark", "timeframe"}
      /\ BacktestSchema.required \cup DOMAIN BacktestSchema.defaults = {"primaryTicker", "benchmark"}
  BY DEF BacktestSchema
<1> QED BY <1>1, <1>2, <1>3, <1>4, <1>5

\* The blocks of a normalised strategy have these keys.
LEMMA NormalBlocks ==
    ASSUME NEW d, Normal(d)
    PROVE  /\ IsObject(d.universe) /\ DOMAIN d.universe = {"assets", "baseCurrency"}
           /\ IsObject(d.riskManagement) /\ DOMAIN d.riskManagement = RiskKeys
           /\ IsObject(d.backtest) /\ {"primaryTicker", "benchmark"} \subseteq DOMAIN d.backtest
           /\ DOMAIN d.backtest \subseteq {"primaryTicker", "benchmark", "timeframe"}
           /\ "walletLogic" \in DOMAIN d =>
                IsObject(d.walletLogic) /\ "rebalance_frequency" \notin DOMAIN d.walletLogic
           /\ "hftLogic" \in DOMAIN d => IsObject(d.hftLogic) /\ DOMAIN d.hftLogic = DOMAIN HftAliases
<1>1. \A k \in DOMAIN d \cap Blocks : Complete(d[k], BlockSchemas[k])
  BY DEF Normal
<1>2. /\ Complete(d.universe, UniverseSchema) /\ Complete(d.riskManagement, RiskSchema)
      /\ Complete(d.backtest, BacktestSchema)
  BY <1>1, BlocksAre, NormalKeys DEF BlockSchemas
<1>3. /\ "walletLogic" \in DOMAIN d => Complete(d.walletLogic, WalletSchema)
      /\ "hftLogic" \in DOMAIN d => Complete(d.hftLogic, HftSchema)
  BY <1>1, BlocksAre DEF BlockSchemas
<1>4. IsObject(d.universe) /\ DOMAIN d.universe = {"assets", "baseCurrency"}
  BY <1>2, BlockShapes DEF Complete, Fits
<1>5. IsObject(d.riskManagement) /\ DOMAIN d.riskManagement = RiskKeys
  BY <1>2, BlockShapes DEF Complete, Fits
<1>6. /\ IsObject(d.backtest) /\ {"primaryTicker", "benchmark"} \subseteq DOMAIN d.backtest
      /\ DOMAIN d.backtest \subseteq {"primaryTicker", "benchmark", "timeframe"}
  BY <1>2, BlockShapes DEF Complete, Fits
<1>7. "walletLogic" \in DOMAIN d =>
        IsObject(d.walletLogic) /\ "rebalance_frequency" \notin DOMAIN d.walletLogic
  BY <1>3, BlockShapes DEF Complete, Fits
<1>8. "hftLogic" \in DOMAIN d => IsObject(d.hftLogic) /\ DOMAIN d.hftLogic = DOMAIN HftAliases
  BY <1>3, BlockShapes DEF Complete, Fits
<1> QED BY <1>4, <1>5, <1>6, <1>7, <1>8

\* A normalised strategy is normalised to itself.
LEMMA PayloadIsKept ==
    ASSUME NEW d, Normal(d)
    PROVE  NormalizedPayload(d) = d
<1> USE NormalKeys, NormalBlocks
<1>1. Says(UniverseWritten(d), d)
  <2>1. Has(d, <<"universe">>) => "universe" \in DOMAIN d
    BY DEF Has
  <2> QED BY <2>1, UniverseIsKept, SaysWhen DEF UniverseWritten
<1>2. Says(RiskWritten(d), d)
  <2>1. FirstOf(d, Risk) = d.riskManagement
    BY FirstIs DEF Risk
  <2> QED BY <2>1, RiskIsKept, SaysWhen DEF RiskWritten
<1>3. Says(AlgoWritten(d), d)
  BY AlgoIsKept, SaysWhen DEF AlgoWritten, Normal
<1>4. Says(EntryWritten(d), d)
  <2>1. "entryLogic" \notin DOMAIN d
    OBVIOUS
  <2> QED BY <2>1, SaysWhen DEF EntryWritten
<1>5. Says(WalletWritten(d), d)
  BY WalletIsKept, SaysWhen DEF WalletWritten
<1>6. Says(NormalizeBacktest(d, SaysHftSomewhere(d)), d)
  <2> DEFINE isHft == SaysHftSomewhere(d)
  <2>1. isHft \in BOOLEAN
    BY DEF SaysHftSomewhere, Has
  <2>2. isHft => "timeframe" \notin DOMAIN d.backtest
    <3>1. Has(d, Hft) => "hftLogic" \in DOMAIN d
      BY DEF Has, Hft
    <3>2. Has(d, Intent) /\ FirstOf(d, Intent) = d.intentClass
      BY FirstIs DEF Intent
    <3> QED BY <3>1, <3>2 DEF SaysHftSomewhere, Normal
  <2>3. Has(d, <<"backtest">>)
    BY DEF Has
  <2> HIDE DEF isHft
  <2>4. NormalizeBacktest(d, isHft) = [backtest |-> d.backtest]
    BY <2>1, <2>2, <2>3, BacktestIsKept DEF NormalizeBacktest
  <2> QED BY <2>4 DEF Says, isHft
<1>7. Says(HftWritten(d), d)
  <2>1. Has(d, Hft) => "hftLogic" \in DOMAIN d
    BY DEF Has, Hft
  <2>2. "hftLogic" \in DOMAIN d => FirstOf(d, Hft) = d.hftLogic
    BY FirstIs DEF Hft
  <2> QED BY <2>1, <2>2, HftIsKept, SaysWhen DEF HftWritten
<1>8. Says(IntentWritten(d), d)
  BY SaysWhen DEF IntentWritten, Normal, IsHftStrategy
<1>9. Says(Rewritten(d), d)
  <2>1. Says(UniverseWritten(d) ++ RiskWritten(d), d)
    BY <1>1, <1>2, SaysJoin
  <2>2. Says(UniverseWritten(d) ++ RiskWritten(d) ++ AlgoWritten(d), d)
    BY <2>1, <1>3, SaysJoin
  <2>3. Says(UniverseWritten(d) ++ RiskWritten(d) ++ AlgoWritten(d) ++ EntryWritten(d), d)
    BY <2>2, <1>4, SaysJoin
  <2>4. Says(UniverseWritten(d) ++ RiskWritten(d) ++ AlgoWritten(d) ++ EntryWritten(d) ++ WalletWritten(d), d)
    BY <2>3, <1>5, SaysJoin
  <2>5. Says(UniverseWritten(d) ++ RiskWritten(d) ++ AlgoWritten(d) ++ EntryWritten(d) ++ WalletWritten(d)
               ++ NormalizeBacktest(d, SaysHftSomewhere(d)), d)
    BY <2>4, <1>6, SaysJoin
  <2>6. Says(UniverseWritten(d) ++ RiskWritten(d) ++ AlgoWritten(d) ++ EntryWritten(d) ++ WalletWritten(d)
               ++ NormalizeBacktest(d, SaysHftSomewhere(d)) ++ HftWritten(d), d)
    BY <2>5, <1>7, SaysJoin
  <2> QED BY <2>6, <1>8, SaysJoin DEF Rewritten
<1>10. Rewritten(d) ++ d = d
  BY <1>9, SaysNothingNew DEF Normal
<1>11. Without(d, Dropped) = d
  <2>1. DOMAIN d \cap Dropped = {}
    BY DEF Dropped
  <2> QED BY <2>1, WithoutNone DEF Normal
<1> QED BY <1>10, <1>11, UnwrappedIsKept, NormalizedIs

LEMMA FilledIsKept ==
    ASSUME NEW d, Normal(d)
    PROVE  Filled(d) = d
<1>1. ASSUME NEW k \in DOMAIN d \cap Blocks PROVE d[k] ++ BlockSchemas[k].defaults = d[k]
  BY <1>1, OverSame DEF Normal, Complete
<1>2. ASSUME "algoLogic" \in DOMAIN d
      PROVE  d.algoLogic = [q \in DOMAIN d.algoLogic |->
               IF q = "signal" THEN d.algoLogic[q] ELSE d.algoLogic[q] ++ ParameterSchemas[q].defaults]
  <2>1. AlgoComplete(d.algoLogic)
    BY <1>2 DEF Normal
  <2>2. \A q \in DOMAIN d.algoLogic \ {"signal"} : d.algoLogic[q] ++ ParameterSchemas[q].defaults = d.algoLogic[q]
    BY <2>1, OverSame DEF AlgoComplete, Complete
  <2> QED BY <2>1, <2>2 DEF AlgoComplete, IsObject
<1>3. "algoLogic" \notin Blocks
  BY BlocksAre
<1> QED BY <1>1, <1>2, <1>3 DEF Filled, Normal, IsObject, Blocks

\* Nothing that a pass filled in or converted is changed by the next one.
LEMMA NormalIsParsed ==
    ASSUME NEW d, Normal(d)
    PROVE  Parsed(d) = {d}
<1>1. NormalizedPayload(d) = d /\ Filled(d) = d
  BY PayloadIsKept, FilledIsKept
<1> QED BY <1>1 DEF Parsed, Normal

(* The first pass *)

LEMMA OverAt ==
    ASSUME NEW f, NEW g, NEW k
    PROVE  /\ k \in DOMAIN (f ++ g) <=> k \in DOMAIN f \/ k \in DOMAIN g
           /\ k \in DOMAIN f => (f ++ g)[k] = f[k]
           /\ k \in DOMAIN g /\ k \notin DOMAIN f => (f ++ g)[k] = g[k]
BY DEF ++

LEMMA WhenAt ==
    ASSUME NEW cond, NEW k, NEW v
    PROVE  /\ DOMAIN When(cond, k, v) \subseteq {k} /\ (cond <=> k \in DOMAIN When(cond, k, v))
           /\ cond => When(cond, k, v)[k] = v
<1>1. CASE cond
  BY <1>1 DEF When
<1>2. CASE ~cond
  BY <1>2, NoKeysIs DEF When
<1> QED BY <1>1, <1>2

\* Each of the eight writes one key of its own, the two signals the same one.
LEMMA WrittenKeys ==
    ASSUME NEW raw
    PROVE  /\ DOMAIN UniverseWritten(raw) \subseteq {"universe"}
           /\ DOMAIN RiskWritten(raw) \subseteq {"riskManagement"}
           /\ DOMAIN AlgoWritten(raw) \subseteq {"algoLogic"}
           /\ DOMAIN EntryWritten(raw) \subseteq {"algoLogic"}
           /\ DOMAIN WalletWritten(raw) \subseteq {"walletLogic"}
           /\ DOMAIN NormalizeBacktest(raw, SaysHftSomewhere(raw)) \subseteq {"backtest"}
           /\ DOMAIN HftWritten(raw) \subseteq {"hftLogic"}
           /\ DOMAIN IntentWritten(raw) \subseteq {"intentClass"}
<1>1. /\ DOMAIN UniverseWritten(raw) \subseteq {"universe"}
      /\ DOMAIN RiskWritten(raw) \subseteq {"riskManagement"}
      /\ DOMAIN AlgoWritten(raw) \subseteq {"algoLogic"}
      /\ DOMAIN EntryWritten(raw) \subseteq {"algoLogic"}
      /\ DOMAIN WalletWritten(raw) \subseteq {"walletLogic"}
      /\ DOMAIN HftWritten(raw) \subseteq {"hftLogic"}
      /\ DOMAIN IntentWritten(raw) \subseteq {"intentClass"}
  BY WhenAt DEF UniverseWritten, RiskWritten, AlgoWritten, EntryWritten, WalletWritten, HftWritten, IntentWritten
<1>2. DOMAIN NormalizeBacktest(raw, SaysHftSomewhere(raw)) \subseteq {"backtest"}
  BY WhenAt DEF NormalizeBacktest
<1> QED BY <1>1, <1>2

LEMMA RewrittenAlgo ==
    ASSUME NEW raw
    PROVE  /\ "algoLogic" \in DOMAIN raw => Rewritten(raw)["algoLogic"] = NormalizeAlgo(raw.algoLogic)
           /\ "algoLogic" \notin DOMAIN raw /\ "entryLogic" \in DOMAIN raw =>
                Rewritten(raw)["algoLogic"] = NormalizeEntry(raw.entryLogic)
           /\ "algoLogic" \in DOMAIN Rewritten(raw) <=>
                "algoLogic" \in DOMAIN raw \/ "entryLogic" \in DOMAIN raw
<1> DEFINE U == UniverseWritten(raw)
           R == RiskWritten(raw)
           A == AlgoWritten(raw)
           E == EntryWritten(raw)
           W == WalletWritten(raw)
           B == NormalizeBacktest(raw, SaysHftSomewhere(raw))
           H == HftWritten(raw)
           I == IntentWritten(raw)
           key == "algoLogic"
<1>1. /\ "algoLogic" \in DOMAIN raw <=> key \in DOMAIN A
      /\ "algoLogic" \in DOMAIN raw => A[key] = NormalizeAlgo(raw.algoLogic)
  <2>1. CASE "algoLogic" \in DOMAIN raw
    BY <2>1 DEF AlgoWritten, When
  <2>2. CASE ~("algoLogic" \in DOMAIN raw)
    BY <2>2, NoKeysIs DEF AlgoWritten, When
  <2> QED BY <2>1, <2>2
<1>2. /\ "entryLogic" \in DOMAIN raw <=> key \in DOMAIN E
      /\ "entryLogic" \in DOMAIN raw => E[key] = NormalizeEntry(raw.entryLogic)
  <2>1. CASE "entryLogic" \in DOMAIN raw
    BY <2>1 DEF EntryWritten, When
  <2>2. CASE ~("entryLogic" \in DOMAIN raw)
    BY <2>2, NoKeysIs DEF EntryWritten, When
  <2> QED BY <2>1, <2>2
<1>3. key \notin DOMAIN U /\ key \notin DOMAIN R /\ key \notin DOMAIN W /\ key \notin DOMAIN B
        /\ key \notin DOMAIN H /\ key \notin DOMAIN I
  BY WrittenKeys
<1>4. Rewritten(raw) = U ++ R ++ A ++ E ++ W ++ B ++ H ++ I
  BY DEF Rewritten
<1> HIDE DEF U, R, A, E, W, B, H, I
<1>5. key \notin DOMAIN (U ++ R)
  BY <1>3, OverAt
<1>6. /\ key \in DOMAIN (U ++ R ++ A) <=> key \in DOMAIN A
      /\ key \in DOMAIN A => (U ++ R ++ A)[key] = A[key]
  BY <1>5, OverAt
<1>7. /\ key \in DOMAIN (U ++ R ++ A ++ E) <=> key \in DOMAIN A \/ key \in DOMAIN E
      /\ key \in DOMAIN A => (U ++ R ++ A ++ E)[key] = A[key]
      /\ key \notin DOMAIN A /\ key \in DOMAIN E => (U ++ R ++ A ++ E)[key] = E[key]
  BY <1>6, OverAt
<1> DEFINE X == U ++ R ++ A ++ E
<1> HIDE DEF X
<1>8. /\ key \in DOMAIN (X ++ W) <=> key \in DOMAIN X
      /\ key \in DOMAIN X => (X ++ W)[key] = X[key]
  BY <1>3, OverAt
<1>9. /\ key \in DOMAIN (X ++ W ++ B) <=> key \in DOMAIN X
      /\ key \in DOMAIN X => (X ++ W ++ B)[key] = X[key]
  BY <1>3, <1>8, OverAt
<1>10. /\ key \in DOMAIN (X ++ W ++ B ++ H) <=> key \in DOMAIN X
       /\ key \in DOMAIN X => (X ++ W ++ B ++ H)[key] = X[key]
  BY <1>3, <1>9, OverAt
<1>11. /\ key \in DOMAIN (X ++ W ++ B ++ H ++ I) <=> key \in DOMAIN X
       /\ key \in DOMAIN X => (X ++ W ++ B ++ H ++ I)[key] = X[key]
  BY <1>3, <1>10, OverAt
<1> QED BY <1>1, <1>2, <1>4, <1>7, <1>11 DEF X

LEMMA RewrittenBacktest ==
    ASSUME NEW raw
    PROVE  LET B == NormalizeBacktest(raw, SaysHftSomewhere(raw)) IN
           /\ "backtest" \in DOMAIN Rewritten(raw) <=> "backtest" \in DOMAIN B
           /\ "backtest" \in DOMAIN B => Rewritten(raw)["backtest"] = B["backtest"]
<1> DEFINE X == UniverseWritten(raw) ++ RiskWritten(raw) ++ AlgoWritten(raw) ++ EntryWritten(raw) ++ WalletWritten(raw)
           B == NormalizeBacktest(raw, SaysHftSomewhere(raw))
           H == HftWritten(raw)
           I == IntentWritten(raw)
           key == "backtest"
<1>1. DOMAIN X = DOMAIN UniverseWritten(raw) \cup DOMAIN RiskWritten(raw) \cup DOMAIN AlgoWritten(raw)
                   \cup DOMAIN EntryWritten(raw) \cup DOMAIN WalletWritten(raw)
  BY DEF ++
<1>2. key \notin DOMAIN X /\ key \notin DOMAIN H /\ key \notin DOMAIN I
  BY <1>1, WrittenKeys
<1>3. Rewritten(raw) = X ++ B ++ H ++ I
  BY DEF Rewritten
<1> HIDE DEF X, B, H, I
<1>4. /\ key \in DOMAIN (X ++ B) <=> key \in DOMAIN B
      /\ key \in DOMAIN B => (X ++ B)[key] = B[key]
  BY <1>2, OverAt
<1>5. /\ key \in DOMAIN (X ++ B ++ H) <=> key \in DOMAIN B
      /\ key \in DOMAIN B => (X ++ B ++ H)[key] = B[key]
  BY <1>2, <1>4, OverAt
<1>6. /\ key \in DOMAIN (X ++ B ++ H ++ I) <=> key \in DOMAIN B
      /\ key \in DOMAIN B => (X ++ B ++ H ++ I)[key] = B[key]
  BY <1>2, <1>5, OverAt
<1> QED BY <1>3, <1>6 DEF B

LEMMA RewrittenIntent ==
    ASSUME NEW raw
    PROVE  LET says == "intentClass" \in DOMAIN raw /\ SaysHft(raw.intentClass) IN
           /\ "intentClass" \in DOMAIN Rewritten(raw) <=> says
           /\ says => Rewritten(raw)["intentClass"] = "HIGH_FREQUENCY_SCALPING"
           /\ "hftLogic" \in DOMAIN Rewritten(raw) => Has(raw, Hft)
<1> DEFINE X == UniverseWritten(raw) ++ RiskWritten(raw) ++ AlgoWritten(raw) ++ EntryWritten(raw) ++ WalletWritten(raw)
                  ++ NormalizeBacktest(raw, SaysHftSomewhere(raw))
           H == HftWritten(raw)
           I == IntentWritten(raw)
           key == "intentClass"
<1>1. DOMAIN X = DOMAIN UniverseWritten(raw) \cup DOMAIN RiskWritten(raw) \cup DOMAIN AlgoWritten(raw)
                   \cup DOMAIN EntryWritten(raw) \cup DOMAIN WalletWritten(raw)
                   \cup DOMAIN NormalizeBacktest(raw, SaysHftSomewhere(raw))
  BY DEF ++
<1>2. key \notin DOMAIN X /\ key \notin DOMAIN H /\ "hftLogic" \notin DOMAIN X /\ "hftLogic" \notin DOMAIN I
  BY <1>1, WrittenKeys
<1>3. Rewritten(raw) = X ++ H ++ I
  BY DEF Rewritten
<1>4. /\ key \in DOMAIN I <=> "intentClass" \in DOMAIN raw /\ SaysHft(raw.intentClass)
      /\ key \in DOMAIN I => I[key] = "HIGH_FREQUENCY_SCALPING"
  <2>1. CASE "intentClass" \in DOMAIN raw /\ SaysHft(raw.intentClass)
    BY <2>1 DEF IntentWritten, When
  <2>2. CASE ~("intentClass" \in DOMAIN raw /\ SaysHft(raw.intentClass))
    BY <2>2, NoKeysIs DEF IntentWritten, When
  <2> QED BY <2>1, <2>2
<1>5. "hftLogic" \in DOMAIN H => Has(raw, Hft)
  <2>1. CASE Has(raw, Hft)
    BY <2>1 DEF HftWritten, When
  <2>2. CASE ~(Has(raw, Hft))
    BY <2>2, NoKeysIs DEF HftWritten, When
  <2> QED BY <2>1, <2>2
<1> HIDE DEF X, H, I
<1>6. key \notin DOMAIN (X ++ H) /\ ("hftLogic" \in DOMAIN (X ++ H) => Has(raw, Hft))
  BY <1>2, <1>5, OverAt
<1>7. /\ key \in DOMAIN (X ++ H ++ I) <=> key \in DOMAIN I
      /\ key \in DOMAIN I => (X ++ H ++ I)[key] = I[key]
      /\ "hftLogic" \in DOMAIN (X ++ H ++ I) => Has(raw, Hft)
  BY <1>2, <1>6, OverAt
<1> QED BY <1>3, <1>4, <1>7

(* What is filled in fits its schema *)

WellMade(schema) ==
    /\ DOMAIN schema.defaults \subseteq DOMAIN schema.of
    /\ \A k \in DOMAIN schema.defaults : schema.defaults[k] \in schema.of[k]

LEMMA FilledFits ==
    ASSUME NEW obj, NEW schema, Fits(obj, schema), WellMade(schema)
    PROVE  /\ Complete(obj ++ schema.defaults, schema)
           /\ \A k \in DOMAIN obj : (obj ++ schema.defaults)[k] = obj[k]
<1> DEFINE D == schema.defaults
<1>1. IsObject(obj ++ D)
  BY DEF ++, IsObject
<1>2. DOMAIN (obj ++ D) = DOMAIN obj \cup DOMAIN D
  BY DEF ++
<1>3. \A k \in DOMAIN (obj ++ D) : (obj ++ D)[k] = IF k \in DOMAIN obj THEN obj[k] ELSE D[k]
  BY DEF ++
<1> QED BY <1>1, <1>2, <1>3 DEF Complete, Fits, WellMade

LEMMA SchemasAreWellMade ==
    /\ \A k \in Blocks : WellMade(BlockSchemas[k])
    /\ \A q \in Parameters : WellMade(ParameterSchemas[q])
<1>1. WellMade(UniverseSchema)
  BY DEF UniverseSchema, WellMade
<1>2. WellMade(WalletSchema)
  BY NoKeysIs DEF WalletSchema, WellMade
<1>3. WellMade(HftSchema)
  <2> DEFINE numbers == DOMAIN HftDefaults \ {"useLimitOrdersOnly"}
  <2>1. HftSchema.defaults = HftDefaults /\ DOMAIN HftSchema.defaults \subseteq DOMAIN HftSchema.of
    BY DEF HftSchema, HftDefaults
  <2>2. ASSUME NEW k \in numbers PROVE HftDefaults[k] \in HftSchema.of[k]
    BY <2>2 DEF HftSchema, HftDefaults
  <2>3. HftDefaults["useLimitOrdersOnly"] = TRUE
    BY DEF HftDefaults
  <2>4. HftSchema.of["useLimitOrdersOnly"] = BOOLEAN
    BY DEF HftSchema
  <2>5. HftDefaults["useLimitOrdersOnly"] \in HftSchema.of["useLimitOrdersOnly"]
    BY <2>3, <2>4
  <2> QED BY <2>1, <2>2, <2>5 DEF WellMade
<1>4. WellMade(RiskSchema)
  <2> DEFINE D == RiskSchema.defaults
             numbers == {"makerFeeBps", "takerFeeBps", "slippageBps", "fractionalKelly"}
             switches == {"liquidateToBaseOnMaxDrawdown", "enableKellyCap"}
  <2>1. DOMAIN D = numbers \cup switches /\ DOMAIN D \subseteq DOMAIN RiskSchema.of
    BY DEF RiskSchema
  <2>2. ASSUME NEW k \in numbers PROVE D[k] \in RiskSchema.of[k]
    BY <2>2 DEF RiskSchema
  <2>3. D["liquidateToBaseOnMaxDrawdown"] = TRUE /\ D["enableKellyCap"] = TRUE
    BY DEF RiskSchema
  <2>4. /\ RiskSchema.of["liquidateToBaseOnMaxDrawdown"] = BOOLEAN
        /\ RiskSchema.of["enableKellyCap"] = BOOLEAN
    BY DEF RiskSchema
  <2> HIDE DEF D
  <2>5. \A k \in switches : D[k] \in RiskSchema.of[k]
    BY <2>3, <2>4
  <2> QED BY <2>1, <2>2, <2>5 DEF D, WellMade
<1>5. WellMade(BacktestSchema)
  BY DEF BacktestSchema, WellMade
<1>6. WellMade(ParameterSchemas.sma)
  BY NoKeysIs DEF ParameterSchemas, WellMade
<1>7. WellMade(ParameterSchemas.rsi)
  BY DEF ParameterSchemas, WellMade
<1>8. WellMade(ParameterSchemas.zScore)
  BY DEF ParameterSchemas, WellMade
<1>9. WellMade(ParameterSchemas.asymmetricTrendMomentum)
  BY SignalAssumption DEF ParameterSchemas, AsymmetricDefaults, WellMade
<1>10. \A k \in Blocks : WellMade(BlockSchemas[k])
  BY <1>1, <1>2, <1>3, <1>4, <1>5, BlocksAre DEF BlockSchemas
<1> QED BY <1>6, <1>7, <1>8, <1>9, <1>10, ParametersAre

\* The signal of the rewritten algorithm is one that is recognised as itself.
LEMMA AlgoSignal ==
    ASSUME NEW algo, "signal" \in DOMAIN NormalizeAlgo(algo), NormalizeAlgo(algo).signal \in Signals
    PROVE  NormalizeSignal(NormalizeAlgo(algo).signal) = NormalizeAlgo(algo).signal
<1> DEFINE spelled == <<"signal", "entryLogic">>
           asymmetric == <<"asymmetricTrendMomentum", "asymmetric_trend_momentum">>
           zs == <<"z_score", "zScore">>
           A == When(Has(algo, spelled), "signal", NormalizeSignal(FirstOf(algo, spelled)))
           B == Only(algo, {"sma", "rsi"})
           C == When(Has(algo, zs), "zScore", FirstOf(algo, zs))
           E == When(Has(algo, asymmetric), "asymmetricTrendMomentum",
                     Renamed(FirstOf(algo, asymmetric), AsymmetricAliases, AsymmetricDefaults))
<1>1. /\ "signal" \in DOMAIN A => A["signal"] = NormalizeSignal(FirstOf(algo, spelled))
      /\ "signal" \notin DOMAIN C /\ "signal" \notin DOMAIN E
  <2> HIDE DEF spelled, asymmetric, zs
  <2> QED BY WhenAt
<1>2. "signal" \notin DOMAIN B
  BY DEF Only
<1>3. NormalizeAlgo(algo) = A ++ B ++ C ++ E
  BY DEF NormalizeAlgo
<1> HIDE DEF A, B, C, E
<1>4. "signal" \in DOMAIN A /\ NormalizeAlgo(algo).signal = A["signal"]
  <2>1. /\ "signal" \in DOMAIN (A ++ B) <=> "signal" \in DOMAIN A
        /\ "signal" \in DOMAIN A => (A ++ B)["signal"] = A["signal"]
    BY <1>2, OverAt
  <2>2. /\ "signal" \in DOMAIN (A ++ B ++ C) <=> "signal" \in DOMAIN A
        /\ "signal" \in DOMAIN A => (A ++ B ++ C)["signal"] = A["signal"]
    BY <1>1, <2>1, OverAt
  <2>3. /\ "signal" \in DOMAIN (A ++ B ++ C ++ E) <=> "signal" \in DOMAIN A
        /\ "signal" \in DOMAIN A => (A ++ B ++ C ++ E)["signal"] = A["signal"]
    BY <1>1, <2>2, OverAt
  <2> QED BY <1>3, <2>3
<1> QED BY <1>1, <1>4, SignalIsKept

LEMMA EntrySignal ==
    ASSUME NEW entry, "signal" \in DOMAIN NormalizeEntry(entry), NormalizeEntry(entry).signal \in Signals
    PROVE  NormalizeSignal(NormalizeEntry(entry).signal) = NormalizeEntry(entry).signal
<1> DEFINE spelled == <<"indicator", "signal">>
           zs == <<"zScore", "z_score">>
           A == When(Has(entry, spelled), "signal", NormalizeSignal(FirstOf(entry, spelled)))
           B == Only(entry, {"sma", "rsi"})
           C == When(Has(entry, zs), "zScore", FirstOf(entry, zs))
<1>1. /\ "signal" \in DOMAIN A => A["signal"] = NormalizeSignal(FirstOf(entry, spelled))
      /\ "signal" \notin DOMAIN C
  <2> HIDE DEF spelled, zs
  <2> QED BY WhenAt
<1>2. "signal" \notin DOMAIN B
  BY DEF Only
<1>3. NormalizeEntry(entry) = A ++ B ++ C
  BY DEF NormalizeEntry
<1> HIDE DEF A, B, C
<1>4. "signal" \in DOMAIN A /\ NormalizeEntry(entry).signal = A["signal"]
  <2>1. /\ "signal" \in DOMAIN (A ++ B) <=> "signal" \in DOMAIN A
        /\ "signal" \in DOMAIN A => (A ++ B)["signal"] = A["signal"]
    BY <1>2, OverAt
  <2>2. /\ "signal" \in DOMAIN (A ++ B ++ C) <=> "signal" \in DOMAIN A
        /\ "signal" \in DOMAIN A => (A ++ B ++ C)["signal"] = A["signal"]
    BY <1>1, <2>1, OverAt
  <2> QED BY <1>3, <2>2
<1> QED BY <1>1, <1>4, SignalIsKept

LEMMA BacktestWritten ==
    ASSUME NEW raw, NEW isHft, isHft
    PROVE  LET B == NormalizeBacktest(raw, isHft) IN
           "backtest" \in DOMAIN B /\ "timeframe" \notin DOMAIN B["backtest"]
<1> DEFINE A == [primaryTicker |-> <<"primaryTicker", "primary_ticker", "ticker">>, benchmark |-> <<"benchmark">>]
           R == Renamed(raw.backtest, A, [benchmark |-> "^GSPC"])
           B == NormalizeBacktest(raw, isHft)
<1>1. CASE Has(raw, <<"backtest">>)
  <2>1. B = [backtest |-> R ++ NoKeys]
    BY <1>1 DEF NormalizeBacktest
  <2>2. "timeframe" \notin DOMAIN R
    BY DEF Renamed
  <2> HIDE DEF R
  <2>3. "timeframe" \notin DOMAIN (R ++ NoKeys)
    BY <2>2, NoKeysIs, OverAt
  <2> DEFINE b == R ++ NoKeys
  <2> HIDE DEF B, b
  <2>4. "backtest" \in DOMAIN B /\ B["backtest"] = b
    BY <2>1 DEF b
  <2> QED BY <2>3, <2>4 DEF b, B
<1>2. CASE ~Has(raw, <<"backtest">>)
  <2>1. \E t : B = When(isHft, "backtest", [primaryTicker |-> t, benchmark |-> "^GSPC"])
    BY <1>2 DEF NormalizeBacktest
  <2>2. PICK t : B = When(isHft, "backtest", [primaryTicker |-> t, benchmark |-> "^GSPC"])
    BY <2>1
  <2> HIDE DEF B
  <2>3. B = [x \in {"backtest"} |-> [primaryTicker |-> t, benchmark |-> "^GSPC"]]
    BY <2>2 DEF When
  <2>4. "backtest" \in DOMAIN B /\ B["backtest"] = [primaryTicker |-> t, benchmark |-> "^GSPC"]
    BY <2>3
  <2> QED BY <2>4 DEF B
<1> QED BY <1>1, <1>2

LEMMA PayloadAt ==
    ASSUME NEW raw, NEW r, r = Unwrapped(raw), NEW p, p = NormalizedPayload(raw), NEW k
    PROVE  /\ k \in DOMAIN p <=> k \notin Dropped /\ (k \in DOMAIN Rewritten(r) \/ k \in DOMAIN r)
           /\ k \in DOMAIN p /\ k \in DOMAIN Rewritten(r) => p[k] = Rewritten(r)[k]
           /\ k \in DOMAIN p /\ k \notin DOMAIN Rewritten(r) => p[k] = r[k]
<1> DEFINE F == Rewritten(r)
<1>1. p = Without(F ++ r, Dropped)
  BY NormalizedIs
<1> HIDE DEF F
<1>2. /\ k \in DOMAIN p <=> k \notin Dropped /\ k \in DOMAIN (F ++ r)
      /\ k \in DOMAIN p => p[k] = (F ++ r)[k]
  BY <1>1 DEF Without
<1> QED BY <1>2, OverAt DEF F

\* The signal of a normalised payload is one that is recognised as itself.
LEMMA PayloadSignal ==
    ASSUME NEW raw, NEW p, p = NormalizedPayload(raw), "algoLogic" \in DOMAIN p, AlgoFits(p.algoLogic)
    PROVE  NormalizeSignal(p.algoLogic.signal) = p.algoLogic.signal
<1> DEFINE r == Unwrapped(raw)
<1>1. "algoLogic" \in DOMAIN Rewritten(r) \/ "algoLogic" \in DOMAIN r
  BY PayloadAt
<1>2. "algoLogic" \in DOMAIN Rewritten(r) => p.algoLogic = Rewritten(r)["algoLogic"]
  BY PayloadAt
<1> HIDE DEF r
<1>3. p.algoLogic = NormalizeAlgo(r.algoLogic) \/ p.algoLogic = NormalizeEntry(r.entryLogic)
  BY <1>1, <1>2, RewrittenAlgo
<1>4. "signal" \in DOMAIN p.algoLogic /\ p.algoLogic.signal \in Signals
  BY DEF AlgoFits
<1> QED BY <1>3, <1>4, AlgoSignal, EntrySignal

\* A scalper says so and has no timeframe.
LEMMA PayloadIntent ==
    ASSUME NEW raw, NEW p, p = NormalizedPayload(raw), "intentClass" \in DOMAIN p, "backtest" \in DOMAIN p
    PROVE  /\ SaysHft(p.intentClass) => p.intentClass = "HIGH_FREQUENCY_SCALPING"
           /\ "hftLogic" \in DOMAIN p \/ SaysHft(p.intentClass) => "timeframe" \notin DOMAIN p.backtest
<1> DEFINE r == Unwrapped(raw)
           says == "intentClass" \in DOMAIN r /\ SaysHft(r.intentClass)
           isHft == SaysHftSomewhere(r)
<1>1. /\ "intentClass" \in DOMAIN Rewritten(r) \/ "intentClass" \in DOMAIN r
      /\ "intentClass" \in DOMAIN Rewritten(r) => p.intentClass = Rewritten(r)["intentClass"]
      /\ "intentClass" \notin DOMAIN Rewritten(r) => p.intentClass = r["intentClass"]
  BY PayloadAt
<1>2. "hftLogic" \in DOMAIN p => "hftLogic" \in DOMAIN Rewritten(r) \/ "hftLogic" \in DOMAIN r
  BY PayloadAt
<1>3. "backtest" \in DOMAIN Rewritten(r) => p.backtest = Rewritten(r)["backtest"]
  BY PayloadAt
<1> HIDE DEF r
<1>4. /\ "intentClass" \in DOMAIN Rewritten(r) <=> says
      /\ says => Rewritten(r)["intentClass"] = "HIGH_FREQUENCY_SCALPING"
      /\ "hftLogic" \in DOMAIN Rewritten(r) => Has(r, Hft)
  BY RewrittenIntent
<1>5. ASSUME SaysHft(p.intentClass) PROVE says /\ p.intentClass = "HIGH_FREQUENCY_SCALPING"
  <2>1. CASE says
    BY <2>1, <1>1, <1>4
  <2>2. CASE ~says
    <3>1. p.intentClass = r.intentClass /\ "intentClass" \in DOMAIN r
      BY <2>2, <1>1, <1>4
    <3> QED BY <3>1, <2>2, <1>5
  <2> QED BY <2>1, <2>2
<1>6. says => isHft
  <2> SUFFICES ASSUME says PROVE isHft
    OBVIOUS
  <2>1. Has(r, Intent) /\ FirstOf(r, Intent) = r.intentClass
    BY FirstIs DEF Intent
  <2> QED BY <2>1 DEF SaysHftSomewhere
<1>7. "hftLogic" \in DOMAIN p => isHft
  <2>1. "hftLogic" \in DOMAIN r => Has(r, Hft)
    BY DEF Has, Hft
  <2> QED BY <2>1, <1>2, <1>4 DEF SaysHftSomewhere
<1>8. ASSUME isHft PROVE "timeframe" \notin DOMAIN p.backtest
  BY <1>3, <1>8, RewrittenBacktest, BacktestWritten
<1> QED BY <1>5, <1>6, <1>7, <1>8

LEMMA ParsedIsNormal ==
    ASSUME NEW raw, NEW d \in Parsed(raw)
    PROVE  Normal(d)
<1> DEFINE p == NormalizedPayload(raw)
<1>1. d = Filled(p) /\ RootFits(p) /\ Refined(d)
  BY DEF Parsed
<1>2. "algoLogic" \in DOMAIN p => NormalizeSignal(p.algoLogic.signal) = p.algoLogic.signal
  BY <1>1, PayloadSignal DEF RootFits
<1>3. /\ SaysHft(p.intentClass) => p.intentClass = "HIGH_FREQUENCY_SCALPING"
      /\ "hftLogic" \in DOMAIN p \/ SaysHft(p.intentClass) => "timeframe" \notin DOMAIN p.backtest
  BY <1>1, PayloadIntent DEF RootFits
<1> HIDE DEF p
<1>4. IsObject(d) /\ DOMAIN d = DOMAIN p
  BY <1>1 DEF Filled, IsObject
<1>5. ASSUME NEW k \in DOMAIN p \cap Blocks
      PROVE  Complete(d[k], BlockSchemas[k]) /\ \A x \in DOMAIN p[k] : d[k][x] = p[k][x]
  <2>0. k # "algoLogic"
    BY <1>5, BlocksAre
  <2>1. d[k] = p[k] ++ BlockSchemas[k].defaults
    BY <2>0, <1>1, <1>5 DEF Filled, Blocks
  <2>2. Fits(p[k], BlockSchemas[k])
    BY <1>1, <1>5 DEF RootFits, Blocks
  <2> QED BY <2>1, <2>2, FilledFits, SchemasAreWellMade
<1>6. ASSUME NEW k \in DOMAIN p, k \notin Blocks, k # "algoLogic" PROVE d[k] = p[k]
  BY <1>1, <1>6 DEF Filled, Blocks
<1>7. ASSUME "algoLogic" \in DOMAIN p
      PROVE  AlgoComplete(d.algoLogic) /\ AlgoFits(d.algoLogic)
  <2> DEFINE algo == p.algoLogic
  <2>1. d.algoLogic = [q \in DOMAIN algo |->
                         IF q = "signal" THEN algo[q] ELSE algo[q] ++ ParameterSchemas[q].defaults]
    BY <1>1, <1>7, BlocksAre DEF Filled, Blocks
  <2>2. AlgoFits(algo) /\ NormalizeSignal(algo.signal) = algo.signal
    BY <1>1, <1>2, <1>7 DEF RootFits
  <2> HIDE DEF algo
  <2>3. /\ IsObject(d.algoLogic) /\ DOMAIN d.algoLogic = DOMAIN algo
        /\ d.algoLogic.signal = algo.signal
    BY <2>1, <2>2 DEF IsObject, AlgoFits
  <2>4. ASSUME NEW q \in DOMAIN algo \ {"signal"} PROVE Complete(d.algoLogic[q], ParameterSchemas[q])
    <3>1. d.algoLogic[q] = algo[q] ++ ParameterSchemas[q].defaults
      BY <2>1, <2>4
    <3>2. Fits(algo[q], ParameterSchemas[q]) /\ q \in Parameters
      BY <2>2, <2>4 DEF AlgoFits, Parameters
    <3> QED BY <3>1, <3>2, FilledFits, SchemasAreWellMade
  <2>5. AlgoComplete(d.algoLogic)
    BY <2>2, <2>3, <2>4 DEF AlgoComplete, AlgoFits, Parameters
  <2> QED BY <2>5 DEF AlgoComplete, AlgoFits, Complete, Parameters
<1>8. d.intentClass = p.intentClass
  BY <1>1, <1>6, BlocksAre DEF RootFits
<1>9. d.universe.assets = p.universe.assets
  <2>1. "universe" \in DOMAIN p \cap Blocks /\ Fits(p.universe, UniverseSchema)
    BY <1>1, BlocksAre DEF RootFits, Blocks, BlockSchemas
  <2>2. "assets" \in DOMAIN p.universe
    BY <2>1 DEF Fits, UniverseSchema
  <2> QED BY <2>1, <2>2, <1>5
<1>10. RootFits(d)
  BY <1>1, <1>4, <1>5, <1>7, <1>8, <1>9 DEF RootFits, Complete, Blocks
<1>11. "hftLogic" \in DOMAIN d \/ SaysHft(d.intentClass) => "timeframe" \notin DOMAIN d.backtest
  <2>1. "backtest" \in DOMAIN p \cap Blocks
    BY <1>1, BlocksAre DEF RootFits
  <2>2. d.backtest = p.backtest ++ BacktestSchema.defaults
    BY <1>1, <2>1 DEF Filled, Blocks, BlockSchemas
  <2>3. "timeframe" \notin DOMAIN BacktestSchema.defaults
    BY DEF BacktestSchema
  <2>4. "timeframe" \in DOMAIN d.backtest => "timeframe" \in DOMAIN p.backtest
    BY <2>2, <2>3, OverAt
  <2> QED BY <2>4, <1>3, <1>4, <1>8
<1> QED BY <1>1, <1>3, <1>4, <1>5, <1>7, <1>8, <1>10, <1>11 DEF Normal, IsHftStrategy

\* Whatever a model wrote, the three passes of a payload (the tool's schema, the
\* tool and its validation) find the same strategy: nothing that the first pass
\* filled in, converted or recognised is changed by the next one.
THEOREM PassesAgreeAlways == \A raw : \A d \in Parsed(raw) : Parsed(d) = {d}
BY ParsedIsNormal, NormalIsParsed

\* Hence what the tool builds is what validating the payload itself would build.
THEOREM OnePassIsEnough == \A raw : BuildQuantitativeStrategy(raw) = Validated(raw)
<1> SUFFICES ASSUME NEW raw PROVE BuildQuantitativeStrategy(raw) = Validated(raw)
  OBVIOUS
<1>1. Parsed(raw) = {} \/ \E d : Parsed(raw) = {d}
  <2>1. \A d \in Parsed(raw) : d = Filled(NormalizedPayload(raw))
    BY DEF Parsed
  <2> QED BY <2>1
<1>2. CASE Parsed(raw) = {}
  <2>1. UNION {Parsed(input) : input \in Parsed(raw)} = {}
    BY <1>2
  <2>2. UNION {Validated(d) : d \in {}} = {}
    OBVIOUS
  <2>3. Validated(raw) = {}
    BY <1>2 DEF Validated
  <2> QED BY <2>1, <2>2, <2>3 DEF BuildQuantitativeStrategy
<1>3. CASE \E d : Parsed(raw) = {d}
  <2>1. PICK d : Parsed(raw) = {d}
    BY <1>3
  <2>2. Parsed(d) = {d}
    BY <2>1, PassesAgreeAlways
  <2>3. UNION {Parsed(input) : input \in Parsed(raw)} = {d}
    BY <2>1, <2>2
  <2>4. Validated(d) = Validated(raw)
    BY <2>1, <2>2 DEF Validated
  <2> QED BY <2>3, <2>4 DEF BuildQuantitativeStrategy
<1> QED BY <1>1, <1>2, <1>3

(* What is armed *)

\* A validated strategy is a parsed one with its caps, its roles and its routing.
Capped(risk, cap) ==
    [risk EXCEPT !.maxDrawdownLimit = Min({@, cap}), !.liquidateToBaseOnMaxDrawdown = TRUE]
KeptFrom(p, d) ==
    /\ DOMAIN d \subseteq DOMAIN p \cup {"marketRoutingMode"}
    /\ \A k \in DOMAIN p \ {"riskManagement", "universe", "marketRoutingMode"} : k \in DOMAIN d /\ d[k] = p[k]
    /\ d.riskManagement = Capped(p.riskManagement, DrawdownCap(p))

LEMMA ValidatedIs ==
    ASSUME NEW raw, NEW d \in Validated(raw)
    PROVE  /\ MeetsRules(d) /\ (IsHftStrategy(d) => d.marketRoutingMode = "SECONDARY_AMM")
           /\ \E p \in Parsed(raw) : Normal(p) /\ KeptFrom(p, d)
<1>1. PICK p \in Parsed(raw) : d = Routed(WithRoles(EnforceRiskCaps(p))) /\ MeetsRules(d)
  BY DEF Validated
<1>2. Normal(p)
  BY ParsedIsNormal
<1> DEFINE e == EnforceRiskCaps(p)
           w == WithRoles(e)
<1>3. IsObject(p) /\ "riskManagement" \in DOMAIN p
  BY <1>2, NormalKeys DEF Normal
<1>4. /\ DOMAIN e = DOMAIN p /\ \A k \in DOMAIN p \ {"riskManagement"} : e[k] = p[k]
      /\ e.riskManagement = Capped(p.riskManagement, DrawdownCap(p))
  BY <1>3 DEF EnforceRiskCaps, Capped
<1> HIDE DEF e
<1>5. DOMAIN w = DOMAIN e /\ \A k \in DOMAIN e \ {"universe"} : w[k] = e[k]
  BY DEF WithRoles
<1> HIDE DEF w
<1>6. /\ DOMAIN w \subseteq DOMAIN d /\ DOMAIN d \subseteq DOMAIN w \cup {"marketRoutingMode"}
      /\ \A k \in DOMAIN w \ {"marketRoutingMode"} : d[k] = w[k]
      /\ IsHftStrategy(d) => d.marketRoutingMode = "SECONDARY_AMM"
  <2>1. d = Routed(w)
    BY <1>1 DEF w, e
  <2>2. CASE IsHftStrategy(w)
    <3> DEFINE m == [marketRoutingMode |-> "SECONDARY_AMM"]
    <3>1. DOMAIN m = {"marketRoutingMode"} /\ m["marketRoutingMode"] = "SECONDARY_AMM"
      OBVIOUS
    <3>2. d = m ++ w
      BY <2>1, <2>2 DEF Routed
    <3> HIDE DEF m
    <3> QED BY <3>1, <3>2, OverAt
  <2>3. CASE ~IsHftStrategy(w)
    BY <2>1, <2>3 DEF Routed
  <2> QED BY <2>2, <2>3
<1>7. KeptFrom(p, d)
  BY <1>3, <1>4, <1>5, <1>6 DEF KeptFrom
<1> QED BY <1>1, <1>2, <1>6, <1>7

LEMMA MinOfTwo ==
    ASSUME NEW a \in Int, NEW b \in Int
    PROVE  Min({a, b}) \in {a, b} /\ Min({a, b}) <= a /\ Min({a, b}) <= b
<1>1. \E x \in {a, b} : \A y \in {a, b} : x <= y
  OBVIOUS
<1>2. Min({a, b}) \in {a, b} /\ \A y \in {a, b} : Min({a, b}) <= y
  BY <1>1 DEF Min
<1> QED BY <1>2

\* The risk of a validated strategy.
LEMMA ArmedRisk ==
    ASSUME NEW p, Normal(p), NEW d, KeptFrom(p, d)
    PROVE  /\ IsObject(d.riskManagement) /\ DOMAIN d.riskManagement = RiskKeys
           /\ d.riskManagement.liquidateToBaseOnMaxDrawdown = TRUE
           /\ d.riskManagement.maxDrawdownLimit \in 2..50
           /\ d.riskManagement.maxDrawdownLimit <= p.riskManagement.maxDrawdownLimit
           /\ d.riskManagement.maxDrawdownLimit <= DrawdownCap(p)
           /\ \A k \in RiskKeys \ {"maxDrawdownLimit", "liquidateToBaseOnMaxDrawdown"} :
                d.riskManagement[k] = p.riskManagement[k]
<1> DEFINE risk == p.riskManagement
           cap == DrawdownCap(p)
           armed == Capped(risk, cap)
<1>1. IsObject(risk) /\ DOMAIN risk = RiskKeys
  BY NormalBlocks
<1>2. {"maxDrawdownLimit", "liquidateToBaseOnMaxDrawdown"} \subseteq RiskKeys
  BY DEF RiskKeys, RiskAliases
<1>3. risk.maxDrawdownLimit \in 2..50
  <2>1. Fits(risk, RiskSchema)
    BY NormalKeys, BlocksAre DEF Normal, Complete, BlockSchemas
  <2>2. risk.maxDrawdownLimit \in RiskSchema.of["maxDrawdownLimit"]
    BY <1>1, <1>2, <2>1 DEF Fits
  <2> QED BY <2>2 DEF RiskSchema
<1>4. cap \in {10, 15, 20}
  BY DEF DrawdownCap
<1>5. d.riskManagement = armed
  BY DEF KeptFrom
<1> HIDE DEF risk, cap
<1>6. /\ IsObject(armed) /\ DOMAIN armed = RiskKeys
      /\ armed.liquidateToBaseOnMaxDrawdown = TRUE
      /\ armed.maxDrawdownLimit = Min({risk.maxDrawdownLimit, cap})
      /\ \A k \in RiskKeys \ {"maxDrawdownLimit", "liquidateToBaseOnMaxDrawdown"} : armed[k] = risk[k]
  BY <1>1, <1>2 DEF Capped, IsObject
<1>7. /\ Min({risk.maxDrawdownLimit, cap}) \in 2..50
      /\ Min({risk.maxDrawdownLimit, cap}) <= risk.maxDrawdownLimit
      /\ Min({risk.maxDrawdownLimit, cap}) <= cap
  <2> DEFINE lim == risk.maxDrawdownLimit
             m == Min({lim, cap})
  <2>1. lim \in Int /\ cap \in Int
    BY <1>3, <1>4
  <2> HIDE DEF lim
  <2>2. m \in {lim, cap} /\ m <= lim /\ m <= cap
    BY <2>1, MinOfTwo
  <2> HIDE DEF m
  <2>3. lim \in 2..50
    BY <1>3 DEF lim
  <2>4. m \in 2..50 /\ m <= lim /\ m <= cap
    BY <2>2, <2>3, <1>4
  <2> QED BY <2>4 DEF m, lim
<1> HIDE DEF armed
<1> QED BY <1>5, <1>6, <1>7 DEF risk, cap

\* The five limits a page shows, each under its name first.
CapAliases ==
    Only(RiskAliases, {"maxDrawdownLimit", "stopLossPercentage", "trailingStop"})
        ++ [makerFeeBps |-> <<"makerFeeBps", "maker_fee_bps">>, takerFeeBps |-> <<"takerFeeBps", "taker_fee_bps">>]
CapKeys == {"maxDrawdownLimit", "stopLossPercentage", "trailingStop", "makerFeeBps", "takerFeeBps"}

LEMMA CapAliasesAre == Canonical(CapAliases) /\ DOMAIN CapAliases = CapKeys
<1> DEFINE A == Only(RiskAliases, {"maxDrawdownLimit", "stopLossPercentage", "trailingStop"})
           B == [makerFeeBps |-> <<"makerFeeBps", "maker_fee_bps">>, takerFeeBps |-> <<"takerFeeBps", "taker_fee_bps">>]
<1>1. DOMAIN A = {"maxDrawdownLimit", "stopLossPercentage", "trailingStop"} /\ Canonical(A)
  <2>1. DOMAIN A = {"maxDrawdownLimit", "stopLossPercentage", "trailingStop"}
    BY DEF Only, RiskAliases
  <2>2. \A k \in DOMAIN A : k \in DOMAIN RiskAliases /\ A[k] = RiskAliases[k]
    BY DEF Only
  <2> QED BY <2>1, <2>2, AliasesAreCanonical DEF Canonical
<1>2. DOMAIN B = {"makerFeeBps", "takerFeeBps"} /\ Canonical(B)
  BY DEF Canonical
<1>3. CapAliases = A ++ B
  BY DEF CapAliases
<1> HIDE DEF A, B
<1>4. DOMAIN CapAliases = DOMAIN A \cup DOMAIN B
  BY <1>3 DEF ++
<1>5. \A k \in DOMAIN CapAliases : (k \in DOMAIN A /\ CapAliases[k] = A[k]) \/ (k \in DOMAIN B /\ CapAliases[k] = B[k])
  BY <1>3 DEF ++
<1>6. Canonical(CapAliases)
  BY <1>1, <1>2, <1>5 DEF Canonical
<1> QED BY <1>1, <1>2, <1>4, <1>6 DEF CapKeys

LEMMA CapsAreRead ==
    ASSUME NEW obj, CapKeys \subseteq DOMAIN obj
    PROVE  RiskCaps(obj) = {Only(obj, CapKeys)}
<1> DEFINE caps == Renamed(obj, CapAliases, [trailingStop |-> FALSE])
<1>1. RiskCaps(obj) = {c \in {caps} : {"maxDrawdownLimit", "stopLossPercentage"} \subseteq DOMAIN c}
  BY DEF RiskCaps, CapAliases
<1>2. caps = Only(obj, CapKeys)
  BY CapAliasesAre, RenamedIs
<1>3. {"maxDrawdownLimit", "stopLossPercentage"} \subseteq DOMAIN Only(obj, CapKeys)
  BY DEF Only, CapKeys
<1> HIDE DEF caps
<1> QED BY <1>1, <1>2, <1>3

\* A scalper's report states no fees.
LEMMA ScalpCapsAreRead ==
    ASSUME NEW caps, IsObject(caps), DOMAIN caps = {"maxDrawdownLimit", "stopLossPercentage", "trailingStop"}
    PROVE  RiskCaps(caps) = {caps}
<1> DEFINE read == Renamed(caps, CapAliases, [trailingStop |-> FALSE])
<1>1. RiskCaps(caps) = {c \in {read} : {"maxDrawdownLimit", "stopLossPercentage"} \subseteq DOMAIN c}
  BY DEF RiskCaps, CapAliases
<1>2. /\ CapAliases["makerFeeBps"] = <<"makerFeeBps", "maker_fee_bps">>
      /\ CapAliases["takerFeeBps"] = <<"takerFeeBps", "taker_fee_bps">>
  BY DEF CapAliases, ++, Only
<1>3. ~Has(caps, CapAliases["makerFeeBps"]) /\ ~Has(caps, CapAliases["takerFeeBps"])
  BY <1>2 DEF Has
<1>4. \A k \in DOMAIN caps : Has(caps, CapAliases[k]) /\ FirstOf(caps, CapAliases[k]) = caps[k]
  <2>1. DOMAIN caps \subseteq DOMAIN CapAliases
    BY CapAliasesAre DEF CapKeys
  <2> QED BY <2>1, CapAliasesAre, FirstIs DEF Canonical
<1>5. read = [k \in DOMAIN caps |-> caps[k]]
  <2> DEFINE K == {k \in DOMAIN CapAliases : Has(caps, CapAliases[k]) \/ k \in {"trailingStop"}}
  <2>1. K = DOMAIN caps
    BY <1>3, <1>4, CapAliasesAre DEF CapKeys
  <2>2. read = [k \in K |-> IF Has(caps, CapAliases[k]) THEN FirstOf(caps, CapAliases[k]) ELSE FALSE]
    BY <1>4, <2>1 DEF Renamed
  <2> HIDE DEF K, read
  <2> QED BY <1>4, <2>1, <2>2
<1> HIDE DEF read
<1> QED BY <1>1, <1>5 DEF IsObject

CostsCovered(r) ==
    LET e == r.config IN
    2 * e.targetProfitBps > 3 * IF e.useLimitOrdersOnly THEN 2 * e.makerFeeBps
                                ELSE e.estimatedSpreadBps + 2 * e.slippageBps + 2 * e.takerFeeBps

\* A scalper that is replayed earns more than half again its round trip, at the
\* costs its engine is given; its strategy names a secondary market whatever the
\* model asked for, and a page reads its limits back as they were saved.
THEOREM ScalpersAlwaysCoverCosts ==
    \A raw, seconds : \A r \in Reports(raw, seconds) :
        r.engine = "hft-engine" =>
            /\ CostsCovered(r)
            /\ r.compiled.marketRoutingMode = "SECONDARY_AMM" /\ r.routing = r.compiled.marketRoutingMode
            /\ RiskCaps(r.caps) = {r.caps}
<1> SUFFICES ASSUME NEW raw, NEW seconds, NEW r \in Reports(raw, seconds), r.engine = "hft-engine"
             PROVE  /\ CostsCovered(r)
                    /\ r.compiled.marketRoutingMode = "SECONDARY_AMM" /\ r.routing = r.compiled.marketRoutingMode
                    /\ RiskCaps(r.caps) = {r.caps}
  OBVIOUS
<1>1. PICK d \in Validated(raw) : r = IF IsHftStrategy(d) THEN HftReport(d, seconds) ELSE DailyReport(d)
  BY OnePassIsEnough DEF Reports
<1>2. IsHftStrategy(d) /\ r = HftReport(d, seconds)
  BY <1>1 DEF DailyReport
<1>3. CoversCosts(d)
  BY <1>2, ValidatedIs DEF MeetsRules, IsHftStrategy
<1>4. PICK p \in Parsed(raw) : Normal(p) /\ KeptFrom(p, d)
  BY ValidatedIs
<1>5. DOMAIN d.hftLogic = DOMAIN HftAliases
  <2>1. "intentClass" \in DOMAIN p /\ d.intentClass = p.intentClass
    BY <1>4, NormalKeys DEF KeptFrom
  <2>2. "hftLogic" \in DOMAIN p
    BY <1>2, <1>4, <2>1 DEF Normal, Refined, IsHftStrategy
  <2> QED BY <1>4, <2>2, NormalBlocks DEF KeptFrom
<1> DEFINE hft == d.hftLogic
           risk == d.riskManagement
           A == Only(hft, {"orderBookImbalanceTrigger", "microStopLossBps", "targetProfitBps",
                           "estimatedSpreadBps", "useLimitOrdersOnly"})
           B == Only(risk, {"slippageBps", "makerFeeBps", "takerFeeBps"})
           c == HftConfig(d, seconds)
<1>6. /\ {"targetProfitBps", "estimatedSpreadBps", "useLimitOrdersOnly"} \subseteq DOMAIN A
      /\ A["targetProfitBps"] = hft["targetProfitBps"] /\ A["estimatedSpreadBps"] = hft["estimatedSpreadBps"]
      /\ A["useLimitOrdersOnly"] = hft["useLimitOrdersOnly"]
      /\ DOMAIN A \cap {"slippageBps", "makerFeeBps", "takerFeeBps"} = {}
  BY <1>5 DEF Only, HftAliases
<1>7. /\ {"slippageBps", "makerFeeBps", "takerFeeBps"} \subseteq DOMAIN B
      /\ \A k \in {"slippageBps", "makerFeeBps", "takerFeeBps"} : B[k] = risk[k]
  BY <1>4, ArmedRisk DEF Only, RiskKeys, RiskAliases
<1>8. \E C : c = A ++ B ++ C
  BY DEF HftConfig
<1> HIDE DEF A, B, c
<1>9. /\ \A k \in DOMAIN A : c[k] = A[k]
      /\ \A k \in DOMAIN B \ DOMAIN A : c[k] = B[k]
  <2>1. PICK C : c = A ++ B ++ C
    BY <1>8
  <2> DEFINE F == A ++ B
  <2>2. \A k \in DOMAIN F : c[k] = F[k]
    BY <2>1 DEF ++
  <2>3. /\ \A k \in DOMAIN A : k \in DOMAIN F /\ F[k] = A[k]
        /\ \A k \in DOMAIN B \ DOMAIN A : k \in DOMAIN F /\ F[k] = B[k]
    BY OverAt
  <2> HIDE DEF F
  <2> QED BY <2>2, <2>3
<1>10. /\ c.targetProfitBps = hft.targetProfitBps /\ c.estimatedSpreadBps = hft.estimatedSpreadBps
       /\ c.useLimitOrdersOnly = hft.useLimitOrdersOnly
       /\ c.slippageBps = risk.slippageBps /\ c.makerFeeBps = risk.makerFeeBps /\ c.takerFeeBps = risk.takerFeeBps
  BY <1>6, <1>7, <1>9
<1>11. r.config = c /\ r.compiled = d /\ r.routing = "SECONDARY_AMM"
  BY <1>2 DEF HftReport, c
<1>12. d.marketRoutingMode = "SECONDARY_AMM"
  BY <1>2, ValidatedIs
<1>13. IsObject(r.caps) /\ DOMAIN r.caps = {"maxDrawdownLimit", "stopLossPercentage", "trailingStop"}
  BY <1>2 DEF HftReport, IsObject
<1> QED BY <1>3, <1>10, <1>11, <1>12, <1>13, ScalpCapsAreRead DEF CoversCosts, CostsCovered

\* What the two compilations give the daily engine, and what they keep beside it.
LEMMA CompiledRisk ==
    ASSUME NEW d, NEW risk, risk = d.riskManagement
    PROVE  /\ CompiledConfig(d).lim = risk.maxDrawdownLimit
           /\ CompiledConfig(d).stop = risk.stopLossPercentage
           /\ CompiledConfig(d).liquidate = risk.liquidateToBaseOnMaxDrawdown
<1> DEFINE runs(kind, freq) ==
             [kind |-> kind, freq |-> freq, kelly |-> risk.enableKellyCap, lim |-> risk.maxDrawdownLimit,
              stop |-> risk.stopLossPercentage, liquidate |-> risk.liquidateToBaseOnMaxDrawdown]
<1>1. \E kind, freq : CompiledConfig(d) = runs(kind, freq)
  BY DEF CompiledConfig
<1> QED BY <1>1

LEMMA LegacyRisk ==
    ASSUME NEW d, NEW risk, risk = d.riskManagement
    PROVE  LET kept == LegacyConfig(LegacySpec(d)) IN
           /\ kept.lim = risk.maxDrawdownLimit /\ kept.stop = risk.stopLossPercentage
           /\ kept.liquidate = risk.liquidateToBaseOnMaxDrawdown
<1> DEFINE spec == LegacySpec(d)
           A == [lim |-> <<"maxDrawdownFrac">>, stop |-> <<"stopLossFrac">>, liquidate |-> <<"circuitBreakerToStable">>]
           R == Renamed(spec, A, [lim |-> 15, stop |-> 10, liquidate |-> TRUE])
<1>1. \E kind \in {"drawdown_to_stable", "rsi", "z_score", "sma_crossover"} :
         spec = [kind |-> kind, maxDrawdownFrac |-> risk.maxDrawdownLimit, stopLossFrac |-> risk.stopLossPercentage,
                 circuitBreakerToStable |-> risk.liquidateToBaseOnMaxDrawdown]
  BY DEF LegacySpec
<1>2. PICK kind \in {"drawdown_to_stable", "rsi", "z_score", "sma_crossover"} :
         spec = [kind |-> kind, maxDrawdownFrac |-> risk.maxDrawdownLimit, stopLossFrac |-> risk.stopLossPercentage,
                 circuitBreakerToStable |-> risk.liquidateToBaseOnMaxDrawdown]
  BY <1>1
<1> HIDE DEF spec
<1>3. spec.kind # "buy_and_hold"
  BY <1>2
<1>4. \E k : LegacyConfig(spec) = [kind |-> k, freq |-> "DAILY_SIGNAL", kelly |-> FALSE] ++ R
  BY <1>2, <1>3 DEF LegacyConfig
<1>5. /\ Has(spec, A["lim"]) /\ FirstOf(spec, A["lim"]) = risk.maxDrawdownLimit
      /\ Has(spec, A["stop"]) /\ FirstOf(spec, A["stop"]) = risk.stopLossPercentage
      /\ Has(spec, A["liquidate"]) /\ FirstOf(spec, A["liquidate"]) = risk.liquidateToBaseOnMaxDrawdown
  <2>1. {"maxDrawdownFrac", "stopLossFrac", "circuitBreakerToStable"} \subseteq DOMAIN spec
    BY <1>2
  <2>2. /\ Has(spec, <<"maxDrawdownFrac">>) /\ FirstOf(spec, <<"maxDrawdownFrac">>) = spec.maxDrawdownFrac
        /\ Has(spec, <<"stopLossFrac">>) /\ FirstOf(spec, <<"stopLossFrac">>) = spec.stopLossFrac
        /\ Has(spec, <<"circuitBreakerToStable">>)
        /\ FirstOf(spec, <<"circuitBreakerToStable">>) = spec.circuitBreakerToStable
    BY <2>1, FirstIs
  <2> QED BY <1>2, <2>2
<1>6. /\ {"lim", "stop", "liquidate"} \subseteq DOMAIN R
      /\ R["lim"] = risk.maxDrawdownLimit /\ R["stop"] = risk.stopLossPercentage
      /\ R["liquidate"] = risk.liquidateToBaseOnMaxDrawdown
  BY <1>5 DEF Renamed
<1> HIDE DEF R
<1>7. PICK k : LegacyConfig(spec) = [kind |-> k, freq |-> "DAILY_SIGNAL", kelly |-> FALSE] ++ R
  BY <1>4
<1> DEFINE F == [kind |-> k, freq |-> "DAILY_SIGNAL", kelly |-> FALSE]
<1>8. DOMAIN F = {"kind", "freq", "kelly"}
  OBVIOUS
<1> HIDE DEF F
<1>9. \A x \in {"lim", "stop", "liquidate"} : (F ++ R)[x] = R[x]
  BY <1>6, <1>8, OverAt
<1>10. LegacyConfig(spec) = F ++ R
  BY <1>7 DEF F
<1> QED BY <1>6, <1>9, <1>10 DEF spec

ArmedFor(r, plan) ==
    LET kept == LegacyConfig(r.legacy) IN
    /\ r.config.liquidate = TRUE
    /\ r.config.lim \in 2..50 /\ r.config.lim <= DrawdownCap(plan)
    /\ r.config.lim <= plan.riskManagement.maxDrawdownLimit
    /\ r.config.stop = plan.riskManagement.stopLossPercentage
    /\ kept.lim = r.config.lim /\ kept.stop = r.config.stop /\ kept.liquidate = r.config.liquidate
    /\ r.caps.maxDrawdownLimit = r.config.lim /\ r.caps.stopLossPercentage = r.config.stop
    /\ RiskCaps(r.caps) = {r.caps} /\ RiskCaps(r.compiled.riskManagement) = {r.caps}

\* What is reported of a daily strategy was armed: liquidation on, the drawdown
\* limit no higher than what the model asked for and than the fiduciary cap, the
\* stop as asked, in the engine's configuration as in the specification kept
\* beside it, and as a page reads them back from the report or its strategy.
THEOREM ReportsAreAlwaysArmed ==
    \A raw, seconds : \A r \in Reports(raw, seconds) :
        r.engine = "event-driven-engine" => \E plan \in Parsed(raw) : ArmedFor(r, plan)
<1> SUFFICES ASSUME NEW raw, NEW seconds, NEW r \in Reports(raw, seconds), r.engine = "event-driven-engine"
             PROVE  \E plan \in Parsed(raw) : ArmedFor(r, plan)
  OBVIOUS
<1>1. PICK d \in Validated(raw) : r = IF IsHftStrategy(d) THEN HftReport(d, seconds) ELSE DailyReport(d)
  BY OnePassIsEnough DEF Reports
<1>2. r = DailyReport(d)
  BY <1>1 DEF HftReport
<1>3. PICK p \in Parsed(raw) : Normal(p) /\ KeptFrom(p, d)
  BY ValidatedIs
<1> DEFINE risk == d.riskManagement
<1>4. r.compiled = d /\ r.config = CompiledConfig(d) /\ r.legacy = LegacySpec(d) /\ r.caps = Only(risk, CapKeys)
  BY <1>2 DEF DailyReport, ReportedRiskCaps, CapKeys
<1>5. /\ DOMAIN risk = RiskKeys /\ risk.liquidateToBaseOnMaxDrawdown = TRUE
      /\ risk.maxDrawdownLimit \in 2..50 /\ risk.maxDrawdownLimit <= DrawdownCap(p)
      /\ risk.maxDrawdownLimit <= p.riskManagement.maxDrawdownLimit
      /\ risk.stopLossPercentage = p.riskManagement.stopLossPercentage
  <2>1. "stopLossPercentage" \in RiskKeys
    BY DEF RiskKeys, RiskAliases
  <2>2. /\ DOMAIN risk = RiskKeys /\ risk.liquidateToBaseOnMaxDrawdown = TRUE
        /\ risk.maxDrawdownLimit \in 2..50 /\ risk.maxDrawdownLimit <= DrawdownCap(p)
        /\ risk.maxDrawdownLimit <= p.riskManagement.maxDrawdownLimit
    BY <1>3, ArmedRisk
  <2>3. \A k \in RiskKeys \ {"maxDrawdownLimit", "liquidateToBaseOnMaxDrawdown"} : risk[k] = p.riskManagement[k]
    BY <1>3, ArmedRisk
  <2> QED BY <2>1, <2>2, <2>3
<1> HIDE DEF risk
<1>6. CapKeys \subseteq DOMAIN risk
  BY <1>5 DEF CapKeys, RiskKeys, RiskAliases
<1>7. RiskCaps(risk) = {Only(risk, CapKeys)}
  BY <1>6, CapsAreRead
<1>8. RiskCaps(Only(risk, CapKeys)) = {Only(risk, CapKeys)}
  <2> DEFINE caps == Only(risk, CapKeys)
  <2>1. DOMAIN caps = CapKeys /\ IsObject(caps)
    BY <1>6 DEF Only, IsObject
  <2> HIDE DEF caps
  <2>2. RiskCaps(caps) = {Only(caps, CapKeys)}
    BY <2>1, CapsAreRead
  <2>3. Only(caps, CapKeys) = caps
    BY <2>1 DEF Only, IsObject
  <2> QED BY <2>2, <2>3 DEF caps
<1>9. /\ Only(risk, CapKeys).maxDrawdownLimit = risk.maxDrawdownLimit
      /\ Only(risk, CapKeys).stopLossPercentage = risk.stopLossPercentage
  BY <1>6 DEF Only, CapKeys
<1>10. /\ r.config.lim = risk.maxDrawdownLimit /\ r.config.stop = risk.stopLossPercentage
       /\ r.config.liquidate = risk.liquidateToBaseOnMaxDrawdown
  BY <1>4, CompiledRisk DEF risk
<1>11. LET kept == LegacyConfig(r.legacy) IN
       /\ kept.lim = risk.maxDrawdownLimit /\ kept.stop = risk.stopLossPercentage
       /\ kept.liquidate = risk.liquidateToBaseOnMaxDrawdown
  BY <1>4, LegacyRisk DEF risk
<1>12. r.compiled.riskManagement = risk
  BY <1>4 DEF risk
<1> QED BY <1>4, <1>5, <1>7, <1>8, <1>9, <1>10, <1>11, <1>12 DEF ArmedFor

\* What the compiler gives the daily engine is a configuration that engine runs:
\* its theorems assume a kind it knows, and its calendar a schedule it knows.
THEOREM CompiledConfigsRun ==
    \A raw, seconds : \A r \in Reports(raw, seconds) :
        r.engine = "event-driven-engine" =>
            /\ r.config.kind \in Kinds \ {"buy_and_hold"}
            /\ r.config.freq \in {"MONTHLY", "QUARTERLY", "NONE", "DAILY_SIGNAL"}
            /\ r.config.stop \in 1..35 /\ r.config.kelly \in BOOLEAN
<1> SUFFICES ASSUME NEW raw, NEW seconds, NEW r \in Reports(raw, seconds), r.engine = "event-driven-engine"
             PROVE  /\ r.config.kind \in Kinds \ {"buy_and_hold"}
                    /\ r.config.freq \in {"MONTHLY", "QUARTERLY", "NONE", "DAILY_SIGNAL"}
                    /\ r.config.stop \in 1..35 /\ r.config.kelly \in BOOLEAN
  OBVIOUS
<1>1. PICK d \in Validated(raw) : r = IF IsHftStrategy(d) THEN HftReport(d, seconds) ELSE DailyReport(d)
  BY OnePassIsEnough DEF Reports
<1>2. r = DailyReport(d)
  BY <1>1 DEF HftReport
<1>3. PICK p \in Parsed(raw) : Normal(p) /\ KeptFrom(p, d)
  BY ValidatedIs
<1> DEFINE risk == d.riskManagement
           wallet == d.walletLogic
           runs(kind, freq) ==
             [kind |-> kind, freq |-> freq, kelly |-> risk.enableKellyCap, lim |-> risk.maxDrawdownLimit,
              stop |-> risk.stopLossPercentage, liquidate |-> risk.liquidateToBaseOnMaxDrawdown]
<1>4. risk.stopLossPercentage \in 1..35 /\ risk.enableKellyCap \in BOOLEAN
  <2> DEFINE asks == p.riskManagement
  <2>1. Fits(asks, RiskSchema) /\ DOMAIN asks = RiskKeys
    BY <1>3, NormalKeys, NormalBlocks, BlocksAre DEF Normal, Complete, BlockSchemas
  <2>2. {"stopLossPercentage", "enableKellyCap"} \subseteq RiskKeys
    BY DEF RiskKeys, RiskAliases
  <2>3. /\ risk["stopLossPercentage"] = asks["stopLossPercentage"]
        /\ risk["enableKellyCap"] = asks["enableKellyCap"]
    <3>1. \A k \in RiskKeys \ {"maxDrawdownLimit", "liquidateToBaseOnMaxDrawdown"} : risk[k] = asks[k]
      BY <1>3, ArmedRisk
    <3> HIDE DEF risk, asks
    <3> QED BY <2>2, <3>1
  <2> HIDE DEF asks, risk
  <2>4. /\ asks["stopLossPercentage"] \in RiskSchema.of["stopLossPercentage"]
        /\ asks["enableKellyCap"] \in RiskSchema.of["enableKellyCap"]
    BY <2>1, <2>2 DEF Fits
  <2>5. RiskSchema.of["stopLossPercentage"] = 1..35 /\ RiskSchema.of["enableKellyCap"] = BOOLEAN
    BY DEF RiskSchema
  <2> QED BY <2>3, <2>4, <2>5
<1>5. ASSUME d.intentClass = "WALLET_MANAGEMENT"
      PROVE  wallet.rebalanceFrequency \in {"MONTHLY", "QUARTERLY", "NONE"}
  <2>1. "walletLogic" \in DOMAIN d
    <3>1. MeetsRules(d)
      BY ValidatedIs
    <3> QED BY <1>5, <3>1 DEF MeetsRules, IsHftStrategy
  <2>2. "walletLogic" \in DOMAIN p /\ wallet = p.walletLogic
    BY <1>3, <2>1 DEF KeptFrom
  <2>3. Fits(wallet, WalletSchema)
    BY <1>3, <2>2, BlocksAre DEF Normal, Complete, BlockSchemas
  <2> HIDE DEF wallet
  <2>4. wallet.rebalanceFrequency \in WalletSchema.of["rebalanceFrequency"]
    BY <2>3 DEF Fits, WalletSchema
  <2> QED BY <2>4 DEF WalletSchema
<1>6. \E kind \in Kinds \ {"buy_and_hold"}, freq \in {"MONTHLY", "QUARTERLY", "NONE", "DAILY_SIGNAL"} :
        CompiledConfig(d) = runs(kind, freq)
  <2>1. CASE d.intentClass = "WALLET_MANAGEMENT"
    <3>1. CompiledConfig(d) = runs("macro_allocation", wallet.rebalanceFrequency)
      BY <2>1 DEF CompiledConfig
    <3> HIDE DEF runs, wallet
    <3> QED BY <2>1, <3>1, <1>5 DEF Kinds
  <2>2. CASE d.intentClass # "WALLET_MANAGEMENT"
    <3>1. \/ CompiledConfig(d) = runs("macro_allocation", "MONTHLY")
          \/ CompiledConfig(d) = runs("dual_momentum", "MONTHLY")
          \/ CompiledConfig(d) = runs("asymmetric_trend_momentum", "MONTHLY")
          \/ CompiledConfig(d) = runs("rsi", "DAILY_SIGNAL")
          \/ CompiledConfig(d) = runs("z_score", "DAILY_SIGNAL")
          \/ CompiledConfig(d) = runs("sma_crossover", "DAILY_SIGNAL")
      BY <2>2 DEF CompiledConfig
    <3> HIDE DEF runs
    <3> QED BY <3>1 DEF Kinds
  <2> QED BY <2>1, <2>2
<1>7. r.config = CompiledConfig(d)
  BY <1>2 DEF DailyReport
<1>8. PICK kind \in Kinds \ {"buy_and_hold"}, freq \in {"MONTHLY", "QUARTERLY", "NONE", "DAILY_SIGNAL"} :
        r.config = runs(kind, freq)
  BY <1>6, <1>7
<1>9. /\ r.config.kind = kind /\ r.config.freq = freq
      /\ r.config.stop = risk.stopLossPercentage /\ r.config.kelly = risk.enableKellyCap
  BY <1>8
<1> QED BY <1>4, <1>8, <1>9

--------------------------------------------------------------------------------
(* The assistant, turn by turn *)

USE AssistantAssumption

--------------------------------------------------------------------------------
(* The operators of the model *)

\* The question asked is never one the user has settled, and there is none left
\* only when every requirement is there and the user approved.
LEMMA QuestionIsOpen ==
    ASSUME NEW f \in SUBSET Facts
    PROVE  /\ NextQuestion(f) \in DOMAIN Options \cup {"none"}
           /\ NextQuestion(f) \notin f
           /\ NextQuestion(f) = "none" => Missing(f) = {} /\ "approval" \in f
<1>d. DOMAIN Options = {"instrument", "universe", "edge", "timeframe", "risk", "window", "approval"}
  BY DEF Options
<1>r. /\ Len(Requirements) = 5
      /\ \A i \in 1..5 : Requirements[i] \in {"instrument", "universe", "edge", "timeframe", "risk"}
  BY DEF Requirements
<1>1. CASE Missing(f) = {}
  BY <1>1, <1>d DEF NextQuestion, Facts
<1>2. CASE Missing(f) # {}
  <2>1. \E i \in Missing(f) : \A j \in Missing(f) : i <= j
    <3>1. Missing(f) \subseteq 1..5
      BY <1>r DEF Missing
    <3>2. PICK i \in 1..5 : i \in Missing(f) /\ \A j \in 1..5 : j \in Missing(f) => i <= j
      <4>1. CASE 1 \in Missing(f)
        BY <4>1
      <4>2. CASE 1 \notin Missing(f) /\ 2 \in Missing(f)
        BY <4>2
      <4>3. CASE 1 \notin Missing(f) /\ 2 \notin Missing(f) /\ 3 \in Missing(f)
        BY <4>3
      <4>4. CASE 1 \notin Missing(f) /\ 2 \notin Missing(f) /\ 3 \notin Missing(f)
                   /\ 4 \in Missing(f)
        BY <4>4
      <4>5. CASE 1 \notin Missing(f) /\ 2 \notin Missing(f) /\ 3 \notin Missing(f)
                   /\ 4 \notin Missing(f)
        BY <1>2, <3>1, <4>5
      <4> QED BY <4>1, <4>2, <4>3, <4>4, <4>5
    <3> QED BY <3>1, <3>2
  <2> DEFINE first == CHOOSE i \in Missing(f) : \A j \in Missing(f) : i <= j
  <2>2. first \in Missing(f)
    BY <2>1
  <2>3. NextQuestion(f) = Requirements[first]
    BY <1>2 DEF NextQuestion
  <2> HIDE DEF first
  <2>4. first \in 1..5 /\ Requirements[first] \notin f
    BY <2>2, <1>r DEF Missing
  <2> QED BY <2>3, <2>4, <1>r, <1>d
<1> QED BY <1>1, <1>2

\* The option recommended for a question states what the question asks for.
LEMMA RecommendedStates ==
    ASSUME NEW q \in DOMAIN Options
    PROVE  /\ q \in Options[q][1]
           /\ \A i \in 1..Len(Options[q]) : Options[q][i] \subseteq Facts
<1>d. q \in {"instrument", "universe", "edge", "timeframe", "risk", "window", "approval"}
  BY DEF Options
<1>1. CASE q = "instrument"
  BY <1>1 DEF Options, Facts
<1>2. CASE q = "universe"
  BY <1>2 DEF Options, Facts
<1>3. CASE q = "edge"
  BY <1>3 DEF Options, Facts
<1>4. CASE q = "timeframe"
  BY <1>4 DEF Options, Facts
<1>5. CASE q = "risk"
  BY <1>5 DEF Options, Facts
<1>6. CASE q = "window"
  BY <1>6 DEF Options, Facts
<1>7. CASE q = "approval"
  BY <1>7 DEF Options, Facts
<1> QED BY <1>d, <1>1, <1>2, <1>3, <1>4, <1>5, <1>6, <1>7

\* What generation, its repairs and the dry runs let through.
LEMMA CheckedIsGood ==
    ASSUME NEW s, NEW c \in Checked(s)
    PROVE  c = "good"
BY DEF Checked, DryRun

Periods == {"1m", "3m", "6m", "1y", "2y", "5y"}

LEMMA NormalizedShape ==
    ASSUME NEW s \in SpecShape
    PROVE  Normalized(s) \in SpecShape /\ Normalized(s).period \in Periods
<1>1. CASE s.period # "none"
  BY <1>1 DEF Normalized, SpecShape, Periods
<1>2. CASE s.period = "none" /\ s.bar = "1m"
  BY <1>2 DEF Normalized, SpecShape, Periods
<1>3. CASE s.period = "none" /\ s.bar = "1h"
  BY <1>3 DEF Normalized, SpecShape, Periods
<1>4. CASE s.period = "none" /\ s.bar = "1d"
  BY <1>4 DEF Normalized, SpecShape, Periods
<1> QED BY <1>1, <1>2, <1>3, <1>4 DEF SpecShape

LEMMA CoercedShape ==
    ASSUME NEW s \in SpecShape
    PROVE  Coerced(s) \in SpecShape /\ Coerced(s).period = s.period
<1> DEFINE python == [s EXCEPT !.kind = "python"]
<1>1. python \in SpecShape /\ python.period = s.period
  BY DEF SpecShape
<1>2. Coerced(s) = [python EXCEPT !.code = "none"]
  BY DEF Coerced, SpecShape
<1> HIDE DEF python
<1> QED BY <1>1, <1>2 DEF SpecShape

\* The history of a run is never longer than its bar allows.
LEMMA PeriodCapped ==
    ASSUME NEW s \in SpecShape, s.period \in Periods
    PROVE  Rank[PeriodOf(s)] <= Rank[MaxPeriod(s.bar)]
<1>1. \A p \in Periods : Rank[p] \in 0..5
  BY DEF Rank, Periods
<1>2. MaxPeriod(s.bar) \in Periods
  BY DEF SpecShape, MaxPeriod, Periods
<1>3. Rank[s.period] \in Int /\ Rank[MaxPeriod(s.bar)] \in Int
  BY <1>1, <1>2
<1>4. CASE Rank[s.period] > Rank[MaxPeriod(s.bar)]
  BY <1>3, <1>4 DEF PeriodOf
<1>5. CASE ~ (Rank[s.period] > Rank[MaxPeriod(s.bar)])
  <2>1. PeriodOf(s) = s.period
    BY <1>5 DEF PeriodOf
  <2> QED BY <1>3, <1>5, <2>1
<1> QED BY <1>4, <1>5
--------------------------------------------------------------------------------
(* Type correctness *)

Events == {"assistant", "clarification", "done", "error", "reasoning", "spec", "capability",
           "unsupported_strategy", "validation", "code", "run_status", "run"}

Server == [at : {"closed", "planning", "streaming", "judging", "compiling", "loading", "creating"},
           answer : Seq(SUBSET {"sep", "open", "shut"}), from : {"none", "stream", "second call"},
           spec : SpecShape, code : Drafts \cup {"none"}, text : {"typed", "form", "none"}]

\* What each point of the turn knows of the specification and the program.
ServerKnows ==
    /\ srv.at \in {"judging", "compiling", "loading", "creating"} => srv.spec.period \in Periods
    /\ srv.at \in {"compiling", "loading", "creating"} => Supported(srv.spec)
    /\ srv.at \in {"loading", "creating"} => srv.code = "good"

AssistantTypeInv ==
    /\ said \subseteq Facts /\ turns \in 0..MaxTurns /\ blank \in BOOLEAN
    /\ asked \in DOMAIN Options \cup {"none"} /\ taken \subseteq DOMAIN Options
    /\ srv \in Server /\ ServerKnows /\ wire \in Seq(Events)
    /\ shown \subseteq {"spec", "code", "run"} /\ \A r \in created : r.code \in Drafts

LEMMA ShortSequences ==
    ASSUME NEW S, NEW a \in S, NEW b \in S, NEW c \in S
    PROVE  <<a>> \in Seq(S) /\ <<a, b>> \in Seq(S) /\ <<a, b, c>> \in Seq(S)
OBVIOUS

LEMMA EmptyAnswer == <<>> \in Seq(SUBSET {"sep", "open", "shut"})
OBVIOUS

LEMMA RestingServer == Resting \in Server
<1>1. NoSpec \in SpecShape
  BY DEF NoSpec, SpecShape
<1> QED BY <1>1, EmptyAnswer DEF Resting, Server

LEMMA AssistantTypeInit == AssistantInit => AssistantTypeInv
<1>1. Resting.at = "closed"
  BY DEF Resting
<1>2. <<>> \in Seq(Events)
  OBVIOUS
<1>3. 0 \in 0..MaxTurns
  OBVIOUS
<1> QED BY <1>1, <1>2, <1>3, RestingServer DEF AssistantInit, AssistantTypeInv, ServerKnows

\* What sending does to the wire.
LEMMA SendAppends ==
    ASSUME wire \in Seq(Events), NEW evs \in Seq(Events), Send(evs)
    PROVE  /\ wire' \in Seq(Events)
           /\ \A i \in DOMAIN wire' : \/ \E j \in DOMAIN wire : wire'[i] = wire[j]
                                      \/ \E j \in DOMAIN evs : wire'[i] = evs[j]
<1>1. wire' = wire \o evs /\ wire' \in Seq(Events)
  BY DEF Send
<1>2. /\ Len(wire') = Len(wire) + Len(evs)
      /\ \A i \in 1..Len(wire') : wire'[i] = IF i <= Len(wire) THEN wire[i]
                                             ELSE evs[i - Len(wire)]
  BY <1>1
<1>3. ASSUME NEW i \in 1..Len(wire')
      PROVE  \/ \E j \in 1..Len(wire) : wire'[i] = wire[j]
             \/ \E j \in 1..Len(evs) : wire'[i] = evs[j]
  <2>1. CASE i <= Len(wire)
    BY <1>2, <2>1
  <2>2. CASE ~ (i <= Len(wire))
    <3>1. i - Len(wire) \in 1..Len(evs)
      BY <1>2, <2>2
    <3> QED BY <1>2, <2>2, <3>1
  <2> QED BY <2>1, <2>2
<1>4. /\ DOMAIN wire = 1..Len(wire) /\ DOMAIN evs = 1..Len(evs)
      /\ DOMAIN wire' = 1..Len(wire')
  BY <1>1
<1> QED BY <1>1, <1>3, <1>4

\* Every turn starts from a request.
LEMMA PostTypes ==
    ASSUME AssistantTypeInv, NEW text \in {"typed", "form", "none"}, Post(text),
           said' \subseteq Facts, taken' \subseteq DOMAIN Options, blank' \in BOOLEAN
    PROVE  AssistantTypeInv'
<1>1. srv' \in Server /\ srv'.at = "planning"
  <2>1. srv' = [Resting EXCEPT !.at = "planning", !.text = text]
    BY DEF Post
  <2> QED BY <2>1, RestingServer DEF Server
<1>2. turns' \in 0..MaxTurns
  BY DEF Post, AssistantTypeInv
<1> QED BY <1>1, <1>2 DEF Post, AssistantTypeInv, ServerKnows

LEMMA UserTypes ==
    ASSUME AssistantTypeInv,
           (\E f \in Openings : Say(f)) \/ (\E i \in 1..4 : PickOption(i)) \/ SubmitForm \/ PostNothing
    PROVE  AssistantTypeInv'
<1>1. ASSUME NEW f \in Openings, Say(f) PROVE AssistantTypeInv'
  BY <1>1, PostTypes DEF Say, AssistantTypeInv
<1>2. ASSUME NEW i \in 1..4, PickOption(i) PROVE AssistantTypeInv'
  <2>1. asked \in DOMAIN Options /\ i \in 1..Len(Options[asked])
    BY <1>2 DEF PickOption, AssistantTypeInv
  <2>2. said' \subseteq Facts
    BY <1>2, <2>1, RecommendedStates DEF PickOption, AssistantTypeInv
  <2>3. taken' \subseteq DOMAIN Options /\ blank' \in BOOLEAN
    BY <1>2, <2>1 DEF PickOption, AssistantTypeInv
  <2> QED BY <1>2, <2>2, <2>3, PostTypes DEF PickOption
<1>3. CASE SubmitForm
  BY <1>3, PostTypes DEF SubmitForm, AssistantTypeInv
<1>4. CASE PostNothing
  BY <1>4, PostTypes DEF PostNothing, AssistantTypeInv
<1> QED BY <1>1, <1>2, <1>3, <1>4

\* A turn that ends, with the events it ends on.
LEMMA CloseTypes ==
    ASSUME AssistantTypeInv, NEW evs \in Seq(Events), Close(evs)
    PROVE  srv' \in Server /\ ServerKnows' /\ wire' \in Seq(Events)
<1>1. Resting.at = "closed"
  BY DEF Resting
<1> QED BY <1>1, RestingServer, SendAppends DEF Close, AssistantTypeInv, ServerKnows

LEMMA PlanningTypes ==
    ASSUME AssistantTypeInv, PlanAnswer \/ Clarify \/ Proceed
    PROVE  AssistantTypeInv'
<1>1. CASE PlanAnswer
  <2>1. <<"assistant", "done">> \in Seq(Events)
        /\ <<"assistant", "clarification", "done">> \in Seq(Events)
    BY ShortSequences DEF Events
  <2> QED BY <1>1, <2>1, CloseTypes DEF PlanAnswer, AssistantTypeInv
<1>2. CASE Clarify
  <2>1. <<"assistant", "clarification", "done">> \in Seq(Events)
    BY ShortSequences DEF Events
  <2> QED BY <1>2, <2>1, CloseTypes, QuestionIsOpen DEF Clarify, AssistantTypeInv
<1>3. CASE Proceed
  <2>1. <<"assistant">> \in Seq(Events)
    BY ShortSequences DEF Events
  <2>2. wire' \in Seq(Events)
    BY <1>3, <2>1, SendAppends DEF Proceed, AssistantTypeInv
  <2>3. srv' \in Server /\ srv'.at = "streaming"
    BY <1>3 DEF Proceed, AssistantTypeInv, Server
  <2> QED BY <1>3, <2>2, <2>3 DEF Proceed, AssistantTypeInv, ServerKnows
<1> QED BY <1>1, <1>2, <1>3

LEMMA SpecifiedTypes ==
    ASSUME AssistantTypeInv, NEW s \in Specs, NEW from \in {"stream", "second call"},
           Specified(s, from)
    PROVE  /\ srv' \in Server /\ ServerKnows' /\ wire' \in Seq(Events)
           /\ srv'.at = "judging" /\ srv'.text = srv.text
<1> DEFINE spec == IF srv.text = "form" THEN Coerced(Normalized(s)) ELSE Normalized(s)
<1>1. spec \in SpecShape /\ spec.period \in Periods
  BY NormalizedShape, CoercedShape
<1>2. srv' = [srv EXCEPT !.at = "judging", !.from = from, !.spec = spec]
  BY DEF Specified
<1> HIDE DEF spec
<1>3. srv' \in Server /\ srv'.at = "judging" /\ srv'.spec = spec /\ srv'.text = srv.text
  BY <1>1, <1>2 DEF AssistantTypeInv, Server
<1>4. <<"reasoning", "spec">> \in Seq(Events)
  BY ShortSequences DEF Events
<1>5. wire' \in Seq(Events)
  BY <1>4, SendAppends DEF Specified, AssistantTypeInv
<1> QED BY <1>1, <1>3, <1>5 DEF ServerKnows

LEMMA StreamTypes ==
    ASSUME AssistantTypeInv, StreamSpec
    PROVE  AssistantTypeInv'
<1>1. <<"reasoning", "error">> \in Seq(Events)
  BY ShortSequences DEF Events
<1>2. srv' \in Server /\ ServerKnows' /\ wire' \in Seq(Events)
  BY <1>1, CloseTypes, SpecifiedTypes DEF StreamSpec
<1> QED BY <1>2 DEF StreamSpec, AssistantTypeInv

LEMMA JudgeTypes ==
    ASSUME AssistantTypeInv, Judge
    PROVE  AssistantTypeInv'
<1>1. <<"capability">> \in Seq(Events)
      /\ <<"capability", "unsupported_strategy", "done">> \in Seq(Events)
  BY ShortSequences DEF Events
<1>2. CASE Supported(srv.spec)
  <2>1. wire' \in Seq(Events)
    BY <1>1, <1>2, SendAppends DEF Judge, AssistantTypeInv
  <2>2. srv' \in Server /\ srv'.at = "compiling" /\ srv'.spec = srv.spec
    BY <1>2 DEF Judge, Goto, AssistantTypeInv, Server
  <2>3. ServerKnows'
    BY <1>2, <2>2 DEF Judge, AssistantTypeInv, ServerKnows, Supported
  <2> QED BY <2>1, <2>2, <2>3 DEF Judge, AssistantTypeInv
<1>3. CASE ~ Supported(srv.spec)
  BY <1>1, <1>3, CloseTypes DEF Judge, AssistantTypeInv
<1> QED BY <1>2, <1>3

LEMMA CompileTypes ==
    ASSUME AssistantTypeInv, Compile
    PROVE  AssistantTypeInv'
<1>1. <<"error">> \in Seq(Events)
  BY ShortSequences DEF Events
<1>2. ASSUME NEW c \in Checked(srv.spec), srv' = [srv EXCEPT !.at = "loading", !.code = c],
             UNCHANGED wire
      PROVE  srv' \in Server /\ ServerKnows' /\ wire' \in Seq(Events)
  <2>1. c = "good"
    BY CheckedIsGood
  <2>2. srv' \in Server /\ srv'.at = "loading" /\ srv'.code = c /\ srv'.spec = srv.spec
    BY <1>2, <2>1 DEF AssistantTypeInv, Server, Drafts
  <2>3. ServerKnows'
    BY <2>1, <2>2 DEF Compile, AssistantTypeInv, ServerKnows, Supported
  <2> QED BY <1>2, <2>2, <2>3 DEF AssistantTypeInv
<1>3. srv' \in Server /\ ServerKnows' /\ wire' \in Seq(Events)
  BY <1>1, <1>2, CloseTypes DEF Compile
<1> QED BY <1>3 DEF Compile, AssistantTypeInv

LEMMA LoadTypes ==
    ASSUME AssistantTypeInv, LoadData
    PROVE  AssistantTypeInv'
<1>1. /\ <<"validation", "code">> \in Seq(Events) /\ <<"error">> \in Seq(Events)
      /\ <<"validation", "unsupported_strategy", "done">> \in Seq(Events)
  BY ShortSequences DEF Events
<1>2. ASSUME Goto("creating"), Send(<<"validation", "code">>)
      PROVE  srv' \in Server /\ ServerKnows' /\ wire' \in Seq(Events)
  <2>1. wire' \in Seq(Events)
    BY <1>1, <1>2, SendAppends DEF AssistantTypeInv
  <2>2. /\ srv' \in Server /\ srv'.at = "creating" /\ srv'.spec = srv.spec
        /\ srv'.code = srv.code
    BY <1>2 DEF Goto, AssistantTypeInv, Server
  <2>3. ServerKnows'
    BY <2>2 DEF LoadData, AssistantTypeInv, ServerKnows, Supported
  <2> QED BY <2>1, <2>2, <2>3
<1>3. srv' \in Server /\ ServerKnows' /\ wire' \in Seq(Events)
  BY <1>1, <1>2, CloseTypes DEF LoadData
<1> QED BY <1>3 DEF LoadData, AssistantTypeInv

LEMMA CreateTypes ==
    ASSUME AssistantTypeInv, CreateAndQueue
    PROVE  AssistantTypeInv'
<1>1. <<"run_status", "run", "done">> \in Seq(Events) /\ <<"error">> \in Seq(Events)
  BY ShortSequences DEF Events
<1>2. srv' \in Server /\ ServerKnows' /\ wire' \in Seq(Events)
  BY <1>1, CloseTypes DEF CreateAndQueue
<1>3. srv.code \in Drafts
  BY DEF CreateAndQueue, AssistantTypeInv, ServerKnows, Drafts
<1>4. \A r \in created' : r.code \in Drafts
  BY <1>3 DEF CreateAndQueue, AssistantTypeInv
<1> QED BY <1>2, <1>4 DEF CreateAndQueue, AssistantTypeInv

LEMMA ClientTypes ==
    ASSUME AssistantTypeInv, Receive \/ HangUp
    PROVE  AssistantTypeInv'
<1>1. CASE Receive
  <2>1. wire' \in Seq(Events)
    BY <1>1 DEF Receive, AssistantTypeInv
  <2> QED BY <1>1, <2>1 DEF Receive, AssistantTypeInv, ServerKnows
<1>2. CASE HangUp
  <2>1. srv' \in Server /\ srv'.at = "closed" /\ wire' \in Seq(Events)
    BY <1>2, RestingServer DEF HangUp, Resting
  <2> QED BY <1>2, <2>1 DEF HangUp, AssistantTypeInv, ServerKnows
<1> QED BY <1>1, <1>2

LEMMA AssistantTypeNext ==
    AssistantTypeInv /\ [AssistantNext]_assistantVars => AssistantTypeInv'
<1>1. ASSUME AssistantTypeInv, UNCHANGED assistantVars
      PROVE  AssistantTypeInv'
  BY <1>1 DEF assistantVars, AssistantTypeInv, ServerKnows
<1> QED
  BY <1>1, UserTypes, PlanningTypes, StreamTypes, JudgeTypes, CompileTypes, LoadTypes,
     CreateTypes, ClientTypes DEF AssistantNext, Serve

\* The conversation, the generator, the wire and the client keep their shapes.
THEOREM AssistantTypeCorrect == AssistantSpec => []AssistantTypeOK
<1>1. AssistantTypeInv => AssistantTypeOK
  BY DEF AssistantTypeInv, AssistantTypeOK, Server
<1> QED BY <1>1, AssistantTypeInit, AssistantTypeNext, PTL DEF AssistantSpec
--------------------------------------------------------------------------------
(* Runs are vetted.  The gate is passed at the start of a turn, the run made   *)
(* at its end or in a later turn that modifies the strategy, so the invariant  *)
(* is that whatever was sent or shown since was sent behind the gate.          *)

Settled == (Missing(said) = {} /\ "approval" \in said) \/ blank

Strategy == {"spec", "code"}

GateInv ==
    /\ srv.at \notin {"closed", "planning"} => Settled
    /\ srv.text = "none" => blank
    /\ (\E i \in DOMAIN wire : wire[i] \in Strategy) => Settled
    /\ Strategy \cap shown # {} => Settled

VettedInv == GateInv /\ RunsAreVetted

LEMMA VettedInit == AssistantInit => VettedInv
<1> SUFFICES ASSUME AssistantInit PROVE VettedInv
  OBVIOUS
<1>1. srv.at = "closed" /\ srv.text = "typed" /\ wire = <<>> /\ shown = {} /\ created = {}
  BY DEF AssistantInit, Resting
<1> QED BY <1>1 DEF VettedInv, GateInv, RunsAreVetted, Strategy

\* The text of the conversation only grows, so what is settled stays settled.
LEMMA SettledStays ==
    ASSUME said \subseteq said', blank => blank', Settled
    PROVE  Settled'
BY DEF Settled, Missing

\* A step that makes no run keeps the runs vetted.
LEMMA NoRunMade ==
    ASSUME VettedInv, said \subseteq said', blank => blank', created' = created
    PROVE  RunsAreVetted'
BY SettledStays DEF VettedInv, RunsAreVetted, Settled

LEMMA PostVetted ==
    ASSUME VettedInv, NEW text \in {"typed", "form", "none"}, Post(text),
           said \subseteq said', blank => blank', text = "none" => blank'
    PROVE  VettedInv'
<1>1. srv'.at = "planning" /\ srv'.text = text
  BY DEF Post, Resting
<1>2. UNCHANGED <<wire, shown, created>>
  BY DEF Post
<1>3. GateInv'
  BY <1>1, <1>2, SettledStays DEF VettedInv, GateInv
<1> QED BY <1>2, <1>3, NoRunMade DEF VettedInv

LEMMA UserVetted ==
    ASSUME AssistantTypeInv, VettedInv,
           (\E f \in Openings : Say(f)) \/ (\E i \in 1..4 : PickOption(i)) \/ SubmitForm \/ PostNothing
    PROVE  VettedInv'
<1>1. ASSUME NEW f \in Openings, Say(f) PROVE VettedInv'
  BY <1>1, PostVetted DEF Say
<1>2. ASSUME NEW i \in 1..4, PickOption(i) PROVE VettedInv'
  BY <1>2, PostVetted DEF PickOption
<1>3. CASE SubmitForm
  BY <1>3, PostVetted DEF SubmitForm, AssistantTypeInv
<1>4. CASE PostNothing
  BY <1>4, PostVetted DEF PostNothing
<1> QED BY <1>1, <1>2, <1>3, <1>4

\* A step of the generator behind the gate may send what it likes.
LEMMA BehindGate ==
    ASSUME VettedInv, Settled, UNCHANGED <<said, blank, shown>>, RunsAreVetted',
           srv'.text = srv.text \/ srv'.text = "typed"
    PROVE  VettedInv'
<1>1. Settled'
  BY SettledStays
<1> QED BY <1>1 DEF VettedInv, GateInv

\* A turn that ends before the gate sends no strategy.
LEMMA EndsBeforeGate ==
    ASSUME AssistantTypeInv, VettedInv, NEW evs \in Seq(Events \ Strategy), Close(evs),
           UNCHANGED <<said, blank, shown, created>>
    PROVE  VettedInv'
<1>1. srv'.at = "closed" /\ srv'.text = "typed"
  BY DEF Close, Resting
<1>2. evs \in Seq(Events) /\ \A i \in DOMAIN evs : evs[i] \notin Strategy
  <2>1. \A i \in 1..Len(evs) : evs[i] \in Events \ Strategy
    OBVIOUS
  <2> QED BY <2>1
<1>3. (\E i \in DOMAIN wire' : wire'[i] \in Strategy) => (\E i \in DOMAIN wire : wire[i] \in Strategy)
  BY <1>2, SendAppends DEF Close, AssistantTypeInv
<1>4. GateInv'
  BY <1>1, <1>3, SettledStays DEF VettedInv, GateInv
<1> QED BY <1>4, NoRunMade DEF VettedInv

LEMMA PlanningVetted ==
    ASSUME AssistantTypeInv, VettedInv, PlanAnswer \/ Clarify \/ Proceed
    PROVE  VettedInv'
<1>1. /\ <<"assistant", "done">> \in Seq(Events \ Strategy)
      /\ <<"assistant", "clarification", "done">> \in Seq(Events \ Strategy)
  BY ShortSequences DEF Events, Strategy
<1>2. CASE PlanAnswer \/ Clarify
  BY <1>1, <1>2, EndsBeforeGate DEF PlanAnswer, Clarify
<1>3. CASE Proceed
  <2>1. Settled
    <3>1. CASE Strategy \cap shown # {}
      BY <3>1 DEF VettedInv, GateInv
    <3>2. CASE srv.text = "none"
      BY <3>2 DEF VettedInv, GateInv, Settled
    <3>3. CASE NextQuestion(said) = "none"
      BY <3>3, QuestionIsOpen DEF Settled, AssistantTypeInv
    <3> QED BY <1>3, <3>1, <3>2, <3>3 DEF Proceed, HeldBack, Strategy
  <2>2. srv'.text = srv.text
    BY <1>3 DEF Proceed, AssistantTypeInv, Server
  <2>3. RunsAreVetted'
    BY <1>3, NoRunMade DEF Proceed
  <2> QED BY <1>3, <2>1, <2>2, <2>3, BehindGate DEF Proceed
<1> QED BY <1>2, <1>3

LEMMA GeneratorVetted ==
    ASSUME AssistantTypeInv, VettedInv, StreamSpec \/ Judge \/ Compile \/ LoadData
    PROVE  VettedInv'
<1>1. /\ Settled
      /\ UNCHANGED <<said, blank, shown, created>>
  BY DEF StreamSpec, Judge, Compile, LoadData, VettedInv, GateInv
<1>2. srv'.text = srv.text \/ srv'.text = "typed"
  <2>1. ASSUME NEW evs, Close(evs) PROVE srv'.text = "typed"
    BY <2>1 DEF Close, Resting
  <2>2. ASSUME NEW at, Goto(at) PROVE srv'.text = srv.text
    BY <2>2 DEF Goto, AssistantTypeInv, Server
  <2>3. CASE StreamSpec
    BY <2>1, <2>3, SpecifiedTypes DEF StreamSpec
  <2>4. CASE Judge
    BY <2>1, <2>2, <2>4 DEF Judge
  <2>5. CASE Compile
    <3>1. ASSUME NEW c, srv' = [srv EXCEPT !.at = "loading", !.code = c]
          PROVE  srv'.text = srv.text
      BY <3>1 DEF AssistantTypeInv, Server
    <3> QED BY <2>1, <2>5, <3>1 DEF Compile
  <2>6. CASE LoadData
    BY <2>1, <2>2, <2>6 DEF LoadData
  <2> QED BY <2>3, <2>4, <2>5, <2>6
<1>3. RunsAreVetted'
  BY <1>1, NoRunMade
<1> QED BY <1>1, <1>2, <1>3, BehindGate

LEMMA CreateVetted ==
    ASSUME AssistantTypeInv, VettedInv, CreateAndQueue
    PROVE  VettedInv'
<1> DEFINE run == [code |-> srv.code, spec |-> srv.spec, period |-> PeriodOf(srv.spec)]
<1>1. /\ Settled /\ UNCHANGED <<said, blank, shown>>
      /\ created' = created \cup {run}
      /\ srv'.text = "typed"
  BY DEF CreateAndQueue, Close, Resting, VettedInv, GateInv
<1>2. /\ srv.code = "good" /\ Supported(srv.spec)
      /\ srv.spec \in SpecShape /\ srv.spec.period \in Periods
  BY DEF CreateAndQueue, AssistantTypeInv, ServerKnows, Server
<1>3. /\ Static(run.code) /\ DryRun(run.code) /\ Supported(run.spec)
      /\ Rank[run.period] <= Rank[MaxPeriod(run.spec.bar)]
  BY <1>2, PeriodCapped DEF Static, DryRun
<1> HIDE DEF run
<1>4. RunsAreVetted'
  BY <1>1, <1>3 DEF VettedInv, RunsAreVetted, Settled
<1> QED BY <1>1, <1>4, BehindGate

LEMMA ClientVetted ==
    ASSUME AssistantTypeInv, VettedInv, Receive \/ HangUp
    PROVE  VettedInv'
<1>1. CASE Receive
  <2>1. UNCHANGED <<said, blank, srv, created>>
    BY <1>1 DEF Receive
  <2>2. /\ 1 \in DOMAIN wire /\ Head(wire) = wire[1]
        /\ \A i \in DOMAIN wire' : \E j \in DOMAIN wire : wire'[i] = wire[j]
    <3>1. wire # <<>> /\ wire' = Tail(wire) /\ wire \in Seq(Events)
      BY <1>1 DEF Receive, AssistantTypeInv
    <3>2. /\ Len(wire) \in Nat /\ Len(wire) > 0 /\ Len(Tail(wire)) = Len(wire) - 1
          /\ \A i \in 1..Len(Tail(wire)) : Tail(wire)[i] = wire[i + 1]
      BY <3>1, HeadTailProperties
    <3>3. \A i \in 1..Len(wire') : i + 1 \in 1..Len(wire) /\ wire'[i] = wire[i + 1]
      BY <3>1, <3>2
    <3> QED BY <3>1, <3>2, <3>3
  <2>3. Strategy \cap shown' # {} =>
            Strategy \cap shown # {} \/ (\E i \in DOMAIN wire : wire[i] \in Strategy)
    BY <1>1, <2>2 DEF Receive, Strategy
  <2>4. GateInv'
    BY <2>1, <2>2, <2>3, SettledStays DEF VettedInv, GateInv
  <2> QED BY <2>1, <2>4, NoRunMade DEF VettedInv
<1>2. CASE HangUp
  <2>1. /\ UNCHANGED <<said, blank, shown, created>> /\ wire' = <<>>
        /\ srv'.at = "closed" /\ srv'.text = "typed"
    BY <1>2 DEF HangUp, Resting
  <2>2. GateInv'
    BY <2>1, SettledStays DEF VettedInv, GateInv
  <2> QED BY <2>1, <2>2, NoRunMade DEF VettedInv
<1> QED BY <1>1, <1>2

LEMMA VettedNext == AssistantTypeInv /\ VettedInv /\ [AssistantNext]_assistantVars => VettedInv'
<1>1. ASSUME VettedInv, UNCHANGED assistantVars
      PROVE  VettedInv'
  BY <1>1 DEF assistantVars, VettedInv, GateInv, Settled, RunsAreVetted
<1> QED
  BY <1>1, UserVetted, PlanningVetted, GeneratorVetted, CreateVetted, ClientVetted
     DEF AssistantNext, Serve

\* Whatever the model answers and whenever the client hangs up, a run is made
\* of a checked program, over data the engine has and a history the bar allows,
\* behind the questions and the approval.
THEOREM AssistantRunsAreVetted == AssistantSpec => []RunsAreVetted
<1>1. AssistantInit => AssistantTypeInv /\ VettedInv
  BY AssistantTypeInit, VettedInit
<1>2. AssistantTypeInv /\ VettedInv /\ [AssistantNext]_assistantVars
        => (AssistantTypeInv /\ VettedInv)'
  BY AssistantTypeNext, VettedNext
<1>3. VettedInv => RunsAreVetted
  BY DEF VettedInv
<1> QED BY <1>1, <1>2, <1>3, PTL DEF AssistantSpec
--------------------------------------------------------------------------------
(* Recommended answers settle.  A recommended option states what its question  *)
(* asks for, the text only grows, and a question asks for what is not stated.  *)

RecommendedInv == taken \subseteq said /\ RecommendedSettles

LEMMA RecommendedInit == AssistantInit => RecommendedInv
BY DEF AssistantInit, RecommendedInv, RecommendedSettles

\* A step that asks nothing new.
LEMMA NothingAsked ==
    ASSUME AssistantTypeInv, AssistantTypeInv', RecommendedInv, taken' \subseteq said',
           asked' = "none" \/ (asked' = asked /\ taken' = taken)
    PROVE  RecommendedInv'
<1>1. "none" \notin taken'
  BY DEF AssistantTypeInv, Options
<1> QED BY <1>1 DEF RecommendedInv, RecommendedSettles

LEMMA RecommendedNext ==
    AssistantTypeInv /\ RecommendedInv /\ [AssistantNext]_assistantVars => RecommendedInv'
<1> SUFFICES ASSUME AssistantTypeInv, AssistantTypeInv', RecommendedInv,
                    [AssistantNext]_assistantVars
             PROVE  RecommendedInv'
  BY AssistantTypeNext
<1>1. ASSUME NEW f \in Openings, Say(f) PROVE RecommendedInv'
  BY <1>1, NothingAsked DEF Say, Post, RecommendedInv
<1>2. ASSUME NEW i \in 1..4, PickOption(i) PROVE RecommendedInv'
  <2>1. asked \in DOMAIN Options /\ asked \in Options[asked][1]
    BY <1>2, RecommendedStates DEF PickOption, AssistantTypeInv
  <2>2. taken' \subseteq said' /\ asked' = "none"
    BY <1>2, <2>1 DEF PickOption, Post, RecommendedInv
  <2> QED BY <2>2, NothingAsked
<1>3. CASE SubmitForm \/ PostNothing
  <2>1. said \subseteq said' /\ taken' = taken /\ asked' = "none"
    BY <1>3 DEF SubmitForm, PostNothing, Post, AssistantTypeInv
  <2> QED BY <2>1, NothingAsked DEF RecommendedInv
<1>4. CASE Clarify
  <2>1. NextQuestion(said) \notin said
    BY QuestionIsOpen DEF AssistantTypeInv
  <2>2. asked' = NextQuestion(said) /\ UNCHANGED <<said, taken>>
    BY <1>4 DEF Clarify
  <2> QED BY <2>1, <2>2 DEF RecommendedInv, RecommendedSettles
<1>5. CASE PlanAnswer \/ Proceed \/ StreamSpec \/ Judge \/ Compile \/ LoadData \/ CreateAndQueue
           \/ Receive
  <2>1. UNCHANGED <<said, taken, asked>>
    BY <1>5 DEF PlanAnswer, Proceed, StreamSpec, Judge, Compile, LoadData, CreateAndQueue, Receive
  <2> QED BY <2>1, NothingAsked DEF RecommendedInv
<1>6. CASE HangUp
  BY <1>6, NothingAsked DEF HangUp, RecommendedInv
<1>7. CASE UNCHANGED assistantVars
  BY <1>7, NothingAsked DEF assistantVars, RecommendedInv
<1> QED
  BY <1>1, <1>2, <1>3, <1>4, <1>5, <1>6, <1>7 DEF AssistantNext, Serve

\* Whoever answers with the recommended option is never asked the same again,
\* in whatever order the questions come and whatever else is said in between.
THEOREM RecommendationsSettle == AssistantSpec => []RecommendedSettles
<1>1. AssistantInit => AssistantTypeInv /\ RecommendedInv
  BY AssistantTypeInit, RecommendedInit
<1>2. AssistantTypeInv /\ RecommendedInv /\ [AssistantNext]_assistantVars
        => (AssistantTypeInv /\ RecommendedInv)'
  BY AssistantTypeNext, RecommendedNext
<1>3. RecommendedInv => RecommendedSettles
  BY DEF RecommendedInv
<1> QED BY <1>1, <1>2, <1>3, PTL DEF AssistantSpec
===============================================================================
