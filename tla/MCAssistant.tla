----------------------------- MODULE MCAssistant -----------------------------
\* Conversations that open with nothing, with an idea, or with everything but
\* the history and the approval; one specification per fate.
EXTENDS AssistantTurn
MCOpenings ==
    {{}, {"edge", "backtest"}, {"instrument", "universe", "edge", "timeframe", "risk", "backtest"},
     Facts \ {"universe"}, {"approval"}}
Plain == [NoSpec EXCEPT !.kind = "builtin"]
MCSpecs ==
    {Plain, [Plain EXCEPT !.bar = "1h", !.period = "5y"], [Plain EXCEPT !.market = "news"],
     [Plain EXCEPT !.kind = "python", !.code = "failing", !.bar = "1m"],
     [Plain EXCEPT !.kind = "python", !.code = "unsafe"],
     [Plain EXCEPT !.provider = "stooq", !.asset = "crypto"]}
\* All in one delta, spread over deltas, without the separator, cut short.
MCAnswers ==
    {<<{}, {"sep", "open", "shut"}>>, <<{"sep"}, {"open"}, {"shut"}>>, <<{"open", "shut"}>>, <<{"sep", "open"}>>}
===============================================================================
