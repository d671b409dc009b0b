---- MODULE MCSizing ----
EXTENDS TradeSizing
Site(weth, primary, rwa, listed, mock, drawdown) ==
    [weth |-> weth, primary |-> primary, rwa |-> rwa, listed |-> listed, mock |-> mock, drawdown |-> drawdown]
Both == {"dex", "primary"}
MCSites == {Site(TRUE, TRUE, {"QQQ"}, Both, FALSE, "warn"),
            Site(FALSE, TRUE, {"QQQ"}, {"primary"}, FALSE, "reject"),
            Site(TRUE, TRUE, {}, {"dex"}, TRUE, "off")}
Algo(symbol, freq, trades) ==
    [symbol |-> symbol, freq |-> freq, trades |-> trades, intent |-> "ALGORITHMIC_TRADING", poorSharpe |-> FALSE,
     drawdown |-> 20, spread |-> Unknown, profit |-> Unknown, slippage |-> Unknown, maker |-> TRUE]
Hft(spread, profit, slippage, maker) ==
    [Algo("QQQ", "NONE", 0) EXCEPT !.intent = "HIGH_FREQUENCY_SCALPING", !.spread = spread, !.profit = profit,
                                   !.slippage = slippage, !.maker = maker]
MCStrategies == {Algo("QQQ", "MONTHLY", 0), Algo("QQQ", "QUARTERLY", 0), Algo("BTC", "NONE", 250),
                 [Algo("QQQ", "NONE", 0) EXCEPT !.drawdown = 50], [Algo("BTC", "NONE", 0) EXCEPT !.poorSharpe = TRUE],
                 Hft(3, 4, Unknown, TRUE), Hft(3, 8, 1, FALSE), Hft(3, 25, 1, FALSE), Hft(Unknown, 3, 1, TRUE)}
MCFunds == {-1, 50, 1207}
Text(whole, decimals, point) == [whole |-> whole, decimals |-> decimals, point |-> point]
MCTexts == {Text(2, <<>>, FALSE), Text(0, <<0, 5>>, TRUE), Text(1, <<0, 0, 5>>, TRUE), Garbage}
====
