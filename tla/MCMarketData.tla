---- MODULE MCMarketData ----
EXTENDS MarketData
MCUniverse == <<"equity", "index">>
MCRanges == {<<1, 3>>, <<2, 3>>}
MCAbsences == {{}, {2}, {1}}
====
