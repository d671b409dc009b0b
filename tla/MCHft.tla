---- MODULE MCHft ----
\* One HFT engine under every short sequence of events, the replay that feeds
\* engines, and the daily bars.  They share no variable: each behaviour is one
\* of the three.
EXTENDS HftEngine, TickReplay, MCMarketData
VARIABLE lane
Init ==
    /\ lane \in {"engine", "replay", "bars"}
    /\ HftInit /\ ReplayInit /\ MarketInit
    /\ lane # "replay" => windows = <<>>
    /\ lane # "engine" => engine = NewEngine(TRUE)
Engine == lane = "engine" /\ HftNext /\ UNCHANGED <<lane, replayVars, marketVars>>
Replay == lane = "replay" /\ ReplayNext /\ UNCHANGED <<lane, hftVars, marketVars>>
Daily == lane = "bars" /\ MarketNext /\ UNCHANGED <<lane, hftVars, replayVars>>
Next == Engine \/ Replay \/ Daily
Spec == Init /\ [][Next]_<<lane, hftVars, replayVars, marketVars>>
====
