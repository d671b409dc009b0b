--------------------------- MODULE CircuitBreaker ---------------------------
(* What the daily engine's max-drawdown protection promises, without prices   *)
(* or money: a breach suspends the portfolio, a suspended portfolio holds     *)
(* nothing, and only the start of a new cycle lifts the suspension.           *)
VARIABLES mode, invested, cycleStart

breakerVars == <<mode, invested, cycleStart>>

BreakerInit == mode = "trading" /\ invested = FALSE /\ cycleStart = FALSE

\* While trading, positions come and go.
Trade == mode = "trading" /\ mode' = "trading" /\ invested' \in BOOLEAN
\* The limit is breached at the end of a day on which something is held.
Breach == mode = "trading" /\ mode' = "queued" /\ invested'
\* The next day everything is sold and the portfolio suspended, even if the
\* day begins a new cycle.
Liquidate == mode = "queued" /\ mode' = "halted" /\ ~invested'
Wait == mode = "halted" /\ mode' = "halted" /\ ~invested' /\ ~cycleStart'
\* A cycle begins: trading again, still in cash on that day.
Release == mode = "halted" /\ mode' = "trading" /\ ~invested' /\ cycleStart'

BreakerNext ==
    cycleStart' \in BOOLEAN /\ (Trade \/ Breach \/ Liquidate \/ Wait \/ Release)

BreakerSpec == BreakerInit /\ [][BreakerNext]_breakerVars
=============================================================================
