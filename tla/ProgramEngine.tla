---------------------------- MODULE ProgramEngine ----------------------------
(* run_backtest_from_market_data, one symbol's column: a program's output is  *)
(* turned into a target, risk overlays flatten it, the delayed target creates *)
(* orders that fill under a participation limit, and the executed weight is   *)
(* cut into trades.  The engine makes these passes over whole series one      *)
(* after the other; each looks only backwards, so a bar is one step through   *)
(* all of them.  The columns of different symbols never read one another.     *)
EXTENDS Integers, Sequences, SequencesExt

CONSTANTS
    Programs,      \* ProgramMetadata and the kind of output of a program
    Bars,          \* length of the series
    FullWeight,          \* weight units of a target of 1.0; a raw target may be partial
    BarCloses,        \* closing prices
    Raws,          \* what a program can write for a bar
    BarCaps,       \* cap_w of a bar in weight units
    MicroCaps      \* caps of the quotes and trades inside a bar, in their order

ASSUME ProgramAssumption ==
    /\ Bars \in Nat \ {0, 1} /\ FullWeight \in Nat \ {0} /\ BarCloses \subseteq Nat \ {0}
    /\ BarCaps \subseteq Nat /\ MicroCaps \subseteq Seq(Nat) /\ Raws["target"] \subseteq Int
    /\ \A p \in Programs : /\ p.output \in {"target", "signals", "events"}
                          /\ p.latency \in Nat /\ {p.stop, p.take, p.trail} \subseteq Nat

VARIABLES
    program,
    bar,
    sticky,        \* position of the event and signal converters
    overlay,       \* weight, entry, peak and trough of _apply_risk_overlays, and
                   \* the last close they were judged on
    pipe,          \* desired weights not yet delayed enough
    aim,           \* delayed.loc[ts] of this bar
    was, weight,   \* current before and after this bar
    order,         \* open_orders[sym]
    booked,        \* sum of filled_qty over order_rows
    trade, rows,   \* the open trade's side and the number of trade rows
    runs           \* history: times the traded weight took up a new side
programVars == <<program, bar, sticky, overlay, pipe, aim, was, weight, order, booked, trade, rows, runs>>

Abs(x) == IF x < 0 THEN -x ELSE x
Sign(x) == IF x > 0 THEN 1 ELSE IF x < 0 THEN -1 ELSE 0
Clip(x, lo, hi) == IF x < lo THEN lo ELSE IF x > hi THEN hi ELSE x
NoOrder == [requested |-> 0, filled |-> 0]
Flat == [weight |-> 0, entry |-> 0, peak |-> 0, trough |-> 0, last |-> 0]

(* Program output to target *)

\* _events_to_target: exits act on their own side, entries on any.
EventTarget(raw) ==
    LET out == IF (raw.exit /\ sticky > 0) \/ (raw.shortExit /\ sticky < 0) THEN 0 ELSE sticky
    IN  IF raw.shortEntry THEN -FullWeight ELSE IF raw.entry THEN FullWeight ELSE out

\* _legacy_signal_series_to_target
SignalTarget(raw) ==
    IF raw > 0 THEN FullWeight
    ELSE IF raw = 0 THEN sticky
    ELSE IF program.mode = "long_short" /\ program.semantics = "target_position" THEN -FullWeight ELSE 0

RawTarget(raw) ==
    CASE program.output = "target" -> raw
      [] program.output = "signals" -> SignalTarget(raw)
      [] program.output = "events" -> EventTarget(raw)
Target(raw) == Clip(RawTarget(raw), IF program.mode = "long_short" THEN -FullWeight ELSE 0, FullWeight)

(* Risk overlays; a limit of 0 is None *)

Seen(p) ==
    [overlay EXCEPT !.last = p,
                    !.peak = IF overlay.weight > 0 /\ p > @ THEN p ELSE @,
                    !.trough = IF overlay.weight < 0 /\ p < @ THEN p ELSE @]
Hit(o, p) ==
    LET long == o.weight > 0
        lost(ref, pct) == pct # 0 /\ IF long THEN p * 100 <= ref * (100 - pct)
                                             ELSE p * 100 >= ref * (100 + pct)
        won(ref, pct) == pct # 0 /\ IF long THEN p * 100 >= ref * (100 + pct)
                                            ELSE p * 100 <= ref * (100 - pct)
    IN  /\ o.weight # 0
        /\ \/ lost(o.entry, program.stop) \/ won(o.entry, program.take)
           \/ lost(IF long THEN o.peak ELSE o.trough, program.trail)
\* Mutant: a flip keeps the reference prices of the old side.
ApplyOverlayKeepsEntry(target, p) ==
    LET o == Seen(p)
        desired == IF Hit(o, p) THEN 0 ELSE target
    IN  IF desired = 0 THEN Flat
        ELSE IF o.weight # 0 THEN [o EXCEPT !.weight = desired]
        ELSE [weight |-> desired, entry |-> p, peak |-> p, trough |-> p, last |-> p]

ApplyOverlay(target, p) ==
    LET o == Seen(p)
        desired == IF Hit(o, p) THEN 0 ELSE target
    IN  IF desired = 0 THEN Flat
        ELSE IF Sign(desired) = Sign(o.weight) THEN [o EXCEPT !.weight = desired]
        ELSE [weight |-> desired, entry |-> p, peak |-> p, trough |-> p, last |-> p]

(* Orders *)

Remaining(o) == o.requested - o.filled

\* Mutant: the fills of a replaced order are dropped.
SubmitUnbooked(o, delta) ==
    IF delta = 0 \/ Remaining(o) = delta THEN [open |-> o, closed |-> 0, bought |-> 0]
    ELSE [open |-> [requested |-> delta, filled |-> 0], closed |-> 0, bought |-> 0]

\* A new delta replaces the order; no delta leaves the order as it is.
Submit(o, delta) ==
    IF delta = 0 \/ Remaining(o) = delta THEN [open |-> o, closed |-> 0, bought |-> 0]
    ELSE [open |-> [requested |-> delta, filled |-> 0], closed |-> o.filled, bought |-> 0]

\* One event of the bar: what remains is filled up to the cap, and an order
\* that is filled is booked.
FillEvent(s, cap) ==
    LET qty == Sign(Remaining(s.open)) * Min({Abs(Remaining(s.open)), cap})
        filled == [s.open EXCEPT !.filled = @ + qty]
    IN  IF s.open = NoOrder \/ cap = 0 THEN s
        ELSE IF Remaining(filled) # 0 THEN [s EXCEPT !.open = filled, !.bought = @ + qty]
        ELSE [open |-> NoOrder, closed |-> s.closed + filled.filled, bought |-> s.bought + qty]
Lifecycle(delta, caps) == FoldLeft(FillEvent, Submit(order, delta), caps)

(* Trades *)

Side(x) == IF x > 0 THEN "long" ELSE IF x < 0 THEN "short" ELSE "none"

\* _extract_trade_rows_bar_close, on the weight of this bar.
CloseTrade(pos) ==
    IF trade = "none" \/ Side(pos) = trade THEN [side |-> IF trade = "none" THEN Side(pos) ELSE trade, row |-> 0]
    ELSE [side |-> Side(pos), row |-> 1]

\* Mutant: a long is closed only by a short.
OpenTradeHeld(old, new) ==
    LET done == (old > 0 /\ new < 0 /\ trade = "long") \/ (old < 0 /\ new >= 0 /\ trade = "short")
        left == IF done THEN "none" ELSE trade
    IN  [row |-> IF done THEN 1 ELSE 0,
         side |-> CASE new # 0 /\ Sign(old) = Sign(new) -> IF left = "none" THEN Side(new) ELSE left
                    [] new # 0 /\ Sign(old) # Sign(new) -> Side(new)
                    [] new = 0 /\ old = 0 -> left
                    [] OTHER -> "none"]

\* _extract_trade_rows_next_bar_open, from the weight two bars ago to the last one.
OpenTrade(old, new) ==
    LET done == (old > 0 /\ new <= 0 /\ trade = "long") \/ (old < 0 /\ new >= 0 /\ trade = "short")
        left == IF done THEN "none" ELSE trade
    IN  [row |-> IF done THEN 1 ELSE 0,
         side |-> CASE new # 0 /\ Sign(old) = Sign(new) -> IF left = "none" THEN Side(new) ELSE left
                    [] new # 0 /\ Sign(old) # Sign(new) -> Side(new)
                    [] new = 0 /\ old = 0 -> left
                    [] OTHER -> "none"]

ProgramInit ==
    /\ program \in Programs
    /\ bar = 0 /\ sticky = 0 /\ overlay = Flat /\ pipe = <<>>
    /\ aim = 0 /\ was = 0 /\ weight = 0 /\ order = NoOrder /\ booked = 0
    /\ trade = "none" /\ rows = 0 /\ runs = 0

\* What the engine trades on this bar: this weight, or the one before it.
Executes(old, new) == IF program.timing = "bar_close" THEN new ELSE old

\* A bar at close p with the program's output for it and the caps of its events.
RunBar(p, raw, caps) ==
    LET over == ApplyOverlay(Target(raw), p)
        line == Append(pipe, over.weight)
        due == IF Len(line) > program.latency THEN Head(line) ELSE 0
        life == Lifecycle(due - weight, caps)
        next == Clip(weight + life.bought, -FullWeight, FullWeight)
        cut == IF program.timing = "bar_close" THEN CloseTrade(next) ELSE OpenTrade(was, weight)
        before == Executes(was, weight)
        after == Executes(weight, next)
    IN  /\ bar < Bars /\ bar' = bar + 1
        /\ sticky' = IF program.output = "target" THEN 0 ELSE RawTarget(raw)
        /\ overlay' = over
        /\ pipe' = IF Len(line) > program.latency THEN Tail(line) ELSE line
        /\ aim' = due /\ was' = weight /\ weight' = next
        /\ order' = life.open /\ booked' = booked + life.closed
        /\ trade' = cut.side /\ rows' = rows + cut.row
        /\ runs' = runs + IF Sign(after) \notin {0, Sign(before)} THEN 1 ELSE 0
        /\ UNCHANGED program

Bar == \E p \in BarCloses, raw \in Raws[program.output],
          caps \in IF program.micro THEN MicroCaps ELSE {<<c>> : c \in BarCaps} : RunBar(p, raw, caps)

\* A date of the other symbols' calendar: the target is carried on, there is no
\* volume, and the overlays do not run.
Gap ==
    LET line == Append(pipe, overlay.weight)
        due == IF Len(line) > program.latency THEN Head(line) ELSE 0
        placed == Submit(order, due - weight)
        cut == IF program.timing = "bar_close" THEN CloseTrade(weight) ELSE OpenTrade(was, weight)
    IN  /\ bar < Bars /\ bar' = bar + 1
        /\ pipe' = IF Len(line) > program.latency THEN Tail(line) ELSE line
        /\ aim' = due /\ was' = weight /\ order' = placed.open /\ booked' = booked + placed.closed
        /\ trade' = cut.side /\ rows' = rows + cut.row
        /\ runs' = runs + IF program.timing # "bar_close" /\ Sign(weight) \notin {0, Sign(was)} THEN 1 ELSE 0
        /\ UNCHANGED <<program, sticky, overlay, weight>>

\* The dangling order is canceled and the open trade closed at the last bar.
EndSeries ==
    /\ bar = Bars /\ bar' = Bars + 1
    /\ order' = NoOrder /\ booked' = booked + order.filled
    /\ trade' = "none" /\ rows' = rows + IF trade = "none" THEN 0 ELSE 1
    /\ UNCHANGED <<program, sticky, overlay, pipe, aim, was, weight, runs>>

ProgramNext == Bar \/ Gap \/ EndSeries
ProgramSpec == ProgramInit /\ [][ProgramNext]_programVars

-----------------------------------------------------------------------------
Weights == -FullWeight..FullWeight

\* Shape of the state; no weight, ordered or executed, leaves [-1, 1].
ProgramTypeOK ==
    /\ program \in Programs /\ bar \in 0..(Bars + 1) /\ sticky \in Weights
    /\ overlay.weight \in Weights /\ overlay.trough <= overlay.peak
    /\ {aim, was, weight} \subseteq Weights /\ Len(pipe) <= program.latency
    /\ trade \in {"none", "long", "short"}

\* Orders are replaced, filled in pieces by several events and canceled, and
\* still the fills written in the order rows add up to the weight that is held,
\* and the order at rest would bring it to a target that can be held.
OrdersExplainWeight ==
    /\ booked + order.filled = weight
    /\ weight + Remaining(order) \in Weights

\* A weight that the overlays let through is within every limit of its own
\* entry and of its own best price: also after a flip, a partial change, and a
\* re-entry on the bar after a stop.
OverlaysHold ==
    LET w == overlay.weight
        Below(ref, pct) == overlay.last * 100 < ref * (100 + pct)
        Above(ref, pct) == overlay.last * 100 > ref * (100 - pct)
    IN  /\ w > 0 => /\ program.stop = 0 \/ Above(overlay.entry, program.stop)
                    /\ program.take = 0 \/ Below(overlay.entry, program.take)
                    /\ program.trail = 0 \/ Above(overlay.peak, program.trail)
        /\ w < 0 => /\ program.stop = 0 \/ Below(overlay.entry, program.stop)
                    /\ program.take = 0 \/ Above(overlay.entry, program.take)
                    /\ program.trail = 0 \/ Below(overlay.trough, program.trail)

\* The rows cut from the executed weight are its maximal runs on one side, each
\* once, whichever of the two timings cuts them.
TradesAreRuns ==
    /\ rows + (IF trade = "none" THEN 0 ELSE 1) = runs
    /\ bar <= Bars => trade = Side(Executes(was, weight))
=============================================================================
