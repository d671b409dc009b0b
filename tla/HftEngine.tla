-------------------------------- MODULE HftEngine --------------------------------
(***************************************************************************)
(* HFTExecutionEngine: one session of the scalping backtest.  Trades       *)
(* (ticks) and quotes (books) arrive in the order of their time; the       *)
(* engine keeps at most one resting limit order and one position, and goes *)
(* flat and halts on latency, time-out or a toxic spread.                  *)
(*                                                                         *)
(* Prices are whole units and a fee, a stop or a target is an amount of    *)
(* them, where the code has basis points of a float.  The replay awaits    *)
(* each handler, so a handler is one step.                                 *)
(***************************************************************************)
EXTENDS Integers

CONSTANTS
    Prices,       \* prices of trades and of quoted sides
    Imbalances,   \* percentages of the volume on the bid side
    Trigger,      \* orderBookImbalanceTrigger, in percent
    Depths,       \* shares ahead of an order placed on a book
    Sizes,        \* shares of a trade
    TakerCost,    \* slippage, impact and fee of an aggressive fill
    MakerFee,     \* fee of a passive fill
    Stop,         \* microStopLossBps
    Target,       \* targetProfitBps
    Ttl,          \* pendingLimitTtlMs
    Timeout,      \* executionTimeoutSeconds
    MaxTs,        \* bound on the session's clock
    Null

\* HFT_OBI_ADVERSE_CANCEL_THRESHOLD and the schema's range of the trigger.
Adverse == 30

Books == [ts : 1..MaxTs, bid : Prices \cup {0}, ask : Prices \cup {0},
          imbalance : Imbalances, depth : Depths]

Order == [side : {"buy", "sell"}, price : Nat \ {0}, purpose : {"entry", "exit"},
          ahead : Nat, placed : 1..MaxTs]

ASSUME EngineAssumption ==
    /\ MakerFee \in Nat /\ TakerCost \in Nat
    /\ Stop \in Nat \ {0} /\ Target \in Nat \ {0}
    /\ Prices \subseteq {p \in Nat : p > TakerCost + Target + 2 * MakerFee}
    /\ Imbalances \subseteq 0..100 /\ Trigger \in 51..99
    /\ Depths \subseteq Nat /\ Sizes \subseteq Nat
    /\ Ttl \in Nat /\ Timeout \in Nat /\ MaxTs \in Nat
    /\ Null \notin Order

VARIABLES
    engine,    \* the fields of the object
    now,       \* time of the last event
    finalized, \* finalize was called
    jumped     \* history: a trade at the order's price filled it although it
               \* was too small for the queue ahead

hftVars == <<engine, now, finalized, jumped>>

\* maker is useLimitOrdersOnly; order is the resting order (the map of
\* hft-limit-queue.ts never holds another); closed is the trade the last event
\* recorded, if any.
NewEngine(maker) ==
    [maker |-> maker, position |-> "flat", entryPrice |-> 0, entryTs |-> 0,
     order |-> Null, book |-> Null, lastTickTs |-> 0, startTs |-> 0,
     halted |-> FALSE, closed |-> Null]

HftInit ==
    /\ engine \in {NewEngine(maker) : maker \in BOOLEAN}
    /\ now = 1
    /\ finalized = FALSE
    /\ jumped = FALSE

--------------------------------------------------------------------------------
(* Prices *)

\* A side without a price is a level at 0, and neither cost nor fee applies.
TakerBuy(book) == IF book.ask = 0 THEN 0 ELSE book.ask + TakerCost

TakerSell(book) == IF book.bid = 0 THEN 0 ELSE book.bid - TakerCost

MakerFill(side, price) == IF side = "buy" THEN price + MakerFee ELSE price - MakerFee

\* Mutant of TakeProfitPrice: the fee of the exit is not in the price.
TakeProfitGross(position, entry) ==
    IF position = "long" THEN entry + Target ELSE entry - Target

\* The limit price whose fill nets the target.
TakeProfitPrice(position, entry) ==
    IF position = "long" THEN entry + Target + MakerFee
                         ELSE entry - Target - MakerFee

Pnl(position, entry, exit) ==
    IF position = "long" THEN exit - entry ELSE entry - exit

\* An aggressive exit is priced on the last book; the mark price the callers pass
\* counts only with no book, when nothing can be open.
TakerExit(e) == IF e.position = "long" THEN TakerSell(e.book) ELSE TakerBuy(e.book)

Unrealized(e) == Pnl(e.position, e.entryPrice, TakerExit(e))

--------------------------------------------------------------------------------
(* What the handlers are made of: each maps the engine's fields *)

Cancel(e) == [e EXCEPT !.order = Null]

Open(e, position, price, ts) ==
    [e EXCEPT !.position = position, !.entryPrice = price, !.entryTs = ts]

RecordClose(e, price, reason) ==
    [e EXCEPT !.position = "flat", !.entryPrice = 0, !.entryTs = 0,
              !.closed = [pnl |-> Pnl(e.position, e.entryPrice, price),
                          reason |-> reason]]

\* Mutant of CloseTaker: the resting order stays.
CloseTakerKeepingOrder(e, reason) ==
    IF e.position = "flat" THEN e
    ELSE RecordClose(e, TakerExit(e), reason)

CloseTaker(e, reason) ==
    IF e.position = "flat" THEN e
    ELSE RecordClose(Cancel(e), TakerExit(e), reason)

\* Mutant of ForceFlat: only the position is looked at.
ForceFlatPositionOnly(e, reason) == CloseTaker(e, reason)

ForceFlat(e, reason) == CloseTaker(Cancel(e), reason)

Place(e, side, price, purpose) ==
    IF price <= 0 THEN e
    ELSE [e EXCEPT !.order = [side |-> side, price |-> price, purpose |-> purpose,
                              ahead |-> e.book.depth, placed |-> e.book.ts]]

\* The passive take-profit of an open position.
PlaceExit(e) ==
    IF e.position = "flat" \/ e.order # Null THEN e
    ELSE Place(e, IF e.position = "long" THEN "sell" ELSE "buy",
               TakeProfitPrice(e.position, e.entryPrice), "exit")

\* Mutant of Fill: the exit is left to the next quote.
FillWithoutExit(e, ts) ==
    LET o == e.order
        price == MakerFill(o.side, o.price)
    IN  IF o.purpose = "exit"
        THEN IF e.position = "flat" THEN Cancel(e)
             ELSE RecordClose(Cancel(e), price, "maker_target_profit")
        ELSE Open(Cancel(e), IF o.side = "buy" THEN "long" ELSE "short", price, ts)

\* fillPendingLimit: an exit closes the position, an entry opens one and rests
\* its exit.
Fill(e, ts) ==
    LET o == e.order
        price == MakerFill(o.side, o.price)
        opened == Open(Cancel(e), IF o.side = "buy" THEN "long" ELSE "short", price, ts)
    IN  IF o.purpose = "exit"
        THEN IF e.position = "flat" THEN Cancel(e)
             ELSE RecordClose(Cancel(e), price, "maker_target_profit")
        ELSE IF e.maker THEN PlaceExit(opened) ELSE opened

Crossed(o, buyPrice, sellPrice) ==
    \/ o.side = "buy" /\ buyPrice > 0 /\ buyPrice <= o.price
    \/ o.side = "sell" /\ sellPrice > 0 /\ sellPrice >= o.price

\* Mutant of StopOrTarget: the loss is compared without its sign.
StopOrTargetUnsigned(e) ==
    IF e.position = "flat" THEN e
    ELSE IF Unrealized(e) >= Stop THEN CloseTaker(e, "micro_stop_loss")
    ELSE IF ~e.maker /\ Unrealized(e) >= Target THEN CloseTaker(e, "target_profit")
    ELSE e

StopOrTarget(e) ==
    IF e.position = "flat" THEN e
    ELSE IF Unrealized(e) <= -Stop THEN CloseTaker(e, "micro_stop_loss")
    ELSE IF ~e.maker /\ Unrealized(e) >= Target THEN CloseTaker(e, "target_profit")
    ELSE e

--------------------------------------------------------------------------------
(* onTick *)

SeeTick(e, tick) ==
    [e EXCEPT !.lastTickTs = tick.ts, !.startTs = IF @ = 0 THEN tick.ts ELSE @,
              !.closed = Null]

\* The volume at the order's level shortens the queue ahead of it, but a trade at
\* the order's price has crossed it already.
FillOnTick(e, tick) ==
    LET o == e.order
        ahead == IF tick.price # o.price THEN o.ahead
                 ELSE IF tick.size >= o.ahead THEN 0 ELSE o.ahead - tick.size
    IN  IF o = Null THEN e
        ELSE IF \/ Crossed(o, tick.price, tick.price)
                \/ tick.price = o.price /\ ahead = 0
        THEN Fill(e, tick.ts)
        ELSE [e EXCEPT !.order = [o EXCEPT !.ahead = ahead]]

NotesJump(tick) ==
    jumped' = \/ jumped
              \/ /\ engine.order # Null
                 /\ tick.price = engine.order.price
                 /\ tick.size < engine.order.ahead
                 /\ FillOnTick(engine, tick).position # engine.position

Live(ts) ==
    /\ ~finalized /\ ~engine.halted
    /\ now' = ts /\ now <= ts
    /\ UNCHANGED finalized

\* The latency is above the limit, or the session's time is over.
HaltOnTick(tick) ==
    LET e == FillOnTick(SeeTick(engine, tick), tick) IN
    /\ Live(tick.ts)
    /\ \E late \in BOOLEAN :
          /\ late \/ tick.ts - e.startTs >= Timeout
          /\ engine' = [ForceFlat(e, IF late THEN "latency_exceeded"
                                             ELSE "session_timeout")
                        EXCEPT !.halted = TRUE]
    /\ NotesJump(tick)

OnTick(tick) ==
    LET e == FillOnTick(SeeTick(engine, tick), tick) IN
    /\ Live(tick.ts)
    /\ tick.ts - e.startTs < Timeout
    /\ engine' = StopOrTarget(e)
    /\ NotesJump(tick)

--------------------------------------------------------------------------------
(* onOrderBookUpdate *)

SeeBook(e, book) == [e EXCEPT !.book = book, !.closed = Null]

IsAdverse(o, imbalance) ==
    \/ o.side = "buy" /\ imbalance < Adverse
    \/ o.side = "sell" /\ imbalance > 100 - Adverse

CancelAdverse(e) ==
    IF e.order # Null /\ e.order.purpose = "entry"
          /\ IsAdverse(e.order, e.book.imbalance)
    THEN Cancel(e) ELSE e

FillOnBook(e) ==
    IF e.order # Null /\ Crossed(e.order, e.book.ask, e.book.bid)
    THEN Fill(e, e.book.ts) ELSE e

Expire(e) ==
    IF e.order # Null /\ e.book.ts - e.order.placed > Ttl THEN Cancel(e) ELSE e

\* A limit at the near side, or an aggressive fill at the far one.
Enter(e) ==
    LET book == e.book IN
    IF book.imbalance >= Trigger
    THEN IF e.maker THEN Place(e, "buy", book.bid, "entry")
         ELSE IF TakerBuy(book) > 0 THEN Open(e, "long", TakerBuy(book), book.ts) ELSE e
    ELSE IF book.imbalance <= 100 - Trigger
    THEN IF e.maker THEN Place(e, "sell", book.ask, "entry")
         ELSE IF TakerSell(book) > 0 THEN Open(e, "short", TakerSell(book), book.ts) ELSE e
    ELSE e

\* SpreadToxicityGuard says stop: any two-sided quote may be the one.
HaltOnBook(book) ==
    /\ Live(book.ts)
    /\ book.bid > 0 /\ book.ask > 0
    /\ engine' = [ForceFlat(SeeBook(engine, book), "spread_toxicity")
                  EXCEPT !.halted = TRUE]
    /\ UNCHANGED jumped

\* A quote with no price at all is only remembered.
OnEmptyBook(book) ==
    /\ Live(book.ts)
    /\ book.bid = 0 /\ book.ask = 0
    /\ engine' = SeeBook(engine, book)
    /\ UNCHANGED jumped

OnOrderBookUpdate(book) ==
    LET e == Expire(FillOnBook(CancelAdverse(SeeBook(engine, book))))
        closed == StopOrTarget(e)
    IN  /\ Live(book.ts)
        /\ book.bid > 0 \/ book.ask > 0
        /\ engine' = IF e.position = "flat"
                     THEN IF e.order = Null THEN Enter(e) ELSE e
                     ELSE IF e.maker THEN PlaceExit(closed) ELSE closed
        /\ UNCHANGED jumped

--------------------------------------------------------------------------------

\* A position is closed at the last book's price, if a trade was ever seen.
Finalize ==
    /\ ~finalized
    /\ finalized' = TRUE
    /\ engine' = IF engine.position # "flat" /\ engine.lastTickTs > 0
                 THEN ForceFlat(engine, "finalize")
                 ELSE engine
    /\ UNCHANGED <<now, jumped>>

Soon == {ts \in {now, now + 1} : ts <= MaxTs}

HftNext ==
    \/ \E ts \in Soon, price \in Prices, size \in Sizes :
          LET tick == [ts |-> ts, price |-> price, size |-> size] IN
          HaltOnTick(tick) \/ OnTick(tick)
    \/ \E ts \in Soon, bid \in Prices \cup {0}, ask \in Prices \cup {0},
          imbalance \in Imbalances, depth \in Depths :
          LET book == [ts |-> ts, bid |-> bid, ask |-> ask,
                       imbalance |-> imbalance, depth |-> depth] IN
          /\ bid = 0 \/ ask = 0 \/ bid < ask
          /\ HaltOnBook(book) \/ OnEmptyBook(book) \/ OnOrderBookUpdate(book)
    \/ Finalize

HftSpec == HftInit /\ [][HftNext]_hftVars

--------------------------------------------------------------------------------
(* Properties *)

Trade == [pnl : Int,
          reason : {"maker_target_profit", "micro_stop_loss", "target_profit",
                    "latency_exceeded", "session_timeout", "spread_toxicity",
                    "finalize"}]

\* The fields keep the types of the class; no order rests at price 0 and no
\* position is entered below it.
HftTypeOK ==
    /\ engine \in [maker : BOOLEAN, position : {"flat", "long", "short"},
                   entryPrice : Nat, entryTs : 0..MaxTs, order : Order \cup {Null},
                   book : Books \cup {Null}, lastTickTs : 0..MaxTs,
                   startTs : 0..MaxTs, halted : BOOLEAN, closed : Trade \cup {Null}]
    /\ now \in Nat /\ finalized \in BOOLEAN /\ jumped \in BOOLEAN

\* A halted engine holds no position and has no order resting in the book,
\* whatever it was doing when latency, time or spread stopped it.
HaltedIsFlat ==
    engine.halted => engine.position = "flat" /\ engine.order = Null

\* No order outlives what it was placed for: an exit rests on the other side of
\* the open position, at the price that nets the target on its entry, and an
\* entry rests only while the engine is flat.
OrderFitsPosition ==
    engine.order # Null =>
        IF engine.order.purpose = "entry" THEN engine.position = "flat"
        ELSE /\ engine.position = IF engine.order.side = "sell" THEN "long" ELSE "short"
             /\ engine.order.price = TakeProfitPrice(engine.position, engine.entryPrice)

\* A maker engine never leaves a position without its take-profit, through fills
\* on ticks or books, expiry and renewal.
MakerHasExit ==
    engine.maker /\ engine.position # "flat" =>
        engine.order # Null /\ engine.order.purpose = "exit"

HasPrice(book) == book.bid > 0 \/ book.ask > 0

\* A position beyond its stop at the last priced quote does not survive the
\* handler, except a taker's position on the quote it was opened at.
StopHolds ==
    engine.position # "flat" /\ HasPrice(engine.book) =>
        \/ Unrealized(engine) > -Stop
        \/ ~engine.maker /\ engine.entryTs = engine.book.ts

\* What a trade is said to be closed for is what it earned: a maker's target
\* exactly net of fees, a stop at least the stop's loss, a taker's target at
\* least the target.
TradeMatchesReason ==
    engine.closed # Null =>
        CASE engine.closed.reason = "maker_target_profit" -> engine.closed.pnl = Target
          [] engine.closed.reason = "micro_stop_loss" -> engine.closed.pnl <= -Stop
          [] engine.closed.reason = "target_profit" -> engine.closed.pnl >= Target
          [] OTHER -> TRUE

\* "Stima posizione in coda per ordini limit": a trade at the order's own price
\* fills it only after the shares ahead of it.
QueueIsServed == ~jumped
================================================================================
