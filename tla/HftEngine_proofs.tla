---------------------------- MODULE HftEngine_proofs ----------------------------
(***************************************************************************)
(* Proofs about HftEngine, for any prices, costs, stop, target, sizes and  *)
(* length of the session: the types and the five safety invariants.  The   *)
(* handlers are compositions of operators on the engine's record, so each  *)
(* operator has a lemma and a handler's lemma chains them.                 *)
(***************************************************************************)
EXTENDS HftEngine, TLAPS

\* The constants, one fact per use.
LEMMA Costs == /\ MakerFee \in Nat /\ TakerCost \in Nat /\ Stop \in Nat /\ Stop > 0
               /\ Target \in Nat /\ Target > 0 /\ MaxTs \in Nat
BY EngineAssumption

LEMMA PriceMargin == \A p \in Prices : p \in Nat /\ p > TakerCost + Target + 2 * MakerFee
BY EngineAssumption

LEMMA Volumes == Depths \subseteq Nat /\ Sizes \subseteq Nat
BY EngineAssumption

LEMMA NullIsNoOrder == Null \notin Order
BY EngineAssumption

Reasons == {"maker_target_profit", "micro_stop_loss", "target_profit", "latency_exceeded",
            "session_timeout", "spread_toxicity", "finalize"}

EngineType == [maker : BOOLEAN, position : {"flat", "long", "short"},
               entryPrice : Nat, entryTs : 0..MaxTs, order : Order \cup {Null},
               book : Books \cup {Null}, lastTickTs : 0..MaxTs,
               startTs : 0..MaxTs, halted : BOOLEAN, closed : Trade \cup {Null}]

\* What an order promises of the position it is for.
Fits(e) ==
    e.order # Null =>
        /\ e.maker
        /\ e.order.purpose = "entry" => e.position = "flat" /\ e.order.price \in Prices
        /\ e.order.purpose = "exit" =>
              /\ e.position = IF e.order.side = "sell" THEN "long" ELSE "short"
              /\ e.order.price = TakeProfitPrice(e.position, e.entryPrice)

\* What a recorded trade earned, given what it is said to be closed for.
Earned(pnl, reason) ==
    /\ reason = "maker_target_profit" => pnl = Target
    /\ reason = "micro_stop_loss" => pnl <= -Stop
    /\ reason = "target_profit" => pnl >= Target

\* A short position is entered high enough for its take-profit to be a price.
HighEnough(position, price) == position = "short" => price > Target + MakerFee

\* The part of the invariant about the fields.
Sound(e) ==
    /\ e \in EngineType
    /\ e.position # "flat" \/ e.order # Null => e.book \in Books
    /\ HighEnough(e.position, e.entryPrice)
    /\ Fits(e)
    /\ e.closed # Null => Earned(e.closed.pnl, e.closed.reason)

\* What every operator of a handler keeps: handlers run only while not halted.
Good(e) == Sound(e) /\ e.halted = FALSE

\* The part that is broken between the operators of a handler and mended by it.
Covered(e) == e.maker /\ e.position # "flat" => e.order # Null

--------------------------------------------------------------------------------
(* Prices *)

LEMMA TakerPrices ==
    ASSUME NEW book \in Books
    PROVE  /\ TakerBuy(book) \in Nat
           /\ TakerSell(book) \in Nat
           /\ TakerSell(book) > 0 => TakerSell(book) > Target + MakerFee
<1>1. \A p \in Prices : p \in Nat /\ p > TakerCost + Target + 2 * MakerFee
  BY PriceMargin
<1>2. book.bid \in Prices \cup {0} /\ book.ask \in Prices \cup {0}
  BY DEF Books
<1>3. TakerBuy(book) \in Nat
  BY <1>1, <1>2, Costs DEF TakerBuy
<1>4. CASE book.bid = 0
  BY <1>3, <1>4, Costs DEF TakerSell
<1>5. CASE book.bid # 0
  <2>1. TakerSell(book) = book.bid - TakerCost
    BY <1>5 DEF TakerSell
  <2>2. book.bid \in Nat /\ book.bid > TakerCost + Target + 2 * MakerFee
    BY <1>1, <1>2, <1>5
  <2> QED BY <1>3, <2>1, <2>2, Costs
<1> QED BY <1>4, <1>5

LEMMA UnrealizedIsInt ==
    ASSUME NEW e \in EngineType, e.book \in Books
    PROVE  TakerExit(e) \in Int /\ Unrealized(e) \in Int
           /\ Unrealized(e) = Pnl(e.position, e.entryPrice, TakerExit(e))
<1>1. TakerExit(e) \in Int
  BY TakerPrices DEF TakerExit
<1>2. e.entryPrice \in Int
  BY DEF EngineType
<1> QED BY <1>1, <1>2 DEF Unrealized, Pnl

--------------------------------------------------------------------------------
(* The operators *)

\* Changing the position changes nothing else.
LEMMA OpenType ==
    ASSUME NEW e \in EngineType, NEW position \in {"flat", "long", "short"}, NEW price \in Nat,
           NEW ts \in 0..MaxTs
    PROVE  /\ Open(e, position, price, ts) \in EngineType
           /\ Open(e, position, price, ts).position = position
           /\ Open(e, position, price, ts).entryPrice = price
           /\ Open(e, position, price, ts).entryTs = ts
           /\ Open(e, position, price, ts).order = e.order
           /\ Open(e, position, price, ts).book = e.book
           /\ Open(e, position, price, ts).maker = e.maker
           /\ Open(e, position, price, ts).closed = e.closed
           /\ Open(e, position, price, ts).halted = e.halted
<1> DEFINE e1 == [e EXCEPT !.position = position]
           e2 == [e1 EXCEPT !.entryPrice = price]
           e3 == [e2 EXCEPT !.entryTs = ts]
<1>1. /\ e1 \in EngineType /\ e1.position = position
      /\ e1.order = e.order /\ e1.book = e.book /\ e1.maker = e.maker /\ e1.closed = e.closed
      /\ e1.halted = e.halted
  BY DEF EngineType
<1> HIDE DEF e1
<1>2. /\ e2 \in EngineType /\ e2.position = position /\ e2.entryPrice = price
      /\ e2.order = e.order /\ e2.book = e.book /\ e2.maker = e.maker /\ e2.closed = e.closed
      /\ e2.halted = e.halted
  BY <1>1 DEF EngineType
<1> HIDE DEF e2
<1>3. /\ e3 \in EngineType /\ e3.position = position /\ e3.entryPrice = price /\ e3.entryTs = ts
      /\ e3.order = e.order /\ e3.book = e.book /\ e3.maker = e.maker /\ e3.closed = e.closed
      /\ e3.halted = e.halted
  BY <1>2 DEF EngineType
<1>4. Open(e, position, price, ts) = e3
  BY DEF Open, e1, e2
<1> HIDE DEF e3
<1> QED BY <1>3, <1>4

\* Cancelling loses nothing but the order.
LEMMA CancelGood ==
    ASSUME NEW e, Good(e)
    PROVE  /\ Good(Cancel(e)) /\ Cancel(e).order = Null
           /\ Cancel(e).position = e.position /\ Cancel(e).entryPrice = e.entryPrice
           /\ Cancel(e).book = e.book /\ Cancel(e).maker = e.maker
           /\ Cancel(e).entryTs = e.entryTs
BY NullIsNoOrder DEF Good, Sound, Cancel, EngineType, Fits

\* A closed position leaves a trade that earned what its reason says.
LEMMA RecordCloseGood ==
    ASSUME NEW e, Good(e), e.order = Null, NEW price \in Int, NEW reason \in Reasons,
           Earned(Pnl(e.position, e.entryPrice, price), reason)
    PROVE  /\ Good(RecordClose(e, price, reason))
           /\ RecordClose(e, price, reason).position = "flat"
           /\ RecordClose(e, price, reason).order = Null
           /\ RecordClose(e, price, reason).book = e.book
           /\ RecordClose(e, price, reason).maker = e.maker
<1> DEFINE trade == [pnl |-> Pnl(e.position, e.entryPrice, price), reason |-> reason]
<1>1. Pnl(e.position, e.entryPrice, price) \in Int
  BY DEF Good, Sound, EngineType, Pnl
<1>2. trade \in Trade /\ Earned(trade.pnl, trade.reason)
  BY <1>1 DEF Trade, Reasons
<1> DEFINE flat == Open(e, "flat", 0, 0)
           c == [flat EXCEPT !.closed = trade]
<1>3. RecordClose(e, price, reason) = c
  BY DEF RecordClose, Open
<1> HIDE DEF trade
<1>4. /\ flat \in EngineType /\ flat.position = "flat" /\ flat.order = e.order
      /\ flat.book = e.book /\ flat.maker = e.maker /\ flat.halted = e.halted
  BY OpenType, Costs DEF Good, Sound
<1> HIDE DEF flat
<1>5. /\ c \in EngineType /\ c.position = "flat" /\ c.order = e.order /\ c.closed = trade
      /\ c.book = e.book /\ c.maker = e.maker /\ c.halted = e.halted
  BY <1>2, <1>4 DEF EngineType
<1> HIDE DEF c
<1>6. Good(c)
  BY <1>2, <1>5 DEF Good, Sound, HighEnough, Fits
<1> QED BY <1>3, <1>5, <1>6

LEMMA CloseTakerGood ==
    ASSUME NEW e, Good(e), NEW reason \in Reasons,
           e.position # "flat" => Earned(Unrealized(e), reason)
    PROVE  /\ Good(CloseTaker(e, reason)) /\ CloseTaker(e, reason).position = "flat"
           /\ e.order = Null => CloseTaker(e, reason).order = Null
           /\ CloseTaker(e, reason).book = e.book /\ CloseTaker(e, reason).maker = e.maker
<1>1. CASE e.position = "flat"
  BY <1>1 DEF CloseTaker
<1>2. CASE e.position # "flat"
  <2>1. /\ TakerExit(e) \in Int
        /\ Unrealized(e) = Pnl(e.position, e.entryPrice, TakerExit(e))
    BY <1>2, UnrealizedIsInt DEF Good, Sound
  <2>2. Earned(Pnl(Cancel(e).position, Cancel(e).entryPrice, TakerExit(e)), reason)
    BY <1>2, <2>1, CancelGood
  <2>3. CloseTaker(e, reason) = RecordClose(Cancel(e), TakerExit(e), reason)
    BY <1>2 DEF CloseTaker
  <2> QED BY <2>1, <2>2, <2>3, CancelGood, RecordCloseGood
<1> QED BY <1>1, <1>2

\* Forcing the engine flat leaves neither position nor order.
LEMMA ForceFlatGood ==
    ASSUME NEW e, Good(e),
           NEW reason \in {"latency_exceeded", "session_timeout", "spread_toxicity", "finalize"}
    PROVE  /\ Good(ForceFlat(e, reason)) /\ ForceFlat(e, reason).position = "flat"
           /\ ForceFlat(e, reason).order = Null
<1>1. Earned(Unrealized(Cancel(e)), reason)
  BY DEF Earned
<1> QED BY <1>1, CancelGood, CloseTakerGood DEF ForceFlat, Reasons

\* The take-profit of a position is always a price, and it is placed.
LEMMA PlaceExitGood ==
    ASSUME NEW e, Good(e), e.maker
    PROVE  /\ Good(PlaceExit(e)) /\ Covered(PlaceExit(e))
           /\ PlaceExit(e).position = e.position /\ PlaceExit(e).entryPrice = e.entryPrice
           /\ PlaceExit(e).book = e.book /\ PlaceExit(e).maker = e.maker
           /\ PlaceExit(e).entryTs = e.entryTs
<1>1. CASE e.position = "flat" \/ e.order # Null
  BY <1>1 DEF PlaceExit, Covered
<1>2. CASE e.position # "flat" /\ e.order = Null
  <2> DEFINE side == IF e.position = "long" THEN "sell" ELSE "buy"
             price == TakeProfitPrice(e.position, e.entryPrice)
             o == [side |-> side, price |-> price, purpose |-> "exit",
                   ahead |-> e.book.depth, placed |-> e.book.ts]
  <2>1. price \in Nat \ {0}
    BY <1>2, Costs DEF Good, Sound, HighEnough, EngineType, TakeProfitPrice
  <2>2. e.book.depth \in Nat /\ e.book.ts \in 1..MaxTs
    BY <1>2, Volumes DEF Good, Sound, Books
  <2>3. o \in Order /\ o # Null
    BY <2>1, <2>2, NullIsNoOrder DEF Order
  <2>4. PlaceExit(e) = [e EXCEPT !.order = o]
    BY <1>2, <2>1 DEF PlaceExit, Place
  <2>5. /\ o.purpose = "exit" /\ o.price = price
        /\ e.position = IF o.side = "sell" THEN "long" ELSE "short"
    BY <1>2 DEF Good, Sound, EngineType
  <2> HIDE DEF o
  <2> QED BY <1>2, <2>3, <2>4, <2>5 DEF Good, Sound, EngineType, Fits, Covered
<1> QED BY <1>1, <1>2

\* A position opened at a price is good, and a short one high enough.
LEMMA OpenGood ==
    ASSUME NEW e, Good(e), e.order = Null, e.book \in Books, NEW position \in {"long", "short"},
           NEW price \in Nat, HighEnough(position, price),
           NEW ts \in 1..MaxTs
    PROVE  /\ Good(Open(e, position, price, ts))
           /\ Open(e, position, price, ts).position = position
           /\ Open(e, position, price, ts).entryTs = ts
           /\ Open(e, position, price, ts).book = e.book
           /\ Open(e, position, price, ts).maker = e.maker
<1>1. ts \in 0..MaxTs
  BY Costs
<1>2. e \in EngineType
  BY DEF Good, Sound
<1>3. position \in {"flat", "long", "short"}
  OBVIOUS
<1>4. Open(e, position, price, ts) \in EngineType
  BY <1>1, <1>2, <1>3, OpenType
<1>5. Open(e, position, price, ts).position = position
  BY <1>1, <1>2, <1>3, OpenType
<1>6. Open(e, position, price, ts).entryTs = ts
  BY <1>1, <1>2, <1>3, OpenType
<1>7. Open(e, position, price, ts).entryPrice = price
  BY <1>1, <1>2, <1>3, OpenType
<1>8. Open(e, position, price, ts).order = e.order
  BY <1>1, <1>2, <1>3, OpenType
<1>9. Open(e, position, price, ts).book = e.book
  BY <1>1, <1>2, <1>3, OpenType
<1>10. Open(e, position, price, ts).maker = e.maker
  BY <1>1, <1>2, <1>3, OpenType
<1>11. Open(e, position, price, ts).closed = e.closed
  BY <1>1, <1>2, <1>3, OpenType
<1>12. Open(e, position, price, ts).halted = e.halted
  BY <1>1, <1>2, <1>3, OpenType
<1>13. Good(Open(e, position, price, ts))
  BY <1>4, <1>5, <1>7, <1>8, <1>9, <1>10, <1>11, <1>12 DEF Good, Sound, Fits
<1> QED BY <1>5, <1>6, <1>9, <1>10, <1>13

\* A maker's entry that fills opens a position with its exit.
LEMMA OpenWithExit ==
    ASSUME NEW e, Good(e), e.order = Null, e.book \in Books, e.maker,
           NEW position \in {"long", "short"},
           NEW price \in Nat, HighEnough(position, price),
           NEW ts \in 1..MaxTs
    PROVE  /\ Good(PlaceExit(Open(e, position, price, ts)))
           /\ Covered(PlaceExit(Open(e, position, price, ts)))
           /\ PlaceExit(Open(e, position, price, ts)).book = e.book
           /\ PlaceExit(Open(e, position, price, ts)).maker = e.maker
<1> DEFINE f == Open(e, position, price, ts)
<1>1. Good(f)
  BY OpenGood
<1>2. f.book = e.book
  BY OpenGood
<1>3. f.maker = e.maker
  BY OpenGood, ZenonT(60)
<1> HIDE DEF f
<1>4. Good(PlaceExit(f)) /\ Covered(PlaceExit(f))
  BY <1>1, <1>3, PlaceExitGood
<1>5. PlaceExit(f).book = f.book /\ PlaceExit(f).maker = f.maker
  BY <1>1, <1>3, PlaceExitGood
<1> QED BY <1>2, <1>3, <1>4, <1>5 DEF f

\* A fill closes for the target, net of the fee, or opens a covered position.
LEMMA FillGood ==
    ASSUME NEW e, Good(e), e.order # Null, NEW ts \in 1..MaxTs
    PROVE  /\ Good(Fill(e, ts)) /\ Covered(Fill(e, ts))
           /\ Fill(e, ts).book = e.book /\ Fill(e, ts).maker = e.maker
<1> DEFINE o == e.order
           price == MakerFill(o.side, o.price)
           c == Cancel(e)
<1>o. o \in Order /\ e.maker
  BY DEF Good, Sound, EngineType, Fits
<1>c. /\ Good(c) /\ c.order = Null /\ c.position = e.position /\ c.entryPrice = e.entryPrice
      /\ c.book = e.book /\ c.maker = e.maker
  BY CancelGood
<1>p. price \in Int
  BY <1>o, Costs DEF MakerFill, Order
<1>1. CASE o.purpose = "exit"
  <2>1. /\ e.position = IF o.side = "sell" THEN "long" ELSE "short"
        /\ o.price = TakeProfitPrice(e.position, e.entryPrice)
        /\ e.entryPrice \in Nat
    BY <1>1 DEF Good, Sound, Fits, EngineType
  <2>2. Pnl(e.position, e.entryPrice, price) = Target
    BY <1>o, <2>1, Costs DEF MakerFill, TakeProfitPrice, Pnl, Order
  <2>3. Earned(Pnl(c.position, c.entryPrice, price), "maker_target_profit")
    BY <1>c, <2>2 DEF Earned
  <2>4. Fill(e, ts) = RecordClose(c, price, "maker_target_profit")
    BY <1>1, <2>1 DEF Fill
  <2>5. "maker_target_profit" \in Reasons
    BY DEF Reasons
  <2> HIDE DEF c, price
  <2> QED BY <1>c, <1>p, <2>3, <2>4, <2>5, RecordCloseGood DEF Covered
<1>2. CASE o.purpose # "exit"
  <2> DEFINE pos == IF o.side = "buy" THEN "long" ELSE "short"
             opened == Open(c, pos, price, ts)
  <2>1. o.purpose = "entry" /\ o.price \in Prices /\ e.book \in Books
    BY <1>o, <1>2 DEF Order, Good, Sound, Fits
  <2>2. /\ price \in Nat
        /\ o.side = "sell" => price > Target + MakerFee
    BY <1>o, <2>1, Costs, PriceMargin DEF MakerFill, Order
  <2>3. Fill(e, ts) = PlaceExit(opened)
    BY <1>o, <1>2 DEF Fill
  <2>4. pos \in {"long", "short"} /\ (pos = "short" => o.side = "sell")
    BY <1>o DEF Order
  <2> HIDE DEF c, price, pos
  <2>5. /\ Good(c) /\ c.order = Null /\ c.book \in Books /\ c.maker
        /\ HighEnough(pos, price)
    BY <1>o, <1>c, <2>1, <2>2, <2>4 DEF HighEnough
  <2>6. price \in Nat /\ pos \in {"long", "short"}
    BY <2>2, <2>4
  <2>7. /\ Good(PlaceExit(opened)) /\ Covered(PlaceExit(opened))
        /\ PlaceExit(opened).book = c.book /\ PlaceExit(opened).maker = c.maker
    BY <2>5, <2>6, OpenWithExit
  <2> QED BY <1>c, <2>3, <2>7
<1> QED BY <1>1, <1>2

LEMMA PlaceEntryGood ==
    ASSUME NEW e, Good(e), e.maker, e.position = "flat", e.book \in Books,
           NEW side \in {"buy", "sell"}, NEW price \in Prices \cup {0}
    PROVE  /\ Good(Place(e, side, price, "entry"))
           /\ Place(e, side, price, "entry").position = "flat"
<1>1. CASE price = 0
  BY <1>1 DEF Place
<1>2. CASE price # 0
  <2> DEFINE o == [side |-> side, price |-> price, purpose |-> "entry",
                   ahead |-> e.book.depth, placed |-> e.book.ts]
  <2>1. price \in Prices /\ price \in Nat /\ price > 0
    BY <1>2, PriceMargin
  <2>2. e.book.depth \in Nat /\ e.book.ts \in 1..MaxTs
    BY Volumes DEF Books
  <2>3. o \in Order /\ o.purpose = "entry" /\ o.price = price
    BY <2>1, <2>2 DEF Order
  <2>4. Place(e, side, price, "entry") = [e EXCEPT !.order = o]
    BY <2>1 DEF Place
  <2> HIDE DEF o
  <2> QED BY <2>1, <2>3, <2>4 DEF Good, Sound, EngineType, Fits
<1> QED BY <1>1, <1>2

\* Past the check of stop and target a position is within its stop.
WithinStop(e) == e.position # "flat" => Unrealized(e) > -Stop

LEMMA StopOrTargetGood ==
    ASSUME NEW e, Good(e)
    PROVE  /\ Good(StopOrTarget(e)) /\ WithinStop(StopOrTarget(e))
           /\ Covered(e) => Covered(StopOrTarget(e))
           /\ StopOrTarget(e).book = e.book /\ StopOrTarget(e).maker = e.maker
<1>1. CASE e.position = "flat"
  BY <1>1 DEF StopOrTarget, WithinStop
<1>2. CASE e.position # "flat"
  <2>1. Unrealized(e) \in Int
    BY <1>2, UnrealizedIsInt DEF Good, Sound
  <2>2. CASE Unrealized(e) <= -Stop
    <3>1. Earned(Unrealized(e), "micro_stop_loss") /\ "micro_stop_loss" \in Reasons
      BY <2>2 DEF Earned, Reasons
    <3>2. StopOrTarget(e) = CloseTaker(e, "micro_stop_loss")
      BY <1>2, <2>2 DEF StopOrTarget
    <3> QED BY <3>1, <3>2, CloseTakerGood DEF WithinStop, Covered
  <2>3. CASE ~ (Unrealized(e) <= -Stop) /\ ~ e.maker /\ Unrealized(e) >= Target
    <3>1. Earned(Unrealized(e), "target_profit") /\ "target_profit" \in Reasons
      BY <2>3 DEF Earned, Reasons
    <3>2. StopOrTarget(e) = CloseTaker(e, "target_profit")
      BY <1>2, <2>3 DEF StopOrTarget
    <3> QED BY <3>1, <3>2, CloseTakerGood DEF WithinStop, Covered
  <2>4. CASE ~ (Unrealized(e) <= -Stop) /\ ~ (~ e.maker /\ Unrealized(e) >= Target)
    <3>1. StopOrTarget(e) = e
      BY <1>2, <2>4 DEF StopOrTarget
    <3>2. Unrealized(e) > -Stop
      BY <2>1, <2>4, Costs
    <3> QED BY <3>1, <3>2 DEF WithinStop
  <2> QED BY <2>2, <2>3, <2>4
<1> QED BY <1>1, <1>2

Ticks == [ts : 1..MaxTs, price : Prices, size : Sizes]

LEMMA SeeTickGood ==
    ASSUME NEW e, Good(e), NEW tick \in Ticks
    PROVE  /\ Good(SeeTick(e, tick)) /\ SeeTick(e, tick).startTs \in Nat
           /\ SeeTick(e, tick).position = e.position /\ SeeTick(e, tick).order = e.order
           /\ SeeTick(e, tick).book = e.book /\ SeeTick(e, tick).maker = e.maker
<1> DEFINE start == IF e.startTs = 0 THEN tick.ts ELSE e.startTs
           e1 == [e EXCEPT !.lastTickTs = tick.ts]
           e2 == [e1 EXCEPT !.startTs = start]
           e3 == [e2 EXCEPT !.closed = Null]
<1>0. e \in EngineType /\ tick.ts \in 0..MaxTs /\ start \in 0..MaxTs
  BY Costs DEF Good, Sound, EngineType, Ticks
<1>s. SeeTick(e, tick) = e3
  BY <1>0 DEF SeeTick, EngineType
<1> HIDE DEF start
<1>1. /\ e1 \in EngineType
      /\ e1.position = e.position /\ e1.entryPrice = e.entryPrice
      /\ e1.order = e.order /\ e1.book = e.book /\ e1.maker = e.maker
      /\ e1.halted = e.halted
  BY <1>0 DEF EngineType
<1> HIDE DEF e1
<1>2. /\ e2 \in EngineType /\ e2.startTs = start
      /\ e2.position = e.position /\ e2.entryPrice = e.entryPrice
      /\ e2.order = e.order /\ e2.book = e.book /\ e2.maker = e.maker
      /\ e2.halted = e.halted
  BY <1>0, <1>1 DEF EngineType
<1> HIDE DEF e2
<1>3. /\ e3 \in EngineType /\ e3.startTs = start /\ e3.closed = Null
      /\ e3.position = e.position /\ e3.entryPrice = e.entryPrice
      /\ e3.order = e.order /\ e3.book = e.book /\ e3.maker = e.maker
      /\ e3.halted = e.halted
  BY <1>2 DEF EngineType
<1> HIDE DEF e3
<1>4. Good(e3)
  BY <1>3 DEF Good, Sound, Fits
<1> QED BY <1>0, <1>s, <1>3, <1>4, Costs

\* Before and after the fill a maker's position has its exit.
LEMMA FillOnTickGood ==
    ASSUME NEW e, Good(e), Covered(e), NEW tick \in Ticks
    PROVE  Good(FillOnTick(e, tick)) /\ Covered(FillOnTick(e, tick))
<1> DEFINE o == e.order
           ahead == IF tick.price # o.price THEN o.ahead
                    ELSE IF tick.size >= o.ahead THEN 0 ELSE o.ahead - tick.size
           filled == Crossed(o, tick.price, tick.price) \/ (tick.price = o.price /\ ahead = 0)
<1>1. CASE o = Null
  BY <1>1 DEF FillOnTick
<1>2. CASE o # Null /\ filled
  <2>1. FillOnTick(e, tick) = Fill(e, tick.ts)
    BY <1>2 DEF FillOnTick
  <2> QED BY <1>2, <2>1, FillGood DEF Ticks
<1>3. CASE o # Null /\ ~ filled
  <2> DEFINE n == [o EXCEPT !.ahead = ahead]
  <2>1. FillOnTick(e, tick) = [e EXCEPT !.order = n]
    BY <1>3 DEF FillOnTick
  <2>2. o \in Order /\ tick.size \in Nat
    BY <1>3, Volumes DEF Good, Sound, EngineType, Ticks
  <2>3. ahead \in Nat
    BY <2>2 DEF Order
  <2> HIDE DEF ahead
  <2>4. /\ n \in Order /\ n.side = o.side /\ n.purpose = o.purpose /\ n.price = o.price
    BY <2>2, <2>3 DEF Order
  <2> HIDE DEF n
  <2> QED BY <1>3, <2>1, <2>4, NullIsNoOrder DEF Good, Sound, EngineType, Fits, Covered
<1> QED BY <1>1, <1>2, <1>3

--------------------------------------------------------------------------------
(* The operators of a quote *)

LEMMA SeeBookGood ==
    ASSUME NEW e, Good(e), NEW book \in Books
    PROVE  /\ Good(SeeBook(e, book)) /\ SeeBook(e, book).book = book
           /\ Covered(e) => Covered(SeeBook(e, book))
           /\ SeeBook(e, book).maker = e.maker
<1> DEFINE e1 == [e EXCEPT !.book = book]
           e2 == [e1 EXCEPT !.closed = Null]
<1>1. /\ e1 \in EngineType /\ e1.book = book
      /\ e1.position = e.position /\ e1.entryPrice = e.entryPrice
      /\ e1.order = e.order /\ e1.maker = e.maker /\ e1.halted = e.halted
  BY DEF Good, Sound, EngineType
<1>s. SeeBook(e, book) = e2
  BY DEF SeeBook
<1> HIDE DEF e1
<1>2. /\ e2 \in EngineType /\ e2.book = book /\ e2.closed = Null
      /\ e2.position = e.position /\ e2.entryPrice = e.entryPrice
      /\ e2.order = e.order /\ e2.maker = e.maker /\ e2.halted = e.halted
  BY <1>1 DEF EngineType
<1> HIDE DEF e2
<1> QED BY <1>s, <1>2 DEF Good, Sound, Fits, Covered

LEMMA CancelAdverseGood ==
    ASSUME NEW e, Good(e), Covered(e)
    PROVE  /\ Good(CancelAdverse(e)) /\ Covered(CancelAdverse(e))
           /\ CancelAdverse(e).book = e.book /\ CancelAdverse(e).maker = e.maker
<1>1. CASE CancelAdverse(e) = e
  BY <1>1
<1>2. CASE CancelAdverse(e) # e
  <2>1. CancelAdverse(e) = Cancel(e) /\ e.order # Null /\ e.order.purpose = "entry"
    BY <1>2 DEF CancelAdverse
  <2>2. e.position = "flat"
    BY <2>1 DEF Good, Sound, Fits
  <2> QED BY <2>1, <2>2, CancelGood DEF Covered
<1> QED BY <1>1, <1>2

LEMMA FillOnBookGood ==
    ASSUME NEW e, Good(e), Covered(e), e.book \in Books
    PROVE  /\ Good(FillOnBook(e))
           /\ FillOnBook(e).book = e.book /\ FillOnBook(e).maker = e.maker
<1>1. CASE e.order # Null /\ Crossed(e.order, e.book.ask, e.book.bid)
  <2>1. FillOnBook(e) = Fill(e, e.book.ts)
    BY <1>1 DEF FillOnBook
  <2>2. e.book.ts \in 1..MaxTs
    BY DEF Books
  <2> QED BY <1>1, <2>1, <2>2, FillGood
<1>2. CASE ~ (e.order # Null /\ Crossed(e.order, e.book.ask, e.book.bid))
  BY <1>2 DEF FillOnBook
<1> QED BY <1>1, <1>2

LEMMA ExpireGood ==
    ASSUME NEW e, Good(e)
    PROVE  Good(Expire(e)) /\ Expire(e).book = e.book /\ Expire(e).maker = e.maker
BY CancelGood DEF Expire

\* What StopHolds says of an engine.
StopKept(e) ==
    e.position # "flat" /\ HasPrice(e.book) =>
        \/ Unrealized(e) > -Stop
        \/ ~e.maker /\ e.entryTs = e.book.ts

\* A flat engine that enters rests an order, or opens a position on this quote.
LEMMA EnterGood ==
    ASSUME NEW e, Good(e), e.position = "flat", e.order = Null, e.book \in Books
    PROVE  Good(Enter(e)) /\ Covered(Enter(e)) /\ StopKept(Enter(e))
<1> DEFINE book == e.book
<1>b. /\ book.bid \in Prices \cup {0} /\ book.ask \in Prices \cup {0}
      /\ book.ts \in 1..MaxTs
  BY DEF Books
<1>1. CASE Enter(e) = e
  BY <1>1 DEF Covered, StopKept
<1>2. CASE e.maker /\ Enter(e) = Place(e, "buy", book.bid, "entry")
  BY <1>b, <1>2, PlaceEntryGood DEF Covered, StopKept
<1>3. CASE e.maker /\ Enter(e) = Place(e, "sell", book.ask, "entry")
  BY <1>b, <1>3, PlaceEntryGood DEF Covered, StopKept
<1>4. CASE ~ e.maker /\ Enter(e) = Open(e, "long", TakerBuy(book), book.ts)
  <2> DEFINE price == TakerBuy(book)
  <2>1. price \in Nat /\ HighEnough("long", price)
    BY TakerPrices DEF HighEnough
  <2> HIDE DEF price
  <2>2. Good(Open(e, "long", price, book.ts))
    BY <1>b, <2>1, OpenGood
  <2>3. Open(e, "long", price, book.ts).entryTs = book.ts
    BY <1>b, <2>1, OpenGood
  <2>4. /\ Open(e, "long", price, book.ts).book = book
    BY <1>b, <2>1, OpenGood
  <2>5. Open(e, "long", price, book.ts).maker = e.maker
    BY <1>b, <2>1, OpenGood
  <2>6. Enter(e) = Open(e, "long", price, book.ts)
    BY <1>4 DEF price
  <2> QED BY <1>4, <2>2, <2>3, <2>4, <2>5, <2>6 DEF Covered, StopKept
<1>5. CASE ~ e.maker /\ TakerSell(book) > 0
             /\ Enter(e) = Open(e, "short", TakerSell(book), book.ts)
  <2> DEFINE price == TakerSell(book)
  <2>1. price \in Nat /\ HighEnough("short", price)
    BY <1>5, TakerPrices DEF HighEnough
  <2> HIDE DEF price
  <2>2. Good(Open(e, "short", price, book.ts))
    BY <1>b, <2>1, OpenGood
  <2>3. Open(e, "short", price, book.ts).entryTs = book.ts
    BY <1>b, <2>1, OpenGood
  <2>4. /\ Open(e, "short", price, book.ts).book = book
    BY <1>b, <2>1, OpenGood
  <2>5. Open(e, "short", price, book.ts).maker = e.maker
    BY <1>b, <2>1, OpenGood
  <2>6. Enter(e) = Open(e, "short", price, book.ts)
    BY <1>5 DEF price
  <2> QED BY <1>5, <2>2, <2>3, <2>4, <2>5, <2>6 DEF Covered, StopKept
<1> QED
  <2>1. e.maker \in BOOLEAN
    BY DEF Good, Sound, EngineType
  <2> QED BY <1>1, <1>2, <1>3, <1>4, <1>5, <2>1 DEF Enter

--------------------------------------------------------------------------------
(* The handlers *)

\* What a handler leaves behind.
Kept(e) == /\ Sound(e) /\ Covered(e) /\ StopKept(e)
           /\ e.halted => e.position = "flat" /\ e.order = Null

\* The parts of the invariant: the engine, and the replay around it.
HftInv ==
    /\ Kept(engine)
    /\ now \in Nat /\ now >= 1
    /\ finalized \in BOOLEAN
    /\ jumped \in BOOLEAN

LEMMA HaltKept ==
    ASSUME NEW e, Good(e),
           NEW reason \in {"latency_exceeded", "session_timeout", "spread_toxicity"}
    PROVE  Kept([ForceFlat(e, reason) EXCEPT !.halted = TRUE])
<1> DEFINE f == ForceFlat(e, reason)
           h == [f EXCEPT !.halted = TRUE]
<1>1. Good(f) /\ f.position = "flat" /\ f.order = Null
  BY ForceFlatGood
<1> HIDE DEF f
<1>2. /\ h \in EngineType /\ h.position = "flat" /\ h.order = Null /\ h.closed = f.closed
  BY <1>1 DEF Good, Sound, EngineType
<1> HIDE DEF h
<1>3. Sound(h)
  BY <1>1, <1>2 DEF Good, Sound, HighEnough, Fits
<1>4. Kept(h)
  BY <1>2, <1>3 DEF Kept, Covered, StopKept
<1> QED BY <1>4 DEF h, f

LEMMA RunningGood ==
    ASSUME Kept(engine), ~ engine.halted
    PROVE  Good(engine) /\ Covered(engine)
BY DEF Kept, Good, Sound, EngineType

\* A trade that leaves the engine running.
LEMMA TickKept ==
    ASSUME NEW e, Good(e), Covered(e)
    PROVE  Kept(StopOrTarget(e))
<1> DEFINE s == StopOrTarget(e)
<1>1. Good(s) /\ WithinStop(s) /\ Covered(s)
  BY StopOrTargetGood
<1> HIDE DEF s
<1>2. Kept(s)
  BY <1>1 DEF Kept, Good, WithinStop, StopKept
<1> QED BY <1>2 DEF s

\* Renewing the exit moves neither the position nor the price it is marked at.
LEMMA RenewKept ==
    ASSUME NEW e, Good(e), WithinStop(e), e.maker
    PROVE  Kept(PlaceExit(e))
<1> DEFINE p == PlaceExit(e)
<1>1. /\ Good(p) /\ Covered(p) /\ p.position = e.position /\ p.entryPrice = e.entryPrice
      /\ p.book = e.book
  BY PlaceExitGood
<1> HIDE DEF p
<1>2. Unrealized(p) = Unrealized(e)
  BY <1>1 DEF Unrealized, TakerExit
<1>3. Kept(p)
  BY <1>1, <1>2 DEF Kept, Good, WithinStop, StopKept
<1> QED BY <1>3 DEF p

\* The last part of the handler of a quote: enter, or mind the position.
Settled(e) ==
    IF e.position = "flat"
    THEN IF e.order = Null THEN Enter(e) ELSE e
    ELSE IF e.maker THEN PlaceExit(StopOrTarget(e)) ELSE StopOrTarget(e)

LEMMA SettledKept ==
    ASSUME NEW e, Good(e), e.book \in Books
    PROVE  Kept(Settled(e))
<1> DEFINE closed == StopOrTarget(e)
<1>1. Good(closed) /\ WithinStop(closed) /\ closed.maker = e.maker
  BY StopOrTargetGood
<1> HIDE DEF closed
<1>2. CASE e.position = "flat" /\ e.order = Null
  <2>1. Kept(Enter(e))
    BY <1>2, EnterGood DEF Kept, Good
  <2> QED BY <1>2, <2>1 DEF Settled
<1>3. CASE e.position = "flat" /\ e.order # Null
  <2>1. Kept(e)
    BY <1>3 DEF Kept, Good, Covered, StopKept
  <2> QED BY <1>3, <2>1 DEF Settled
<1>4. CASE e.position # "flat" /\ e.maker
  <2>1. Kept(PlaceExit(closed))
    BY <1>1, <1>4, RenewKept
  <2> QED BY <1>4, <2>1 DEF Settled, closed
<1>5. CASE e.position # "flat" /\ ~ e.maker
  <2>1. Kept(closed)
    BY <1>1, <1>5 DEF Kept, Good, Covered, WithinStop, StopKept
  <2> QED BY <1>5, <2>1 DEF Settled, closed
<1> QED BY <1>2, <1>3, <1>4, <1>5

\* A quote that leaves the engine running.
LEMMA QuoteKept ==
    ASSUME NEW e0, Good(e0), Covered(e0), NEW book \in Books
    PROVE  Kept(Settled(Expire(FillOnBook(CancelAdverse(SeeBook(e0, book))))))
<1> DEFINE s == SeeBook(e0, book)
           a == CancelAdverse(s)
           f == FillOnBook(a)
           e == Expire(f)
<1>1. Good(s) /\ Covered(s) /\ s.book = book
  BY SeeBookGood
<1> HIDE DEF s
<1>2. Good(a) /\ Covered(a) /\ a.book = book
  BY <1>1, CancelAdverseGood
<1> HIDE DEF a
<1>3. Good(f) /\ f.book = book
  BY <1>2, FillOnBookGood
<1> HIDE DEF f
<1>4. Good(e) /\ e.book \in Books
  BY <1>3, ExpireGood
<1> HIDE DEF e
<1>5. Kept(Settled(e))
  BY <1>4, SettledKept
<1> QED BY <1>5 DEF e, f, a, s

LEMMA InitKept == HftInit => HftInv
<1> SUFFICES ASSUME HftInit PROVE HftInv
  OBVIOUS
<1>1. PICK maker \in BOOLEAN : engine = NewEngine(maker)
  BY DEF HftInit
<1>2. /\ engine \in EngineType /\ engine.position = "flat" /\ engine.order = Null
      /\ engine.closed = Null /\ ~ engine.halted
  BY <1>1, Costs DEF NewEngine, EngineType
<1>3. Kept(engine)
  BY <1>2 DEF Kept, Sound, HighEnough, Fits, Covered, StopKept
<1>4. now \in Nat /\ now >= 1
  BY DEF HftInit
<1>5. finalized \in BOOLEAN /\ jumped \in BOOLEAN
  BY Zenon DEF HftInit
<1> QED BY <1>3, <1>4, <1>5 DEF HftInv

LEMMA FinalizeKept == HftInv /\ Finalize => HftInv'
<1> SUFFICES ASSUME HftInv, Finalize PROVE HftInv'
  OBVIOUS
<1>1. CASE engine.position # "flat" /\ engine.lastTickTs > 0
  <2>1. Good(engine) /\ ~ engine.halted
    BY <1>1 DEF HftInv, Kept, Good, Sound, EngineType
  <2> DEFINE f == ForceFlat(engine, "finalize")
  <2>2. Good(f) /\ f.position = "flat" /\ f.order = Null
    BY <2>1, ForceFlatGood
  <2>3. engine' = f
    BY <1>1 DEF Finalize
  <2> HIDE DEF f
  <2>4. Kept(engine')
    BY <2>2, <2>3 DEF Kept, Good, Covered, StopKept
  <2> QED BY <2>4 DEF HftInv, Finalize
<1>2. CASE ~ (engine.position # "flat" /\ engine.lastTickTs > 0)
  <2>1. engine' = engine
    BY <1>2 DEF Finalize
  <2> QED BY <2>1 DEF HftInv, Finalize
<1> QED BY <1>1, <1>2

LEMMA OnTickKept ==
    ASSUME HftInv, NEW tick \in Ticks, HaltOnTick(tick) \/ OnTick(tick)
    PROVE  HftInv'
<1> DEFINE s == SeeTick(engine, tick)
           e == FillOnTick(s, tick)
<1>1. Live(tick.ts) /\ NotesJump(tick)
  BY DEF HaltOnTick, OnTick
<1>2. Good(engine) /\ Covered(engine)
  BY <1>1, RunningGood DEF HftInv, Live
<1>3. Good(s) /\ Covered(s)
  BY <1>2, SeeTickGood DEF Covered
<1> HIDE DEF s
<1>4. Good(e) /\ Covered(e)
  BY <1>3, FillOnTickGood
<1>5. Kept(engine')
  <2>1. CASE HaltOnTick(tick)
    <3>1. PICK late \in BOOLEAN :
             engine' = [ForceFlat(e, IF late THEN "latency_exceeded" ELSE "session_timeout")
                        EXCEPT !.halted = TRUE]
      BY <2>1 DEF HaltOnTick, s
    <3> HIDE DEF e
    <3> DEFINE reason == IF late THEN "latency_exceeded" ELSE "session_timeout"
    <3>2. reason \in {"latency_exceeded", "session_timeout", "spread_toxicity"}
      OBVIOUS
    <3>3. engine' = [ForceFlat(e, reason) EXCEPT !.halted = TRUE]
      BY <3>1
    <3> HIDE DEF reason
    <3> QED BY <1>4, <3>2, <3>3, HaltKept
  <2>2. CASE OnTick(tick)
    <3>1. engine' = StopOrTarget(e)
      BY <2>2 DEF OnTick, s
    <3> HIDE DEF e
    <3> QED BY <1>4, <3>1, TickKept
  <2> QED BY <2>1, <2>2
<1>6. jumped' \in BOOLEAN
  BY <1>1 DEF NotesJump
<1>7. now' \in Nat /\ now' >= 1 /\ finalized' \in BOOLEAN
  BY <1>1 DEF Live, HftInv, Ticks
<1> QED BY <1>5, <1>6, <1>7 DEF HftInv

LEMMA OnQuoteKept ==
    ASSUME HftInv, NEW book \in Books,
           HaltOnBook(book) \/ OnEmptyBook(book) \/ OnOrderBookUpdate(book)
    PROVE  HftInv'
<1>1. Live(book.ts) /\ UNCHANGED jumped
  BY DEF HaltOnBook, OnEmptyBook, OnOrderBookUpdate
<1>2. Good(engine) /\ Covered(engine)
  BY <1>1, RunningGood DEF HftInv, Live
<1> DEFINE s == SeeBook(engine, book)
<1>3. Good(s) /\ Covered(s) /\ s.book = book
  BY <1>2, SeeBookGood
<1>4. Kept(engine')
  <2>1. CASE HaltOnBook(book)
    <3>1. engine' = [ForceFlat(s, "spread_toxicity") EXCEPT !.halted = TRUE]
      BY <2>1 DEF HaltOnBook
    <3> HIDE DEF s
    <3> QED BY <1>3, <3>1, HaltKept
  <2>2. CASE OnEmptyBook(book)
    <3>1. engine' = s /\ book.bid = 0 /\ book.ask = 0
      BY <2>2 DEF OnEmptyBook
    <3> HIDE DEF s
    <3>2. Kept(s)
      BY <1>3, <3>1 DEF Kept, Good, StopKept, HasPrice
    <3> QED BY <3>1, <3>2
  <2>3. CASE OnOrderBookUpdate(book)
    <3>1. engine' = Settled(Expire(FillOnBook(CancelAdverse(SeeBook(engine, book)))))
      BY <2>3 DEF OnOrderBookUpdate, Settled
    <3> QED BY <1>2, <3>1, QuoteKept
  <2> QED BY <2>1, <2>2, <2>3
<1>5. now' \in Nat /\ now' >= 1 /\ finalized' \in BOOLEAN /\ jumped' \in BOOLEAN
  BY <1>1 DEF Live, HftInv, Books
<1> QED BY <1>4, <1>5 DEF HftInv

LEMMA NextKept == HftInv /\ [HftNext]_hftVars => HftInv'
<1> SUFFICES ASSUME HftInv, [HftNext]_hftVars PROVE HftInv'
  OBVIOUS
<1>1. CASE UNCHANGED hftVars
  BY <1>1 DEF hftVars, HftInv
<1>2. CASE Finalize
  BY <1>2, FinalizeKept
<1>3. ASSUME NEW ts \in Soon, NEW price \in Prices, NEW size \in Sizes,
             LET tick == [ts |-> ts, price |-> price, size |-> size] IN
             HaltOnTick(tick) \/ OnTick(tick)
      PROVE  HftInv'
  <2> DEFINE tick == [ts |-> ts, price |-> price, size |-> size]
  <2>1. ts \in 1..MaxTs
    BY Costs DEF Soon, HftInv
  <2>2. tick \in Ticks
    BY <2>1 DEF Ticks
  <2>3. HaltOnTick(tick) \/ OnTick(tick)
    BY <1>3
  <2> HIDE DEF tick
  <2> QED BY <2>2, <2>3, OnTickKept
<1>4. ASSUME NEW ts \in Soon, NEW bid \in Prices \cup {0}, NEW ask \in Prices \cup {0},
             NEW imbalance \in Imbalances, NEW depth \in Depths,
             LET book == [ts |-> ts, bid |-> bid, ask |-> ask,
                          imbalance |-> imbalance, depth |-> depth] IN
             HaltOnBook(book) \/ OnEmptyBook(book) \/ OnOrderBookUpdate(book)
      PROVE  HftInv'
  <2> DEFINE book == [ts |-> ts, bid |-> bid, ask |-> ask,
                      imbalance |-> imbalance, depth |-> depth]
  <2>1. ts \in 1..MaxTs
    BY Costs DEF Soon, HftInv
  <2>2. book \in Books
    BY <2>1 DEF Books
  <2>3. HaltOnBook(book) \/ OnEmptyBook(book) \/ OnOrderBookUpdate(book)
    BY <1>4
  <2> HIDE DEF book
  <2> QED BY <2>2, <2>3, OnQuoteKept
<1> QED BY <1>1, <1>2, <1>3, <1>4 DEF HftNext

LEMMA HftInductive == HftSpec => []HftInv
BY InitKept, NextKept, PTL DEF HftSpec

--------------------------------------------------------------------------------
(* The theorems *)

\* The fields keep their types: no order rests at price 0, no position is entered
\* below 0, and no clock passes the session's bound.
THEOREM HftTypeCorrect == HftSpec => []HftTypeOK
<1>1. HftInv => HftTypeOK
  BY DEF HftInv, Kept, Sound, EngineType, HftTypeOK
<1> QED BY <1>1, HftInductive, PTL

\* An engine that halted holds nothing and has nothing resting.
THEOREM HaltingFlattens == HftSpec => []HaltedIsFlat
<1>1. HftInv => HaltedIsFlat
  BY DEF HftInv, Kept, HaltedIsFlat
<1> QED BY <1>1, HftInductive, PTL

\* A resting order is for the position the engine has: an exit on its other side
\* at the price that nets the target, an entry with no position.
THEOREM OrdersFit == HftSpec => []OrderFitsPosition
<1>1. HftInv => OrderFitsPosition
  BY DEF HftInv, Kept, Sound, Fits, EngineType, Order, OrderFitsPosition
<1> QED BY <1>1, HftInductive, PTL

\* A maker's position always has its take-profit resting, although fills, expiry
\* and renewal take orders away in the middle of a handler.
THEOREM ExitsRest == HftSpec => []MakerHasExit
<1>1. HftInv => MakerHasExit
  BY DEF HftInv, Kept, Covered, Sound, Fits, EngineType, Order, MakerHasExit
<1> QED BY <1>1, HftInductive, PTL

\* No position that lost its stop at a priced quote survives the handler, but a
\* taker's on the quote it was opened at.
THEOREM StopsHold == HftSpec => []StopHolds
<1>1. HftInv => StopHolds
  BY DEF HftInv, Kept, StopKept, StopHolds
<1> QED BY <1>1, HftInductive, PTL

\* A trade earned what the reason of its close says, whatever the fees.
THEOREM TradesEarnTheirReason == HftSpec => []TradeMatchesReason
<1>1. HftInv => TradeMatchesReason
  BY DEF HftInv, Kept, Sound, Earned, TradeMatchesReason
<1> QED BY <1>1, HftInductive, PTL
================================================================================
