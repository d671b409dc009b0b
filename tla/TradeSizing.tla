----------------------------- MODULE TradeSizing -----------------------------
(* The amount of a trade on its way from a proposal to the keeper:           *)
(* proposeExecution guards and sizes it from the vault's balance, a widget    *)
(* shows it as a decimal the user may edit, the execute route merges what     *)
(* the widget sends into the row, and buildWeb3SubmissionPayload turns the    *)
(* row into a call of the vault, at the confirmation and again at the sweep.  *)
(* A confirmation, by the route or by the executeTrade tool, reads the draft,  *)
(* awaits the building and writes the row by its id alone, so that several    *)
(* may hold the draft at once: that of the widget "here" and those made       *)
(* elsewhere, in another tab, on a connection that was lost or by the model.  *)
(* An amount is in raw units of USDC; a typed text is a record of its whole   *)
(* part, its decimals and whether it has a point.  The keeper is real: in mock  *)
(* mode nothing is built and the amount is never used.                        *)
EXTENDS Integers, Sequences, TLC

CONSTANTS
    Sites,         \* deployments: [weth, primary, mock : BOOLEAN, rwa : set of
                   \* symbols, listed : set of routers, drawdown : action]
    Crypto,        \* isCryptoTicker of afx-market-routing.ts
    Strategies,    \* what the model proposes, see GuardAccepts and Slice
    Funds,         \* USDC a vault can hold, -1 where the user has none
    Quotes,        \* amounts QuoterV2 can answer, 0 for none
    Texts,         \* what a user types, [whole, decimals, point] or Garbage
    Garbage,
    Decimals,      \* 6 in the code
    ReferenceNav, DrawdownLimit, MakerFee, TakerFee,
    Elsewhere,     \* confirmations from other tabs and of the model
    Nil

Unit == 10^Decimals      \* one USDC; also MIN_TRADE_USDC_RAW
Place == [i \in 0..Decimals |-> 10^(Decimals - i)]   \* what the i-th decimal counts for
Unknown == -1            \* a number the strategy does not give

ASSUME SizingAssumption ==
    /\ Decimals \in Nat \ {0} /\ ReferenceNav \in Nat /\ Funds \subseteq Nat \cup {-1}
    /\ Quotes \subseteq Nat /\ MakerFee \in Nat /\ TakerFee \in Nat
    /\ \A s \in Strategies : s.trades \in Int
    \* Powers of ten, of which the provers know nothing.
    /\ \A i \in 0..Decimals : Place[i] \in Nat \ {0}
    /\ Place[0] = Unit /\ Place[Decimals] = 1
    /\ \A i \in 1..Decimals : Place[i - 1] = 10 * Place[i]

VARIABLES
    site,
    funds,         \* USDC of the user's ACTIVE vault
    row,           \* the execution_logs row and the proposal it was made from
    widget,        \* ProposeExecutionWidget; typed says the text is the user's,
                   \* get holds its fetch, Nil until the server has answered
    post,          \* the widget's confirmation on its way to the route
    flight,        \* [Confirmers -> the sizing a confirmation that found the
                   \* draft is going to write, Nil for none]
    sent,          \* the row in the keeper's hands: its sizing as it was read,
                   \* which confirmation had written it, and the call built of it
    \* History, in terms of what confirmations ask for.
    firstAsked, lastAsked,  \* the first and the last one written
    contested      \* whether two held the draft at once
history == <<firstAsked, lastAsked, contested>>
sizingVars == <<site, funds, row, widget, post, flight, sent, history>>

Confirmers == {"here"} \cup Elsewhere

Primary == {"PRIMARY_MINT_BURN", "PRIMARY_RFQ_ATOMIC"}
Routings == Primary \cup {"SECONDARY_AMM"}

(* Guard and sizing of a proposal *)

RoundTrip(s) == IF s.maker THEN 2 * MakerFee ELSE s.spread + 2 * s.slippage + 2 * TakerFee

\* validateHFTExecution: never on a primary market, and with an edge.
HftAccepts(s, routing) ==
    /\ routing = "SECONDARY_AMM"
    /\ Unknown \in {s.spread, s.profit}
       \/ IF s.slippage = Unknown THEN s.spread < s.profit ELSE 2 * s.profit > 3 * RoundTrip(s)

GuardAccepts(s, routing) ==
    IF s.intent = "HIGH_FREQUENCY_SCALPING" THEN HftAccepts(s, routing)
    ELSE ~s.poorSharpe /\ (s.drawdown <= DrawdownLimit \/ site.drawdown # "reject")

SliceBps(s) == CASE s.freq = "QUARTERLY" -> 2500 [] s.freq = "MONTHLY" -> 1500 [] OTHER -> 1000
AtLeastUnit(x) == IF x < Unit THEN Unit ELSE x
\* Mutant: the minimum trade is not capped by the balance.
DeriveAmountUncapped(s) ==
    IF funds > 0 THEN AtLeastUnit((funds * SliceBps(s)) \div 10000)
    ELSE IF s.trades > 0 THEN s.trades
    ELSE AtLeastUnit((ReferenceNav * SliceBps(s)) \div 10000)

\* deriveAmountInFromStrategy; no vault and an unreadable one count as empty.
DeriveAmount(s) ==
    LET slice == AtLeastUnit((funds * SliceBps(s)) \div 10000)
    IN  IF funds > 0 THEN IF slice > funds THEN funds ELSE slice
        ELSE IF s.trades > 0 THEN s.trades
        ELSE AtLeastUnit((ReferenceNav * SliceBps(s)) \div 10000)

UsePrimary(s, routing) == routing \in Primary \/ (s.symbol \notin Crypto /\ routing # "SECONDARY_AMM")

\* computeExecutionSizing, or Nil where it throws.
ComputeSizing(s, routing) ==
    LET sizing(out, kind, fee) == [amount |-> DeriveAmount(s), mode |-> routing, confirmed |-> FALSE,
                                   out |-> out, kind |-> kind, fee |-> fee]
    IN  IF UsePrimary(s, routing)
        THEN IF s.symbol \in site.rwa \ Crypto /\ site.primary THEN sizing(s.symbol, "primary_mint", 0) ELSE Nil
        ELSE IF site.weth THEN sizing("WETH", "uniswap_v3", 3000) ELSE Nil

(* Texts *)

Digit(n, i) == (n \div Place[i]) % 10
StripZeros(digits) ==
    LET used == {i \in 1..Len(digits) : digits[i] # 0}
    IN  IF used = {} THEN <<>>
        ELSE SubSeq(digits, 1, CHOOSE i \in used : \A j \in used : j <= i)

RawToDisplay(raw) ==
    LET digits == StripZeros([i \in 1..Decimals |-> Digit(raw % Unit, i)])
    IN  [whole |-> raw \div Unit, decimals |-> digits, point |-> digits # <<>>]

\* The value of a text in raw units: an exact decimal.
DecimalAt(text, i) == IF i <= Len(text.decimals) THEN text.decimals[i] ELSE 0
Value(text) ==
    LET part[i \in 0..Decimals] ==
            IF i = 0 THEN 0 ELSE part[i - 1] + DecimalAt(text, i) * Place[i]
    IN  text.whole * Unit + part[Decimals]
DisplayToRaw(text) ==
    IF text = Garbage THEN 0 ELSE IF Len(text.decimals) > Decimals THEN 0 ELSE Value(text)

\* amountRaw.toString()
Plain(raw) == [whole |-> raw, decimals |-> <<>>, point |-> FALSE]
\* parseAmountInRaw, else displayUsdcToRaw: a text of digits only is raw units.
MergedAmount(text) ==
    IF text # Garbage /\ ~text.point /\ text.whole > 0 THEN text.whole ELSE DisplayToRaw(text)

(* The keeper's call *)

ApplySlippage(out, bps) == (out * (10000 - bps)) \div 10000
Call(sizing, router, quoted, bps) ==
    [amount |-> sizing.amount, out |-> sizing.out, router |-> router,
     least |-> ApplySlippage(quoted, bps), quoted |-> quoted]
\* What resolveAmountOutMinimum is told: nothing on a mock router, else an
\* answer of QuoterV2 that is not zero; without one building fails.
Quoted == IF site.mock THEN {0} ELSE Quotes \ {0}
\* buildWeb3SubmissionPayload after requireExecutionSizingFromPayload: the calls
\* it can return, none where it returns an error.
Built(sizing) ==
    IF funds = -1 \/ sizing.amount <= 0 THEN {}
    ELSE IF sizing.kind = "primary_mint" \/ sizing.mode \in Primary
    THEN IF "primary" \in site.listed
         THEN {Call(sizing, "primary", sizing.amount, IF sizing.mode = "PRIMARY_RFQ_ATOMIC" THEN 80 ELSE 50)}
         ELSE {}
    ELSE IF "dex" \notin site.listed \/ sizing.fee = 0 THEN {}
    ELSE {Call(sizing, "dex", quote, 50) : quote \in Quoted}

Closed == [open |-> FALSE, meta |-> Nil, text |-> Plain(0), typed |-> FALSE, busy |-> FALSE, get |-> <<>>]

SizingInit ==
    /\ site \in Sites /\ funds \in Funds
    /\ row = [status |-> "none", sizing |-> Nil, proposed |-> Nil]
    /\ widget = Closed /\ post = Nil /\ flight = [c \in Confirmers |-> Nil] /\ sent = Nil
    /\ firstAsked = Nil /\ lastAsked = Nil /\ contested = FALSE

ProposeExecution(s, routing) ==
    LET sizing == ComputeSizing(s, routing) IN
    /\ row.status = "none"
    /\ GuardAccepts(s, routing) /\ sizing # Nil
    /\ row' = [status |-> "DRAFT", sizing |-> sizing,
               proposed |-> [intent |-> s.intent, sizing |-> sizing, funds |-> funds]]
    /\ UNCHANGED <<site, funds, widget, post, flight, sent, history>>

\* Deposits, withdrawals, trades and the vault's registration.
FundsMove ==
    /\ \E f \in Funds : funds' = f
    /\ UNCHANGED <<site, row, widget, post, flight, sent, history>>

\* The effect of the widget: the amount follows the sizing it is given.
Shows(sizing) == [widget EXCEPT !.open = TRUE, !.meta = sizing, !.text = RawToDisplay(sizing.amount),
                                  !.typed = FALSE]

\* In the chat the sizing comes with the proposal, and again whenever the
\* message is rendered from a new object, over what was typed.
ShowProposal ==
    /\ row.status # "none" /\ widget.get = <<>>
    /\ widget' = Shows(row.proposed.sizing)
    /\ UNCHANGED <<site, funds, row, post, flight, sent, history>>

\* On a report page the row is fetched.
OpenReport ==
    /\ row.status # "none" /\ ~widget.open
    /\ widget' = [Closed EXCEPT !.open = TRUE, !.get = <<Nil>>]
    /\ UNCHANGED <<site, funds, row, post, flight, sent, history>>
FetchAnswered ==
    /\ widget.get = <<Nil>>
    /\ widget' = [widget EXCEPT !.get = <<row.sizing>>]
    /\ UNCHANGED <<site, funds, row, post, flight, sent, history>>
FetchArrives ==
    /\ widget.get \notin {<<>>, <<Nil>>}
    /\ widget' = [Shows(widget.get[1]) EXCEPT !.get = <<>>]
    /\ UNCHANGED <<site, funds, row, post, flight, sent, history>>

Type(text) ==
    /\ widget.open /\ widget.text # text
    /\ widget' = [widget EXCEPT !.text = text, !.typed = TRUE]
    /\ UNCHANGED <<site, funds, row, post, flight, sent, history>>

\* What a confirmation sends of a text on screen; asks is history.
Body(text, typed, meta) ==
    [amount |-> Plain(DisplayToRaw(text)), out |-> meta.out, fee |-> meta.fee,
     asks |-> [amount |-> Value(text), typed |-> typed]]

Confirm ==
    /\ widget.open /\ widget.meta # Nil /\ ~widget.busy
    /\ DisplayToRaw(widget.text) > 0
    /\ post' = Body(widget.text, widget.typed, widget.meta)
    /\ widget' = [widget EXCEPT !.busy = TRUE]
    /\ UNCHANGED <<site, funds, row, flight, sent, history>>

MergeSizing(old, p) ==
    [old EXCEPT !.amount = MergedAmount(p.amount), !.out = p.out, !.fee = p.fee, !.confirmed = TRUE]

\* A confirmation that finds the draft keeps the sizing it makes of it.
Finds(c, sizing, asks) ==
    /\ flight[c] = Nil
    /\ flight' = [flight EXCEPT ![c] = [sizing |-> sizing, asks |-> asks]]
    /\ contested' = (contested \/ \E d \in Confirmers : flight[d] # Nil)
    /\ UNCHANGED <<site, funds, row, sent, firstAsked, lastAsked>>

\* The answer sets tx to the hash, which is null when the keeper is real: the
\* button is there again, and a second click finds no DRAFT.
Answers(c) == widget' = IF c = "here" THEN [widget EXCEPT !.busy = FALSE] ELSE widget

\* Mutant of RouteReads: the row is looked up by its id alone.
RouteReadsAnyStatus ==
    /\ post # Nil /\ post' = Nil
    /\ flight' = [flight EXCEPT !["here"] = [sizing |-> MergeSizing(row.sizing, post), asks |-> post.asks]]
    /\ contested' = (contested \/ \E d \in Confirmers : flight[d] # Nil)
    /\ UNCHANGED <<site, funds, row, widget, sent, firstAsked, lastAsked>>

\* The execute route, up to the building.
RouteReads ==
    /\ post # Nil /\ post' = Nil
    /\ LET merged == MergeSizing(row.sizing, post) IN
       IF row.status = "DRAFT" /\ merged.amount > 0
       THEN Finds("here", merged, post.asks) /\ UNCHANGED widget
       ELSE Answers("here") /\ UNCHANGED <<site, funds, row, flight, sent, history>>

\* The same for a click elsewhere, on the proposal or on a text typed there.
OtherRouteReads(c) ==
    /\ row.status = "DRAFT"
    /\ \E typed \in BOOLEAN :
       \E text \in (IF typed THEN Texts ELSE {RawToDisplay(row.proposed.sizing.amount)}) :
          LET body == Body(text, typed, row.proposed.sizing)
              merged == MergeSizing(row.sizing, body)
          IN  DisplayToRaw(text) > 0 /\ merged.amount > 0 /\ Finds(c, merged, body.asks)
    /\ UNCHANGED <<widget, post>>

\* executeTrade: the model's payload is spread over the row's, and may bring a
\* sizing of its own.
ToolReads(c) ==
    /\ row.status = "DRAFT"
    /\ \E amount \in {row.sizing.amount} \cup Quotes :
          Finds(c, [row.sizing EXCEPT !.amount = amount],
                [amount |-> amount, typed |-> amount # row.sizing.amount])
    /\ UNCHANGED <<widget, post>>

\* The call can be built and the row is written, whatever it is by now.
ConfirmationWrites(c) ==
    /\ flight[c] # Nil /\ Built(flight[c].sizing) # {}
    /\ row' = [row EXCEPT !.status = "SUBMITTED", !.sizing = flight[c].sizing]
    /\ lastAsked' = flight[c].asks
    /\ firstAsked' = IF firstAsked = Nil THEN flight[c].asks ELSE firstAsked
    /\ flight' = [flight EXCEPT ![c] = Nil] /\ Answers(c)
    /\ UNCHANGED <<site, funds, post, sent, contested>>

\* It cannot, or the request fails: nothing is written.
ConfirmationFails(c) ==
    /\ flight[c] # Nil
    /\ flight' = [flight EXCEPT ![c] = Nil] /\ Answers(c)
    /\ UNCHANGED <<site, funds, row, post, sent, history>>

\* The sweep reads its batch, and later builds the call of the row again, as
\* it was read but with the quote of that moment.
SweepReads ==
    /\ row.status = "SUBMITTED" /\ sent = Nil
    /\ sent' = [built |-> FALSE, sizing |-> row.sizing, by |-> lastAsked, call |-> Nil]
    /\ UNCHANGED <<site, funds, row, widget, post, flight, history>>

Sweep ==
    /\ sent # Nil /\ ~sent.built
    /\ \E call \in (IF Built(sent.sizing) = {} THEN {Nil} ELSE Built(sent.sizing)) :
          sent' = [built |-> TRUE, sizing |-> sent.sizing, by |-> sent.by, call |-> call]
    /\ UNCHANGED <<site, funds, row, widget, post, flight, history>>

\* And writes the status when it knows, by the id alone too.
Settle ==
    /\ sent # Nil /\ sent.built /\ sent' = Nil
    /\ \E status \in {"CONFIRMED", "FAILED"} :
          /\ sent.call = Nil => status = "FAILED"
          /\ row' = [row EXCEPT !.status = status]
    /\ UNCHANGED <<site, funds, widget, post, flight, history>>

SizingNext ==
    \/ \E s \in Strategies, routing \in Routings : ProposeExecution(s, routing)
    \/ \E text \in Texts : Type(text)
    \/ \E c \in Elsewhere : OtherRouteReads(c) \/ ToolReads(c)
    \/ \E c \in Confirmers : ConfirmationWrites(c) \/ ConfirmationFails(c)
    \/ FundsMove \/ ShowProposal \/ OpenReport \/ FetchAnswered \/ FetchArrives
    \/ Confirm \/ RouteReads \/ SweepReads \/ Sweep \/ Settle
SizingSpec == SizingInit /\ [][SizingNext]_sizingVars

-----------------------------------------------------------------------------
\* What a proposal suggests can be paid by the vault it was sized on, at any
\* balance down to the last unit, and a scalping strategy is never sized for a
\* primary market, whatever routing the model names.
ProposalFits ==
    row.status # "none" =>
        LET p == row.proposed IN
        /\ p.sizing.amount > 0
        /\ p.funds > 0 => p.sizing.amount <= p.funds
        /\ p.intent = "HIGH_FREQUENCY_SCALPING" => p.sizing.kind = "uniswap_v3"

\* The keeper trades, whole, what one confirmation asked for, the last one
\* written when it read the row: the amount in the input at the click or the
\* tool's, the proposed one unless it was edited, for the token and on the market
\* that were proposed, through the conversions to a text and back, the merge into
\* a row read earlier, late answers that rewrite the input and the second
\* building of the call.  Unless two confirmations held the draft at once, it is
\* the first that was answered: no second click and no late tool call replaces it.
ConfirmedIsTraded ==
    sent # Nil /\ sent.call # Nil =>
        /\ sent.call.amount = sent.by.amount
        /\ ~sent.by.typed => sent.call.amount = row.proposed.sizing.amount
        /\ sent.call.out = row.proposed.sizing.out
        /\ sent.call.router = (IF row.proposed.sizing.kind = "primary_mint" THEN "primary" ELSE "dex")
        /\ ~contested => sent.by = firstAsked
=============================================================================
