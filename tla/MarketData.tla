----------------------------- MODULE MarketData -----------------------------
(* fetchUniversePriceMatrix: the daily bars of each symbol are taken from the *)
(* shared table market_data_bars when it looks fresh and wide enough, else    *)
(* from a provider and written back in chunks; the series are then laid on    *)
(* one calendar, filled forward, trimmed and checked.  Requests run           *)
(* concurrently over the one table.  A series is the set of its days; a row   *)
(* of the table keeps the time it was fetched.                                *)
EXTENDS Integers, Sequences, FiniteSets, FiniteSetsExt

CONSTANTS
    Requests,      \* HTTP requests, one process each
    Universe,      \* the symbols in the order of the loop, benchmark included
    UsEquities,    \* isUsListedEquity; the others are indices or crypto
    Ranges,        \* <<period1, period2>> a request can ask for
    Intents,       \* intentClass of a request
    Absences,      \* sets of days a provider may have no bar for
    MaxAge,        \* 24 hours, in ticks
    MaxTime,       \* bound on the clock
    FloorBars,     \* 20 in the code
    ChunkDays      \* rows of a transaction: 200 in the code

Tickers == {Universe[i] : i \in 1..Len(Universe)}

ASSUME MarketAssumption ==
    /\ Len(Universe) \in Nat /\ UsEquities \subseteq Tickers
    /\ \A r \in Ranges : r[1] \in Nat \ {0} /\ r[2] \in Nat /\ r[1] < r[2]
    /\ MaxAge \in Nat /\ MaxTime \in Nat /\ FloorBars \in Nat /\ ChunkDays \in Nat \ {0}

VARIABLES
    fetchedAt,     \* market_data_bars: for a symbol and a day the time, or -1
    request, clock
marketVars == <<fetchedAt, request, clock>>

AllDays == UNION {r[1]..r[2] : r \in Ranges}
DaysIn(range) == range[1]..range[2]
MinBars(range) == Max({FloorBars, (Cardinality(DaysIn(range)) * 55) \div 100})

\* resolveHistoricalProvider
Provider(ticker, intent) ==
    IF intent = "HIGH_FREQUENCY_SCALPING"
       \/ (intent = "ALGORITHMIC_TRADING" /\ ticker \in UsEquities)
    THEN "alpaca" ELSE "yahoo"

\* Mutant: the rows of the ticker, whatever the range.
StoredAll(t, range) == {d \in AllDays : fetchedAt[t][d] >= 0}

Stored(t, range) == {d \in DaysIn(range) : fetchedAt[t][d] >= 0}
\* coversRange looks at the count and at the two ends.
CoversRange(days, range) == Cardinality(days) >= MinBars(range) /\ {range[1], range[2]} \subseteq days
IsFreshEnough(t, days) == days # {} /\ \A d \in days : clock - fetchedAt[t][d] <= MaxAge

(* price_matrix.ts, on the series of all tickers *)

Calendar(series) == UNION {series[t] : t \in Tickers}
\* Mutant: a day before the first bar takes the first bar.
AlignedBackfilled(days, d) ==
    LET past == {e \in days : e <= d}
    IN  IF days = {} THEN 0 ELSE IF past = {} THEN Min(days) ELSE Max(past)

\* alignSeriesToCalendar: the bar of the last day so far, or none (NaN).
Aligned(days, d) == LET past == {e \in days : e <= d} IN IF past = {} THEN 0 ELSE Max(past)
HasAll(series, d) == \A t \in Tickers : Aligned(series[t], d) # 0
\* trimMatrixToValidRange drops days from both ends only.
Trimmed(series) ==
    LET valid == {d \in Calendar(series) : HasAll(series, d)}
    IN  {d \in Calendar(series) : valid # {} /\ Min(valid) <= d /\ d <= Max(valid)}
PriceMatrix(series) ==
    [t \in Tickers |-> [d \in Trimmed(series) |-> Aligned(series[t], d)]]

NoSeries == [t \in Tickers |-> {}]
Idle == [pc |-> "idle", range |-> <<0, 0>>, intent |-> "none", next |-> 1, left |-> {},
         series |-> NoSeries, failed |-> FALSE, matrix |-> [t \in Tickers |-> [d \in {} |-> 0]]]
Ticker(r) == Universe[request[r].next]

MarketInit ==
    /\ fetchedAt = [t \in Tickers |-> [d \in AllDays |-> -1]]
    /\ request = [r \in Requests |-> Idle]
    /\ clock = 0

Step(r, q) == request' = [request EXCEPT ![r] = q]

Ask(r) ==
    /\ request[r].pc = "idle"
    /\ \E range \in Ranges, intent \in Intents :
          Step(r, [Idle EXCEPT !.pc = "load", !.range = range, !.intent = intent])
    /\ UNCHANGED <<fetchedAt, clock>>

Take(q, t, days) == [q EXCEPT !.pc = "load", !.next = @ + 1, !.series[t] = days, !.left = {}]

\* The ticker's rows are read and judged; a database error counts as no rows.
LoadBars(r) ==
    /\ request[r].pc = "load" /\ request[r].next <= Len(Universe)
    /\ LET days == Stored(Ticker(r), request[r].range) IN
       \/ /\ IsFreshEnough(Ticker(r), days) /\ CoversRange(days, request[r].range)
          /\ Step(r, Take(request[r], Ticker(r), days))
       \/ Step(r, [request[r] EXCEPT !.pc = "fetch"])
    /\ UNCHANGED <<fetchedAt, clock>>

\* fetchAlpacaHistoricalBars or Yahoo, all pages: the days they have of the range.
Downloaded(range, absent) == DaysIn(range) \ absent

\* A provider answers with the bars it has, or fails; Alpaca's failure falls
\* back to Yahoo except for the scalping intent.  Too few bars fail the ticker,
\* and the loop goes on with the next one.
FetchBars(r) ==
    /\ request[r].pc = "fetch"
    /\ \E up \in SUBSET {"alpaca", "yahoo"}, absent \in Absences :
          LET q == request[r]
              provider == Provider(Ticker(r), q.intent)
              answered == provider \in up
                          \/ (q.intent # "HIGH_FREQUENCY_SCALPING" /\ "yahoo" \in up)
              days == Downloaded(q.range, absent)
          IN  Step(r, IF answered /\ days # {} /\ Cardinality(days) >= MinBars(q.range)
                      THEN [q EXCEPT !.pc = "persist", !.left = days, !.series[Ticker(r)] = days]
                      ELSE [q EXCEPT !.pc = "load", !.next = @ + 1, !.failed = TRUE])
    /\ UNCHANGED <<fetchedAt, clock>>

NextChunk(left) == {d \in left : Cardinality({e \in left : e < d}) < ChunkDays}

\* One transaction of upserts in day order; an error ends the writing, not the
\* request.
PersistChunk(r) ==
    /\ request[r].pc = "persist" /\ request[r].left # {}
    /\ LET q == request[r]
           chunk == NextChunk(q.left)
       IN  \/ /\ fetchedAt' = [fetchedAt EXCEPT ![Ticker(r)] =
                     [d \in AllDays |-> IF d \in chunk THEN clock ELSE @[d]]]
              /\ Step(r, [q EXCEPT !.left = @ \ chunk])
           \/ Step(r, [q EXCEPT !.left = {}]) /\ UNCHANGED fetchedAt
    /\ UNCHANGED clock

Persisted(r) ==
    /\ request[r].pc = "persist" /\ request[r].left = {}
    /\ Step(r, Take(request[r], Ticker(r), request[r].series[Ticker(r)]))
    /\ UNCHANGED <<fetchedAt, clock>>

\* Any failed ticker fails the request; otherwise the matrix is built and must
\* be long enough.
BuildMatrix(r) ==
    /\ request[r].pc = "load" /\ request[r].next > Len(Universe)
    /\ LET q == request[r] IN
       Step(r, IF q.failed \/ Trimmed(q.series) = {} \/ Cardinality(Trimmed(q.series)) < MinBars(q.range)
               THEN [q EXCEPT !.pc = "refused"]
               ELSE [q EXCEPT !.pc = "served", !.matrix = PriceMatrix(q.series)])
    /\ UNCHANGED <<fetchedAt, clock>>

Tick == clock < MaxTime /\ clock' = clock + 1 /\ UNCHANGED <<fetchedAt, request>>

Handle(r) == LoadBars(r) \/ FetchBars(r) \/ PersistChunk(r) \/ Persisted(r) \/ BuildMatrix(r)
MarketNext == Tick \/ \E r \in Requests : Ask(r) \/ Handle(r)

MarketSpec == MarketInit /\ [][MarketNext]_marketVars

-----------------------------------------------------------------------------
\* Shape of the table and of the requests.
MarketTypeOK ==
    /\ fetchedAt \in [Tickers -> [AllDays -> -1..MaxTime]] /\ clock \in 0..MaxTime
    /\ \A r \in Requests :
          /\ request[r].pc \in {"idle", "load", "fetch", "persist", "served", "refused"}
          /\ request[r].next \in 1..(Len(Universe) + 1) /\ request[r].left \subseteq AllDays
          /\ \A t \in Tickers : request[r].series[t] \subseteq AllDays

\* A matrix that is served has a price of every symbol on every day, and that
\* price is the symbol's last one on or before the day, never a later one: the
\* engine can neither meet a gap nor look ahead, whatever days the providers or
\* a half-written table lack.
MatrixFillsForward ==
    \A r \in Requests : request[r].pc = "served" =>
        \A t \in Tickers : \A d \in DOMAIN request[r].matrix[t] :
            LET known == request[r].series[t]
                from == request[r].matrix[t][d]
            IN  from \in known /\ from <= d /\ known \cap (from + 1)..d = {}

\* What a request is served lies in the range it asked for, is long enough and
\* reaches over both ends of the shortest series, although its series come from
\* rows that other requests wrote for other ranges.
ServedSpansRequest ==
    \A r \in Requests : request[r].pc = "served" =>
        \A t \in Tickers :
            LET q == request[r] days == DOMAIN q.matrix[t] IN
            /\ days \subseteq DaysIn(q.range) /\ Cardinality(days) >= MinBars(q.range)
            /\ Cardinality(q.series[t]) >= MinBars(q.range)
            /\ q.series[t] \ days \subseteq {d \in DaysIn(q.range) : \E s \in Tickers : d < Min(q.series[s])}
=============================================================================
