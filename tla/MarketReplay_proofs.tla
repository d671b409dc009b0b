--------------------------- MODULE MarketReplay_proofs ---------------------------
(***************************************************************************)
(* Proofs about the two consumers of market data: MarketData, for any      *)
(* universe, ranges, providers' holes and concurrent requests, and         *)
(* TickReplay, for any windows, page limits and failures of a page.        *)
(***************************************************************************)
EXTENDS MarketData, TickReplay, FiniteSetTheorems, SequenceTheorems, WellFoundedInduction, TLAPS

(* Least and greatest elements *)

\* Some set of a family of subsets of a finite set has no proper subset in it.
LEMMA SmallestSet ==
    ASSUME NEW S, IsFiniteSet(S), NEW T, T \subseteq SUBSET S, T # {}
    PROVE  \E x \in T : \A y \in T : ~ (y \subseteq x /\ y # x)
<1>1. T \subseteq FiniteSubsetsOf(S)
  BY FS_Subset DEF FiniteSubsetsOf
<1>2. \E x \in T : \A y \in T : ~ (<<y, x>> \in StrictSubsetOrdering(S))
  BY <1>1, FS_StrictSubsetOrderingWellFounded, WFMin
<1>3. \A x, y \in T : y \subseteq x /\ y # x => <<y, x>> \in StrictSubsetOrdering(S)
  BY DEF StrictSubsetOrdering
<1> QED BY <1>2, <1>3

LEMMA LeastNat == ASSUME NEW T, T \subseteq Nat, T # {} PROVE \E n \in T : \A m \in T : n <= m
<1>1. PICK n \in T : TRUE
  OBVIOUS
<1> DEFINE N == 0..n
           U == {0..m : m \in {k \in T : k <= n}}
<1>2. U \subseteq SUBSET N /\ U # {}
  BY <1>1
<1>8. IsFiniteSet(N)
  BY FS_Interval
<1>3. \A x \in U : \E m \in T : m <= n /\ x = 0..m
  OBVIOUS
<1>4. \A k \in T : k <= n => 0..k \in U
  OBVIOUS
<1> HIDE DEF U, N
<1>5. PICK x \in U : \A y \in U : ~ (y \subseteq x /\ y # x)
  BY <1>2, <1>8, SmallestSet
<1>6. PICK m \in T : m <= n /\ x = 0..m
  BY <1>3
<1>7. \A k \in T : m <= k
  <2> SUFFICES ASSUME NEW k \in T, k < m PROVE FALSE
    OBVIOUS
  <2>1. 0..k \in U /\ 0..k \subseteq 0..m /\ m \notin 0..k /\ m \in 0..m
    BY <1>4, <1>6
  <2> QED BY <1>5, <1>6, <2>1
<1> QED BY <1>7

LEMMA MinIs ==
    ASSUME NEW T, T \subseteq Nat, T # {}
    PROVE  Min(T) \in T /\ \A m \in T : Min(T) <= m
BY LeastNat DEF Min

LEMMA MaxIs ==
    ASSUME NEW T, NEW top \in Nat, T \subseteq 0..top, T # {}
    PROVE  Max(T) \in T /\ \A m \in T : m <= Max(T)
<1> DEFINE U == {top - m : m \in T}
<1>0. \A m \in T : m \in Nat /\ m <= top
  OBVIOUS
<1>1. U \subseteq Nat /\ U # {}
  <2>1. \A m \in T : top - m \in Nat
    BY <1>0
  <2> QED BY <2>1
<1> HIDE DEF U
<1>2. PICK n \in U : \A m \in U : n <= m
  BY <1>1, LeastNat
<1>3. PICK x \in T : n = top - x
  BY DEF U
<1>4. \A m \in T : x >= m
  <2> TAKE m \in T
  <2>1. top - m \in U
    BY DEF U
  <2> QED BY <1>0, <1>2, <1>3, <2>1
<1>5. Max(T) \in T /\ \A m \in T : Max(T) >= m
  BY <1>4 DEF Max
<1> QED BY <1>0, <1>5

--------------------------------------------------------------------------------
(* Matrices *)

LEMMA Days ==
    ASSUME NEW range \in Ranges
    PROVE  DaysIn(range) \subseteq AllDays /\ DaysIn(range) \subseteq 1..range[2] /\ range[2] \in Nat
BY MarketAssumption DEF AllDays, DaysIn

\* The days of a request's series: positive and bounded.
SeriesIn(series, top) == \A t \in Tickers : series[t] \subseteq 1..top

\* What alignSeriesToCalendar lays on a day: the last bar so far.
LEMMA AlignedIs ==
    ASSUME NEW top \in Nat, NEW days, days \subseteq 1..top, NEW d \in Nat
    PROVE  /\ Aligned(days, d) \in Nat
           /\ Aligned(days, d) # 0 <=> \E e \in days : e <= d
           /\ Aligned(days, d) # 0 => /\ Aligned(days, d) \in days /\ Aligned(days, d) <= d
                                      /\ \A e \in days : e <= d => e <= Aligned(days, d)
<1> DEFINE past == {e \in days : e <= d}
<1>0. \A e \in days : e \in Nat /\ 1 <= e /\ e <= top /\ e \in 0..top
  OBVIOUS
<1>1. CASE past = {}
  BY <1>1 DEF Aligned
<1>2. CASE past # {}
  <2>1. past \subseteq days /\ past \subseteq 0..top
    <3>1. past \subseteq days
      OBVIOUS
    <3> HIDE DEF past
    <3> QED BY <1>0, <3>1
  <2>2. Aligned(days, d) = Max(past)
    BY <1>2 DEF Aligned
  <2> HIDE DEF past
  <2>3. Max(past) \in past /\ \A m \in past : m <= Max(past)
    BY <1>2, <2>1, MaxIs
  <2>4. \A e \in past : e \in days /\ e <= d /\ e \in Nat /\ e # 0
    BY <1>0 DEF past
  <2>5. \A e \in days : e <= d => e \in past
    BY DEF past
  <2> QED BY <2>2, <2>3, <2>4, <2>5
<1> QED BY <1>1, <1>2

\* Once every symbol has a bar it has one on every later day.
LEMMA AllStay ==
    ASSUME NEW top \in Nat, NEW series, SeriesIn(series, top), NEW d \in Nat, NEW e \in Nat,
           d <= e, HasAll(series, d)
    PROVE  HasAll(series, e)
<1> SUFFICES ASSUME NEW t \in Tickers PROVE Aligned(series[t], e) # 0
  BY DEF HasAll
<1>1. Aligned(series[t], d) # 0 /\ series[t] \subseteq 1..top
  BY DEF HasAll, SeriesIn
<1>2. \E x \in series[t] : x <= d
  BY <1>1, AlignedIs
<1> QED BY <1>1, <1>2, AlignedIs

LEMMA CalendarIn ==
    ASSUME NEW top \in Nat, NEW series, SeriesIn(series, top)
    PROVE  Calendar(series) \subseteq 1..top
BY DEF Calendar, SeriesIn

\* Trimming keeps the days on which every symbol has a price, and no other.
LEMMA TrimmedIs ==
    ASSUME NEW top \in Nat, NEW series, SeriesIn(series, top)
    PROVE  /\ \A d \in Trimmed(series) : d \in Calendar(series) /\ HasAll(series, d)
           /\ Trimmed(series) # {} =>
                 \A d \in Calendar(series) : HasAll(series, d) => d \in Trimmed(series)
<1> DEFINE valid == {d \in Calendar(series) : HasAll(series, d)}
<1>1. valid \subseteq 0..top /\ valid \subseteq Nat /\ Calendar(series) \subseteq Nat
  BY CalendarIn
<1>2. Trimmed(series) = {d \in Calendar(series) : valid # {} /\ Min(valid) <= d /\ d <= Max(valid)}
  BY DEF Trimmed
<1>3. CASE valid = {}
  BY <1>2, <1>3
<1>4. CASE valid # {}
  <2> HIDE DEF valid
  <2>1. Min(valid) \in valid /\ \A m \in valid : Min(valid) <= m
    BY <1>1, <1>4, MinIs
  <2>2. Max(valid) \in valid /\ \A m \in valid : m <= Max(valid)
    BY <1>1, <1>4, MaxIs
  <2>3. ASSUME NEW d \in Trimmed(series) PROVE d \in Calendar(series) /\ HasAll(series, d)
    <3>1. d \in Calendar(series) /\ d \in Nat /\ Min(valid) \in Nat /\ Min(valid) <= d
      BY <1>1, <1>2, <2>1
    <3>2. HasAll(series, Min(valid))
      BY <2>1 DEF valid
    <3> QED BY <3>1, <3>2, AllStay
  <2>4. ASSUME NEW d \in Calendar(series), HasAll(series, d) PROVE d \in Trimmed(series)
    <3>1. d \in valid
      BY <2>4 DEF valid
    <3> QED BY <1>2, <1>4, <2>1, <2>2, <3>1
  <2> QED BY <2>3, <2>4
<1> QED BY <1>3, <1>4

--------------------------------------------------------------------------------
(* The requests *)

Pcs == {"idle", "load", "fetch", "persist", "served", "refused"}

Matrices == [Tickers -> UNION {[S -> Nat] : S \in SUBSET AllDays}]

Fetches == [pc : Pcs, range : Ranges \cup {<<0, 0>>}, intent : Intents \cup {"none"}, next : Nat,
            left : SUBSET AllDays, series : [Tickers -> SUBSET AllDays], failed : BOOLEAN,
            matrix : Matrices]

\* A series a request accepts.
Good(days, range) == days # {} /\ days \subseteq DaysIn(range) /\ Cardinality(days) >= MinBars(range)

\* What a request in the loop has so far: of every ticker it has gone through a
\* good series, unless one failed.
Gathered(q) ==
    /\ q.range \in Ranges
    /\ q.next \in 1..(Len(Universe) + 1)
    /\ q.pc \in {"fetch", "persist"} => q.next <= Len(Universe)
    /\ \A t \in Tickers : q.series[t] \subseteq DaysIn(q.range)
    /\ ~ q.failed => \A k \in 1..(q.next - 1) : Good(q.series[Universe[k]], q.range)
    /\ q.pc = "persist" => Good(q.series[Universe[q.next]], q.range)

\* What a request that was answered has.
Answered(q) ==
    /\ \A t \in Tickers : Good(q.series[t], q.range)
    /\ q.matrix = PriceMatrix(q.series)
    /\ Trimmed(q.series) # {} /\ Cardinality(Trimmed(q.series)) >= MinBars(q.range)

FetchOK(q) ==
    /\ q \in Fetches
    /\ q.pc = "idle" => q.next = 1
    /\ q.pc # "idle" => Gathered(q)
    /\ q.pc = "served" => Answered(q)

MarketInv ==
    /\ fetchedAt \in [Tickers -> [AllDays -> -1..MaxTime]]
    /\ clock \in 0..MaxTime
    /\ request \in [Requests -> Fetches]
    /\ \A r \in Requests : FetchOK(request[r])

LEMMA TickerOf == \A k \in 1..Len(Universe) : Universe[k] \in Tickers
BY DEF Tickers

LEMMA TickersAre == \A t \in Tickers : \E k \in 1..Len(Universe) : t = Universe[k]
BY DEF Tickers

LEMMA NoMatrix == [t \in Tickers |-> [d \in {} |-> 0]] \in Matrices
<1>1. [d \in {} |-> 0] \in [{} -> Nat] /\ {} \in SUBSET AllDays
  OBVIOUS
<1> QED BY <1>1 DEF Matrices

LEMMA IdleFits == Idle \in Fetches /\ Idle.pc = "idle" /\ Idle.next = 1 /\ ~ Idle.failed
                  /\ \A t \in Tickers : Idle.series[t] = {}
BY NoMatrix DEF Idle, Fetches, Pcs, NoSeries

LEMMA InitMarket == MarketInit => MarketInv
<1> SUFFICES ASSUME MarketInit PROVE MarketInv
  OBVIOUS
<1>1. MaxTime \in Nat
  BY MarketAssumption
<1>2. fetchedAt \in [Tickers -> [AllDays -> -1..MaxTime]] /\ clock \in 0..MaxTime
  BY <1>1 DEF MarketInit
<1>3. FetchOK(Idle)
  BY IdleFits DEF FetchOK
<1>4. request \in [Requests -> Fetches] /\ \A r \in Requests : FetchOK(request[r])
  BY <1>3, IdleFits DEF MarketInit
<1> QED BY <1>2, <1>4 DEF MarketInv

\* One request goes on.
LEMMA RequestMoves ==
    ASSUME MarketInv, NEW r \in Requests, NEW q, Step(r, q), FetchOK(q),
           fetchedAt' \in [Tickers -> [AllDays -> -1..MaxTime]], clock' = clock
    PROVE  MarketInv'
<1>1. q \in Fetches
  BY DEF FetchOK
<1>2. request' = [request EXCEPT ![r] = q] /\ request \in [Requests -> Fetches]
  BY DEF Step, MarketInv
<1>3. /\ request' \in [Requests -> Fetches]
      /\ \A p \in Requests : p = r => request'[p] = q
      /\ \A p \in Requests : p # r => request'[p] = request[p]
  BY <1>1, <1>2
<1>4. \A p \in Requests : FetchOK(request[p])
  BY DEF MarketInv
<1>5. \A p \in Requests : FetchOK(request'[p])
  BY <1>3, <1>4
<1>6. clock' \in 0..MaxTime
  BY DEF MarketInv
<1> QED BY <1>3, <1>5, <1>6 DEF MarketInv

LEMMA AskKeeps == ASSUME MarketInv, NEW r \in Requests, Ask(r) PROVE MarketInv'
<1>1. PICK range \in Ranges, intent \in Intents :
         Step(r, [Idle EXCEPT !.pc = "load", !.range = range, !.intent = intent])
  BY DEF Ask
<1> DEFINE q == [Idle EXCEPT !.pc = "load", !.range = range, !.intent = intent]
<1>2. q \in Fetches /\ q.pc = "load" /\ q.range = range /\ q.next = 1
      /\ \A t \in Tickers : q.series[t] = {}
  BY IdleFits DEF Fetches, Pcs
<1> HIDE DEF q
<1>3. Len(Universe) \in Nat
  BY MarketAssumption
<1>4. 1 \in 1..(Len(Universe) + 1) /\ 1..(1 - 1) = {}
  BY <1>3
<1>5. Gathered(q)
  BY <1>2, <1>4 DEF Gathered
<1>6. FetchOK(q)
  BY <1>2, <1>5 DEF FetchOK
<1>7. Step(r, q)
  BY <1>1 DEF q
<1> QED BY <1>6, <1>7, RequestMoves DEF Ask, MarketInv

\* What LoadBars, FetchBars, PersistChunk and BuildMatrix start from.
LEMMA InLoop ==
    ASSUME MarketInv, NEW r \in Requests, request[r].pc # "idle"
    PROVE  /\ request[r] \in Fetches /\ Gathered(request[r]) /\ request[r].range \in Ranges
           /\ request[r].next \in Nat /\ 1 <= request[r].next
           /\ request[r].next <= Len(Universe) + 1 /\ Len(Universe) \in Nat
           /\ request[r].next <= Len(Universe) => Ticker(r) \in Tickers
                                                  /\ Ticker(r) = Universe[request[r].next]
<1>1. request[r] \in Fetches /\ Gathered(request[r]) /\ Len(Universe) \in Nat
  BY MarketAssumption DEF MarketInv, FetchOK
<1>2. request[r].range \in Ranges /\ request[r].next \in 1..(Len(Universe) + 1)
  BY <1>1 DEF Gathered
<1> QED BY <1>1, <1>2, TickerOf DEF Ticker

\* The loop goes on to the next ticker with a good series of this one.
LEMMA TakeOK ==
    ASSUME NEW q \in Fetches, Gathered(q), q.next <= Len(Universe), NEW days \in SUBSET AllDays,
           Good(days, q.range)
    PROVE  FetchOK(Take(q, Universe[q.next], days))
<1> DEFINE t == Universe[q.next]
           p == Take(q, t, days)
<1>1. q.next \in Nat /\ 1 <= q.next /\ Len(Universe) \in Nat /\ q.range \in Ranges
  BY MarketAssumption DEF Gathered
<1>2. t \in Tickers
  BY <1>1, TickerOf
<1> HIDE DEF t
<1>4. q.series \in [Tickers -> SUBSET AllDays]
  BY DEF Fetches
<1> DEFINE series == [q.series EXCEPT ![t] = days]
<1>10. series \in [Tickers -> SUBSET AllDays]
  BY <1>2, <1>4
<1>11. p = [q EXCEPT !.pc = "load", !.next = q.next + 1, !.series = series, !.left = {}]
  BY DEF Take
<1> HIDE DEF p, series
<1>12. q.next + 1 \in Nat /\ {} \in SUBSET AllDays
  BY <1>1
<1>13. p \in Fetches
  BY <1>10, <1>11, <1>12 DEF Fetches, Pcs
<1>14. p.pc = "load" /\ p.next = q.next + 1 /\ p.range = q.range
       /\ p.failed = q.failed /\ p.series = series
  BY <1>11 DEF Fetches
<1>3. p \in Fetches /\ p.pc = "load" /\ p.next = q.next + 1 /\ p.range = q.range
      /\ p.failed = q.failed /\ p.series = series
  BY <1>13, <1>14
<1> USE DEF series
<1>5. \A s \in Tickers : p.series[s] = IF s = t THEN days ELSE q.series[s]
  BY <1>2, <1>3, <1>4
<1>6. \A s \in Tickers : p.series[s] \subseteq DaysIn(p.range)
  BY <1>3, <1>5 DEF Gathered, Good
<1>7. ASSUME ~ p.failed, NEW k \in 1..(p.next - 1) PROVE Good(p.series[Universe[k]], p.range)
  <2>1. k \in 1..Len(Universe) /\ (k = q.next \/ k \in 1..(q.next - 1))
    BY <1>1, <1>3
  <2>2. Universe[k] \in Tickers
    BY <2>1, TickerOf
  <2>3. CASE Universe[k] = t
    BY <1>3, <1>5, <2>2, <2>3
  <2>4. CASE Universe[k] # t
    <3>1. k \in 1..(q.next - 1)
      BY <2>1, <2>4 DEF t
    <3> QED BY <1>3, <1>5, <1>7, <2>2, <2>4, <3>1 DEF Gathered
  <2> QED BY <2>3, <2>4
<1>8. p.next \in 1..(Len(Universe) + 1)
  BY <1>1, <1>3
<1>9. Gathered(p)
  BY <1>1, <1>3, <1>6, <1>7, <1>8 DEF Gathered
<1> QED BY <1>3, <1>9 DEF FetchOK, p, t

LEMMA LoadKeeps == ASSUME MarketInv, NEW r \in Requests, LoadBars(r) PROVE MarketInv'
<1> DEFINE q == request[r]
           days == Stored(Ticker(r), q.range)
<1>1. q.pc = "load" /\ q.next <= Len(Universe) /\ UNCHANGED <<fetchedAt, clock>>
  BY DEF LoadBars
<1>2. q \in Fetches /\ Gathered(q) /\ q.range \in Ranges /\ Ticker(r) = Universe[q.next]
  BY <1>1, InLoop
<1>3. CASE IsFreshEnough(Ticker(r), days) /\ CoversRange(days, q.range)
           /\ Step(r, Take(q, Ticker(r), days))
  <2>1. days \in SUBSET AllDays /\ days \subseteq DaysIn(q.range)
    BY <1>2, Days DEF Stored
  <2>2. Good(days, q.range)
    BY <1>3, <2>1 DEF IsFreshEnough, CoversRange, Good
  <2> QED BY <1>1, <1>2, <1>3, <2>1, <2>2, TakeOK, RequestMoves DEF MarketInv
<1>4. CASE Step(r, [q EXCEPT !.pc = "fetch"])
  <2> DEFINE p == [q EXCEPT !.pc = "fetch"]
  <2>1. p \in Fetches /\ p.pc = "fetch" /\ p.next = q.next /\ p.range = q.range
        /\ p.series = q.series /\ p.failed = q.failed
    BY <1>2 DEF Fetches, Pcs
  <2> HIDE DEF p
  <2>2. FetchOK(p)
    BY <1>1, <1>2, <2>1 DEF FetchOK, Gathered
  <2>3. Step(r, p)
    BY <1>4 DEF p
  <2> QED BY <1>1, <2>2, <2>3, RequestMoves DEF MarketInv
<1> QED BY <1>3, <1>4 DEF LoadBars

LEMMA MinBarsType ==
    ASSUME NEW range \in Ranges
    PROVE  MinBars(range) \in Nat
<1> DEFINE n == Cardinality(DaysIn(range))
           share == (n * 55) \div 100
<1>0. range[1] \in Int /\ range[2] \in Int
  BY MarketAssumption
<1>1. IsFiniteSet(DaysIn(range))
  BY <1>0, FS_Interval DEF DaysIn
<1>2. n \in Nat
  BY <1>1, FS_CardinalityType
<1> HIDE DEF n
<1>3. share \in Nat
  BY <1>2
<1> HIDE DEF share
<1>4. FloorBars \in Nat /\ MinBars(range) = Max({FloorBars, share})
  BY MarketAssumption DEF MinBars, share, n
<1>5. \E x \in {FloorBars, share} : \A y \in {FloorBars, share} : x >= y
  <2>1. CASE FloorBars >= share
    BY <1>3, <1>4, <2>1
  <2>2. CASE share >= FloorBars
    BY <1>3, <1>4, <2>2
  <2> QED BY <1>3, <1>4, <2>1, <2>2
<1> QED BY <1>3, <1>4, <1>5 DEF Max

LEMMA DaysCount ==
    ASSUME NEW top \in Nat, NEW series, SeriesIn(series, top)
    PROVE  Cardinality(Trimmed(series)) \in Nat
<1>1. IsFiniteSet(1..top) /\ Trimmed(series) \subseteq 1..top
  BY FS_Interval, TrimmedIs, CalendarIn
<1> QED BY <1>1, FS_Subset, FS_CardinalityType

LEMMA FetchKeeps == ASSUME MarketInv, NEW r \in Requests, FetchBars(r) PROVE MarketInv'
<1> DEFINE q == request[r]
           t == Ticker(r)
<1>1. q.pc = "fetch" /\ UNCHANGED <<fetchedAt, clock>>
  BY DEF FetchBars, Downloaded
<1>2. q \in Fetches /\ Gathered(q) /\ q.range \in Ranges /\ q.next \in Nat /\ 1 <= q.next
      /\ Len(Universe) \in Nat /\ q.next <= Len(Universe) /\ t = Universe[q.next] /\ t \in Tickers
  BY <1>1, InLoop DEF Gathered
<1>3. PICK absent \in Absences :
         LET days == DaysIn(q.range) \ absent IN
         \/ /\ days # {} /\ Cardinality(days) >= MinBars(q.range)
            /\ Step(r, [q EXCEPT !.pc = "persist", !.left = days, !.series[t] = days])
         \/ Step(r, [q EXCEPT !.pc = "load", !.next = @ + 1, !.failed = TRUE])
  BY DEF FetchBars, Downloaded
<1> DEFINE days == DaysIn(q.range) \ absent
           series == [q.series EXCEPT ![t] = days]
<1> HIDE DEF t
<1>4. q.series \in [Tickers -> SUBSET AllDays] /\ days \in SUBSET AllDays
  BY <1>2, Days DEF Fetches
<1>5. series \in [Tickers -> SUBSET AllDays]
      /\ \A s \in Tickers : series[s] = IF s = t THEN days ELSE q.series[s]
  BY <1>2, <1>4
<1>6. CASE /\ days # {} /\ Cardinality(days) >= MinBars(q.range)
           /\ Step(r, [q EXCEPT !.pc = "persist", !.left = days, !.series[t] = days])
  <2>1. Good(days, q.range)
    BY <1>6 DEF Good
  <2> DEFINE p == [q EXCEPT !.pc = "persist", !.left = days, !.series = series]
  <2>2. Step(r, p)
    BY <1>6
  <2> HIDE DEF series, days
  <2>3. p \in Fetches
    BY <1>2, <1>4, <1>5 DEF Fetches, Pcs
  <2>4. p.pc = "persist" /\ p.next = q.next /\ p.range = q.range /\ p.failed = q.failed
        /\ p.series = series
    BY <1>2 DEF Fetches
  <2> HIDE DEF p
  <2>5. \A s \in Tickers : p.series[s] \subseteq DaysIn(p.range)
    BY <1>2, <1>5, <2>1, <2>4 DEF Gathered, Good
  <2>6. ASSUME ~ p.failed, NEW k \in 1..(p.next - 1) PROVE Good(p.series[Universe[k]], p.range)
    <3>1. k \in 1..Len(Universe) /\ k \in 1..(q.next - 1)
      BY <1>2, <2>4
    <3>2. Universe[k] \in Tickers /\ Good(q.series[Universe[k]], q.range)
      BY <1>2, <2>4, <2>6, <3>1, TickerOf DEF Gathered
    <3> QED BY <1>5, <2>1, <2>4, <3>2
  <2>7. Good(p.series[Universe[p.next]], p.range)
    BY <1>2, <1>5, <2>1, <2>4
  <2>8. Gathered(p)
    BY <1>2, <2>4, <2>5, <2>6, <2>7 DEF Gathered
  <2>9. FetchOK(p)
    BY <2>3, <2>4, <2>8 DEF FetchOK
  <2> QED BY <1>1, <2>2, <2>9, RequestMoves DEF MarketInv
<1>7. CASE Step(r, [q EXCEPT !.pc = "load", !.next = @ + 1, !.failed = TRUE])
  <2> DEFINE p == [q EXCEPT !.pc = "load", !.next = @ + 1, !.failed = TRUE]
  <2> HIDE DEF series, days
  <2>0. q.next + 1 \in Nat
    BY <1>2
  <2>1. p \in Fetches
    BY <1>2, <2>0 DEF Fetches, Pcs
  <2>2. p.pc = "load" /\ p.next = q.next + 1 /\ p.range = q.range /\ p.failed
        /\ p.series = q.series
    BY <1>2 DEF Fetches
  <2>3. Step(r, p)
    BY <1>7
  <2> HIDE DEF p
  <2>4. p.next \in 1..(Len(Universe) + 1)
    BY <1>2, <2>2
  <2>5. Gathered(p)
    BY <1>2, <2>2, <2>4 DEF Gathered
  <2>6. FetchOK(p)
    BY <2>1, <2>2, <2>5 DEF FetchOK
  <2> QED BY <1>1, <2>3, <2>6, RequestMoves DEF MarketInv
<1> QED BY <1>3, <1>6, <1>7

LEMMA PersistKeeps == ASSUME MarketInv, NEW r \in Requests, PersistChunk(r) PROVE MarketInv'
<1> DEFINE q == request[r]
           chunk == NextChunk(q.left)
<1>1. q.pc = "persist" /\ clock' = clock
  BY DEF PersistChunk
<1>2. q \in Fetches /\ Gathered(q) /\ Ticker(r) \in Tickers
  BY <1>1, InLoop DEF Gathered
<1>3. PICK left \in SUBSET AllDays : Step(r, [q EXCEPT !.left = left])
  <2>1. q.left \ chunk \in SUBSET AllDays /\ {} \in SUBSET AllDays
    BY <1>2 DEF Fetches
  <2> QED BY <2>1 DEF PersistChunk
<1>4. fetchedAt' \in [Tickers -> [AllDays -> -1..MaxTime]]
  <2>1. fetchedAt \in [Tickers -> [AllDays -> -1..MaxTime]] /\ clock \in -1..MaxTime
    BY DEF MarketInv
  <2>2. CASE fetchedAt' = [fetchedAt EXCEPT ![Ticker(r)] =
                              [d \in AllDays |-> IF d \in chunk THEN clock ELSE @[d]]]
    <3> DEFINE times == [d \in AllDays |-> IF d \in chunk THEN clock ELSE fetchedAt[Ticker(r)][d]]
    <3>1. times \in [AllDays -> -1..MaxTime]
      BY <1>2, <2>1
    <3>2. fetchedAt' = [fetchedAt EXCEPT ![Ticker(r)] = times]
      BY <2>2
    <3> HIDE DEF times
    <3> QED BY <1>2, <2>1, <3>1, <3>2
  <2> QED BY <2>1, <2>2 DEF PersistChunk
<1> DEFINE p == [q EXCEPT !.left = left]
<1>5. p \in Fetches /\ p.pc = q.pc /\ p.next = q.next /\ p.range = q.range
      /\ p.failed = q.failed /\ p.series = q.series
  BY <1>2 DEF Fetches
<1>6. Step(r, p)
  BY <1>3
<1> HIDE DEF p
<1>7. FetchOK(p)
  BY <1>1, <1>2, <1>5 DEF FetchOK, Gathered
<1> QED BY <1>1, <1>4, <1>6, <1>7, RequestMoves

LEMMA PersistedKeeps == ASSUME MarketInv, NEW r \in Requests, Persisted(r) PROVE MarketInv'
<1> DEFINE q == request[r]
           days == q.series[Ticker(r)]
<1>1. q.pc = "persist" /\ Step(r, Take(q, Ticker(r), days)) /\ UNCHANGED <<fetchedAt, clock>>
  BY DEF Persisted
<1>2. q \in Fetches /\ Gathered(q) /\ Ticker(r) \in Tickers /\ Ticker(r) = Universe[q.next]
      /\ q.next <= Len(Universe)
  BY <1>1, InLoop DEF Gathered
<1>3. days \in SUBSET AllDays /\ Good(days, q.range)
  BY <1>1, <1>2 DEF Gathered, Fetches
<1> HIDE DEF days
<1> QED BY <1>1, <1>2, <1>3, TakeOK, RequestMoves DEF MarketInv

LEMMA BuildKeeps == ASSUME MarketInv, NEW r \in Requests, BuildMatrix(r) PROVE MarketInv'
<1> DEFINE q == request[r]
<1>1. q.pc = "load" /\ q.next > Len(Universe) /\ UNCHANGED <<fetchedAt, clock>>
  BY DEF BuildMatrix
<1>2. q \in Fetches /\ Gathered(q) /\ q.range \in Ranges /\ Len(Universe) \in Nat
      /\ q.next = Len(Universe) + 1
  BY <1>1, InLoop
<1>3. CASE Step(r, [q EXCEPT !.pc = "refused"])
  <2> DEFINE p == [q EXCEPT !.pc = "refused"]
  <2>1. p \in Fetches /\ p.pc = "refused" /\ p.next = q.next /\ p.range = q.range
        /\ p.failed = q.failed /\ p.series = q.series
    BY <1>2 DEF Fetches, Pcs
  <2>2. Step(r, p)
    BY <1>3
  <2> HIDE DEF p
  <2>3. FetchOK(p)
    BY <1>2, <2>1 DEF FetchOK, Gathered
  <2> QED BY <1>1, <2>2, <2>3, RequestMoves DEF MarketInv
<1>4. CASE /\ ~ q.failed /\ Trimmed(q.series) # {}
           /\ ~ (Cardinality(Trimmed(q.series)) < MinBars(q.range))
           /\ Step(r, [q EXCEPT !.pc = "served", !.matrix = PriceMatrix(q.series)])
  <2> DEFINE matrix == PriceMatrix(q.series)
             p == [q EXCEPT !.pc = "served", !.matrix = matrix]
  <2>1. \A t \in Tickers : Good(q.series[t], q.range)
    BY <1>2, <1>4, TickersAre DEF Gathered
  <2>2. SeriesIn(q.series, q.range[2]) /\ q.range[2] \in Nat
    BY <1>2, <2>1, Days DEF SeriesIn, Good
  <2>3. Trimmed(q.series) \subseteq AllDays
    <3>1. Calendar(q.series) \subseteq AllDays
      BY <1>2 DEF Calendar, Fetches
    <3> QED BY <2>2, <3>1, TrimmedIs
  <2>4. matrix \in Matrices
    <3>1. ASSUME NEW t \in Tickers, NEW d \in Trimmed(q.series) PROVE Aligned(q.series[t], d) \in Nat
      <4>1. d \in Nat
        BY <2>2, TrimmedIs, CalendarIn
      <4> QED BY <2>2, <4>1, AlignedIs DEF SeriesIn
    <3>2. \A t \in Tickers :
             [d \in Trimmed(q.series) |-> Aligned(q.series[t], d)] \in [Trimmed(q.series) -> Nat]
      BY <3>1
    <3> QED BY <2>3, <3>2 DEF Matrices, PriceMatrix
  <2> HIDE DEF matrix
  <2>5. p \in Fetches /\ p.pc = "served" /\ p.next = q.next /\ p.range = q.range
        /\ p.failed = q.failed /\ p.series = q.series /\ p.matrix = matrix
    BY <1>2, <2>4 DEF Fetches, Pcs
  <2>6. Step(r, p)
    BY <1>4 DEF matrix
  <2> HIDE DEF p
  <2>7. Gathered(p)
    BY <1>2, <2>5 DEF Gathered
  <2>8. Cardinality(Trimmed(q.series)) >= MinBars(q.range)
    BY <1>2, <1>4, <2>2, MinBarsType, DaysCount
  <2>10. Answered(p)
    BY <1>4, <2>1, <2>5, <2>8 DEF Answered, matrix
  <2>11. FetchOK(p)
    BY <2>5, <2>7, <2>10 DEF FetchOK
  <2> QED BY <1>1, <2>6, <2>11, RequestMoves DEF MarketInv
<1> QED BY <1>3, <1>4 DEF BuildMatrix

LEMMA MarketKeeps == MarketInv /\ [MarketNext]_marketVars => MarketInv'
<1> SUFFICES ASSUME MarketInv, [MarketNext]_marketVars PROVE MarketInv'
  OBVIOUS
<1>1. CASE UNCHANGED marketVars
  BY <1>1 DEF marketVars, MarketInv
<1>2. CASE Tick
  <2>1. clock' \in 0..MaxTime
    BY <1>2, MarketAssumption DEF Tick, MarketInv
  <2> QED BY <1>2, <2>1 DEF Tick, MarketInv
<1>3. ASSUME NEW r \in Requests, Ask(r) \/ Handle(r) PROVE MarketInv'
  BY <1>3, AskKeeps, LoadKeeps, FetchKeeps, PersistKeeps, PersistedKeeps, BuildKeeps DEF Handle
<1> QED BY <1>1, <1>2, <1>3 DEF MarketNext

LEMMA MarketHolds == MarketSpec => []MarketInv
BY InitMarket, MarketKeeps, PTL DEF MarketSpec

\* The table and the requests keep their shape, whatever the database and the
\* providers answer.
THEOREM MarketTypeCorrect == MarketSpec => []MarketTypeOK
<1>1. MarketInv => MarketTypeOK
  <2> SUFFICES ASSUME MarketInv, NEW r \in Requests
               PROVE  /\ request[r].pc \in {"idle", "load", "fetch", "persist", "served", "refused"}
                      /\ request[r].next \in 1..(Len(Universe) + 1)
                      /\ request[r].left \subseteq AllDays
                      /\ \A t \in Tickers : request[r].series[t] \subseteq AllDays
    BY DEF MarketInv, MarketTypeOK
  <2>1. FetchOK(request[r]) /\ request[r] \in Fetches
    BY DEF MarketInv, FetchOK
  <2>2. 1 \in 1..(Len(Universe) + 1)
    BY MarketAssumption
  <2>3. request[r].next \in 1..(Len(Universe) + 1)
    BY <2>1, <2>2 DEF FetchOK, Gathered
  <2> QED BY <2>1, <2>3 DEF Fetches, Pcs
<1> QED BY <1>1, MarketHolds, PTL

\* What a served request holds.
LEMMA ServedHas ==
    ASSUME MarketInv, NEW r \in Requests, request[r].pc = "served", NEW t \in Tickers
    PROVE  LET q == request[r] IN
           /\ q.range \in Ranges /\ q.range[2] \in Nat /\ SeriesIn(q.series, q.range[2])
           /\ \A s \in Tickers : Good(q.series[s], q.range)
           /\ DOMAIN q.matrix[t] = Trimmed(q.series)
           /\ \A d \in Trimmed(q.series) : q.matrix[t][d] = Aligned(q.series[t], d)
           /\ Trimmed(q.series) # {} /\ Cardinality(Trimmed(q.series)) >= MinBars(q.range)
<1> DEFINE q == request[r]
<1>1. Gathered(q) /\ Answered(q)
  BY DEF MarketInv, FetchOK
<1>2. q.range \in Ranges /\ \A s \in Tickers : Good(q.series[s], q.range)
  BY <1>1 DEF Gathered, Answered
<1>3. q.range[2] \in Nat /\ SeriesIn(q.series, q.range[2])
  BY <1>2, Days DEF SeriesIn, Good
<1>4. q.matrix[t] = [d \in Trimmed(q.series) |-> Aligned(q.series[t], d)]
  BY <1>1 DEF Answered, PriceMatrix
<1> QED BY <1>1, <1>2, <1>3, <1>4 DEF Answered

\* No matrix that is served has a gap or a price from the future.
THEOREM MatricesFillForward == MarketSpec => []MatrixFillsForward
<1>1. MarketInv => MatrixFillsForward
  <2> SUFFICES ASSUME MarketInv, NEW r \in Requests, request[r].pc = "served", NEW t \in Tickers,
                      NEW d \in DOMAIN request[r].matrix[t]
               PROVE  LET known == request[r].series[t]
                          from == request[r].matrix[t][d]
                      IN  from \in known /\ from <= d /\ known \cap (from + 1)..d = {}
    BY DEF MatrixFillsForward
  <2> DEFINE series == request[r].series
             top == request[r].range[2]
             from == request[r].matrix[t][d]
  <2>1. d \in Trimmed(series) /\ top \in Nat /\ SeriesIn(series, top)
        /\ from = Aligned(series[t], d)
    BY ServedHas
  <2>2. d \in Nat /\ HasAll(series, d) /\ series[t] \subseteq 1..top
    BY <2>1, TrimmedIs, CalendarIn DEF SeriesIn
  <2>3. from # 0 /\ from \in Nat
    BY <2>1, <2>2, AlignedIs DEF HasAll
  <2>4. from \in series[t] /\ from <= d /\ \A e \in series[t] : e <= d => e <= from
    BY <2>1, <2>2, <2>3, AlignedIs
  <2> HIDE DEF from, series
  <2>5. \A e \in series[t] : e \notin (from + 1)..d
    BY <2>2, <2>3, <2>4
  <2> QED BY <2>4, <2>5 DEF from, series
<1> QED BY <1>1, MarketHolds, PTL

\* What a request is served is in the range it asked for, long enough, and only
\* days before the first bar of some symbol are cut from it.
THEOREM RequestsAreSpanned == MarketSpec => []ServedSpansRequest
<1>1. MarketInv => ServedSpansRequest
  <2> SUFFICES ASSUME MarketInv, NEW r \in Requests, request[r].pc = "served", NEW t \in Tickers
               PROVE  LET q == request[r] days == DOMAIN q.matrix[t] IN
                      /\ days \subseteq DaysIn(q.range) /\ Cardinality(days) >= MinBars(q.range)
                      /\ Cardinality(q.series[t]) >= MinBars(q.range)
                      /\ q.series[t] \ days
                             \subseteq {d \in DaysIn(q.range) : \E s \in Tickers : d < Min(q.series[s])}
    BY DEF ServedSpansRequest
  <2> DEFINE q == request[r]
             series == q.series
             top == q.range[2]
             days == DOMAIN q.matrix[t]
  <2>1. /\ q.range \in Ranges /\ top \in Nat /\ SeriesIn(series, top)
        /\ \A s \in Tickers : Good(series[s], q.range)
        /\ days = Trimmed(series) /\ days # {} /\ Cardinality(days) >= MinBars(q.range)
    BY ServedHas
  <2>2. Cardinality(series[t]) >= MinBars(q.range) /\ series[t] \subseteq DaysIn(q.range)
    BY <2>1 DEF Good
  <2>3. days \subseteq DaysIn(q.range)
    <3>1. Calendar(series) \subseteq DaysIn(q.range)
      BY <2>1 DEF Calendar, Good
    <3> QED BY <2>1, <3>1, TrimmedIs
  <2>4. ASSUME NEW d \in series[t], d \notin days PROVE \E s \in Tickers : d < Min(series[s])
    <3>1. d \in Calendar(series) /\ d \in Nat
      BY <2>1, CalendarIn DEF Calendar
    <3>2. ~ HasAll(series, d)
      BY <2>1, <2>4, <3>1, TrimmedIs
    <3>3. PICK s \in Tickers : Aligned(series[s], d) = 0
      BY <3>2 DEF HasAll
    <3>4. series[s] \subseteq 1..top /\ series[s] # {}
      BY <2>1 DEF SeriesIn, Good
    <3>5. \A e \in series[s] : ~ (e <= d)
      BY <2>1, <3>1, <3>3, <3>4, AlignedIs
    <3>6. series[s] \subseteq Nat
      BY <2>1, <3>4
    <3>7. Min(series[s]) \in series[s]
      BY <3>4, <3>6, MinIs
    <3> QED BY <3>1, <3>5, <3>6, <3>7
  <2> QED BY <2>1, <2>2, <2>3, <2>4
<1> QED BY <1>1, MarketHolds, PTL

--------------------------------------------------------------------------------
(* The replay *)

Events == [Kinds -> SUBSET (1..Span)]

Sessions == [window : Events, got : Events, delivered : Nat]

\* What was fetched of a kind is a beginning of it.
IsBeginning(part, all) == part \subseteq all /\ \A e \in part, f \in all : f < e => f \in part

Beginnings(parts, alls) == \A kind \in Kinds : IsBeginning(parts[kind], alls[kind])

ReplayInv ==
    /\ windows \in Seq(Events) /\ Len(windows) <= MaxSessions
    /\ i \in 1..(Len(windows) + 1)
    /\ pc \in Kinds \cup {"check", "replay", "returned", "failed"}
    /\ pc \in {"quotes", "check", "replay"} => i <= Len(windows)
    /\ aborted \in BOOLEAN
    /\ page \in 0..(MaxPages - 1)
    /\ got \in Events
    /\ i <= Len(windows) => Beginnings(got, windows[i])
    /\ pos \in 0..(2 * Span) /\ delivered = pos
    /\ skipped \in Nat /\ skipped < i
    /\ results \in Seq(Sessions)
    /\ \A s \in 1..Len(results) : Beginnings(results[s].got, results[s].window)

LEMMA NothingYet == Nothing \in Events /\ \A alls \in Events : Beginnings(Nothing, alls)
BY DEF Nothing, Events, Beginnings, IsBeginning, Kinds

LEMMA InitReplay == ReplayInit => ReplayInv
<1> SUFFICES ASSUME ReplayInit PROVE ReplayInv
  OBVIOUS
<1>1. PICK n \in 0..MaxSessions : windows \in [1..n -> Events]
  BY DEF ReplayInit, Events
<1>2. n \in Nat /\ n <= MaxSessions /\ MaxPages \in Nat \ {0} /\ Span \in Nat
  BY ReplayAssumption
<1>3. windows \in Seq(Events) /\ Len(windows) = n
  <2>1. windows \in Seq(Events)
    BY <1>1, <1>2, IsASeq
  <2>2. DOMAIN windows = 1..Len(windows) /\ Len(windows) \in Nat
    BY <2>1, LenProperties
  <2> DEFINE m == Len(windows)
  <2>3. 1..n = 1..m /\ m \in Nat
    BY <1>1, <2>2
  <2> HIDE DEF m
  <2>4. (n >= 1 => n \in 1..m) /\ (m >= 1 => m \in 1..n)
    BY <1>2, <2>3
  <2>5. m = n
    BY <1>2, <2>3, <2>4
  <2> QED BY <2>1, <2>5 DEF m
<1>4. results = <<>> /\ results \in Seq(Sessions) /\ Len(results) = 0
  BY EmptySeq DEF ReplayInit
<1>5. got = Nothing /\ i = 1 /\ pc = "trades" /\ aborted = FALSE /\ page = 0 /\ pos = 0
      /\ delivered = 0 /\ skipped = 0
  BY DEF ReplayInit
<1>6. 1 <= Len(windows) => windows[1] \in Events
  <2>1. 1 <= n => 1 \in 1..n
    BY <1>2
  <2> QED BY <1>1, <1>3, <2>1
<1>7. i <= Len(windows) => Beginnings(got, windows[i])
  BY <1>5, <1>6, NothingYet
<1>8. 0 \in 0..(MaxPages - 1) /\ 0 \in 0..(2 * Span) /\ 1 \in 1..(n + 1)
  BY <1>2
<1>9. \A s \in 1..0 : Beginnings(results[s].got, results[s].window)
  OBVIOUS
<1>10. /\ pc \in Kinds \cup {"check", "replay", "returned", "failed"}
       /\ pc \notin {"quotes", "check", "replay"} /\ aborted \in BOOLEAN
       /\ got \in Events
  BY <1>5, NothingYet DEF Kinds
<1>11. skipped \in Nat /\ skipped < i
  BY <1>5
<1> QED BY <1>2, <1>3, <1>4, <1>5, <1>7, <1>8, <1>9, <1>10, <1>11 DEF ReplayInv

LEMMA WindowIs ==
    ASSUME ReplayInv, i <= Len(windows)
    PROVE  windows[i] \in Events /\ Beginnings(got, windows[i])
BY ElementOfSeq DEF ReplayInv

\* A page continues the beginning that was fetched before it.
LEMMA PageContinues ==
    ASSUME NEW all \in SUBSET (1..Span), NEW part, IsBeginning(part, all), NEW rest,
           rest = all \ part, NEW next,
           next = {e \in rest : Cardinality({f \in rest : f < e}) < PageLimit}
    PROVE  IsBeginning(part \cup next, all)
<1>0. \A e \in all : e \in Nat /\ e \in 1..Span
  OBVIOUS
<1>1. part \cup next \subseteq all
  BY DEF IsBeginning
<1>2. ASSUME NEW e \in part \cup next, NEW f \in all, f < e PROVE f \in part \cup next
  <2>1. CASE e \in part
    BY <1>2, <2>1 DEF IsBeginning
  <2>2. CASE e \in next /\ f \in rest
    <3> DEFINE A == {g \in rest : g < f}
               B == {g \in rest : g < e}
    <3>0. e \in Nat /\ f \in Nat /\ \A g \in rest : g \in Nat
      BY <1>0, <2>2
    <3>1. A \subseteq B
      <4>1. \A g \in rest : g < f => g < e
        BY <1>2, <3>0
      <4> QED BY <4>1
    <3>2. B \subseteq 1..Span /\ Span \in Nat
      <4>1. \A x \in B : x \in all
        OBVIOUS
      <4> HIDE DEF B
      <4>2. B \subseteq 1..Span
        BY <1>0, <4>1
      <4> QED BY <4>2, ReplayAssumption
    <3>7. Cardinality(B) < PageLimit
      <4>1. \A x \in next : Cardinality({g \in rest : g < x}) < PageLimit
        BY Zenon
      <4> QED BY <2>2, <4>1
    <3> HIDE DEF A, B
    <3>3. IsFiniteSet(B) /\ IsFiniteSet(A)
      <4>1. IsFiniteSet(1..Span)
        BY <3>2, FS_Interval
      <4>2. IsFiniteSet(B)
        BY <3>2, <4>1, FS_Subset
      <4> QED BY <3>1, <4>2, FS_Subset
    <3>8. Cardinality(A) \in Nat /\ Cardinality(B) \in Nat
      BY <3>3, FS_CardinalityType
    <3>4. Cardinality(A) <= Cardinality(B)
      BY <3>1, <3>3, FS_Subset
    <3>5. Cardinality(B) < PageLimit /\ PageLimit \in Nat
      BY <3>7, ReplayAssumption
    <3>6. Cardinality(A) < PageLimit
      BY <3>4, <3>5, <3>8
    <3> QED BY <2>2, <3>6 DEF A
  <2> QED BY <1>2, <2>1, <2>2
<1> QED BY <1>1, <1>2 DEF IsBeginning

LEMMA CountFits == \A events \in Events : Count(events) \in 0..(2 * Span)
<1> TAKE events \in Events
<1>1. Span \in Nat /\ events["trades"] \subseteq 1..Span /\ events["quotes"] \subseteq 1..Span
  BY ReplayAssumption DEF Events, Kinds
<1>2. IsFiniteSet(1..Span) /\ Cardinality(1..Span) = Span
  BY <1>1, FS_Interval
<1>3. \A S \in SUBSET (1..Span) : Cardinality(S) \in Nat /\ Cardinality(S) <= Span
  BY <1>2, FS_Subset, FS_CardinalityType
<1>4. /\ Cardinality(events["trades"]) \in Nat /\ Cardinality(events["trades"]) <= Span
      /\ Cardinality(events["quotes"]) \in Nat /\ Cardinality(events["quotes"]) <= Span
  BY <1>1, <1>3
<1> QED BY <1>1, <1>4 DEF Count

\* The loop goes on to the next window with nothing fetched.
LEMMA NextWindowOK ==
    ASSUME ReplayInv, i <= Len(windows), NextWindow, UNCHANGED windows
    PROVE  /\ i' \in 1..(Len(windows') + 1) /\ i' = i + 1 /\ i \in Nat /\ pc' = "trades"
           /\ page' \in 0..(MaxPages - 1) /\ got' \in Events
           /\ i' <= Len(windows') => Beginnings(got', windows'[i'])
<1>1. i \in 1..(Len(windows) + 1) /\ Len(windows) \in Nat /\ MaxPages \in Nat \ {0}
  BY ReplayAssumption, LenProperties DEF ReplayInv
<1>2. i' = i + 1 /\ pc' = "trades" /\ page' = 0 /\ got' = Nothing /\ windows' = windows
  BY DEF NextWindow
<1>3. i' \in 1..(Len(windows') + 1) /\ i \in Nat
  BY <1>1, <1>2
<1>4. i' <= Len(windows') => windows'[i'] \in Events
  <2>1. i' <= Len(windows) => i' \in 1..Len(windows)
    BY <1>1, <1>2
  <2> QED BY <1>2, <2>1, ElementOfSeq DEF ReplayInv
<1>5. page' \in 0..(MaxPages - 1)
  BY <1>1, <1>2
<1> QED BY <1>2, <1>3, <1>4, <1>5, NothingYet

LEMMA FetchPageKeeps ==
    ASSUME ReplayInv, NEW kind \in Kinds, FetchPage(kind)
    PROVE  ReplayInv'
<1>1. pc = kind /\ i <= Len(windows)
      /\ UNCHANGED <<windows, i, aborted, pos, delivered, results, skipped>>
  BY DEF FetchPage
<1>2. windows[i] \in Events /\ Beginnings(got, windows[i]) /\ got \in Events
  BY <1>1, WindowIs DEF ReplayInv
<1>3. PICK more \in {NextPage(kind), {}} : got' = [got EXCEPT ![kind] = @ \cup more]
  BY DEF FetchPage
<1>4. windows[i][kind] \in SUBSET (1..Span) /\ got[kind] \in SUBSET (1..Span)
      /\ IsBeginning(got[kind], windows[i][kind])
  BY <1>2 DEF Events, Beginnings
<1>5. IsBeginning(got[kind] \cup more, windows[i][kind])
  <2>1. CASE more = {}
    BY <1>4, <2>1
  <2>2. CASE more = NextPage(kind)
    <3> DEFINE rest == windows[i][kind] \ got[kind]
    <3>1. more = {e \in rest : Cardinality({f \in rest : f < e}) < PageLimit}
      BY <2>2 DEF NextPage
    <3> HIDE DEF rest
    <3> QED BY <1>4, <3>1, PageContinues DEF rest
  <2> QED BY <1>3, <2>1, <2>2
<1> DEFINE part == got[kind] \cup more
<1>6. part \in SUBSET (1..Span)
  BY <1>4, <1>5 DEF IsBeginning
<1> HIDE DEF part
<1>7. got' = [got EXCEPT ![kind] = part]
  BY <1>3 DEF part
<1>8. got' \in Events /\ \A k \in Kinds : got'[k] = IF k = kind THEN part ELSE got[k]
  BY <1>2, <1>6, <1>7 DEF Events
<1>9. Beginnings(got', windows'[i'])
  BY <1>1, <1>2, <1>5, <1>8 DEF Beginnings, part
<1>10. page' \in 0..(MaxPages - 1) /\ pc' \in Kinds \cup {"check"}
  <2>1. page \in 0..(MaxPages - 1) /\ MaxPages \in Nat \ {0}
    BY ReplayAssumption DEF ReplayInv
  <2>2. CASE AfterKind(kind)
    BY <2>1, <2>2 DEF AfterKind, Kinds
  <2>3. CASE page + 1 # MaxPages /\ pc' = pc /\ page' = page + 1
    BY <1>1, <2>1, <2>3
  <2> QED BY <2>2, <2>3 DEF FetchPage
<1> QED BY <1>1, <1>8, <1>9, <1>10 DEF ReplayInv

LEMMA EndReplayKeeps == ASSUME ReplayInv, EndReplay PROVE ReplayInv'
<1>1. /\ pc = "replay" /\ aborted' = TRUE /\ NextWindow
      /\ results' = Append(results, [window |-> windows[i], got |-> got, delivered |-> delivered])
      /\ UNCHANGED <<windows, pos, delivered, skipped>>
  BY DEF EndReplay
<1>2. i <= Len(windows) /\ results \in Seq(Sessions) /\ got \in Events
  BY <1>1 DEF ReplayInv
<1>3. windows[i] \in Events /\ Beginnings(got, windows[i])
  BY <1>2, WindowIs
<1> DEFINE session == [window |-> windows[i], got |-> got, delivered |-> delivered]
<1>4. session \in Sessions
  BY <1>2, <1>3, ReplayAssumption DEF Sessions, ReplayInv
<1>5. Beginnings(session.got, session.window)
  BY <1>3
<1> HIDE DEF session
<1>6. /\ results' \in Seq(Sessions) /\ Len(results') = Len(results) + 1
      /\ \A s \in 1..Len(results) : results'[s] = results[s]
      /\ results'[Len(results) + 1] = session
  BY <1>1, <1>2, <1>4, AppendProperties DEF session
<1>7. ASSUME NEW s \in 1..Len(results') PROVE Beginnings(results'[s].got, results'[s].window)
  <2>1. s \in 1..Len(results) \/ s = Len(results) + 1
    BY <1>2, <1>6, LenProperties
  <2>2. CASE s \in 1..Len(results)
    BY <1>6, <2>2 DEF ReplayInv
  <2>3. CASE s = Len(results) + 1
    BY <1>5, <1>6, <2>3
  <2> QED BY <2>1, <2>2, <2>3
<1>8. /\ i' \in 1..(Len(windows') + 1) /\ i' = i + 1 /\ i \in Nat /\ pc' = "trades"
      /\ page' \in 0..(MaxPages - 1) /\ got' \in Events
      /\ i' <= Len(windows') => Beginnings(got', windows'[i'])
  BY <1>1, <1>2, NextWindowOK
<1>9. skipped' \in Nat /\ skipped' < i'
  BY <1>1, <1>8 DEF ReplayInv
<1> QED BY <1>1, <1>6, <1>7, <1>8, <1>9 DEF ReplayInv, Kinds

LEMMA ReplayKeeps == ReplayInv /\ [ReplayNext]_replayVars => ReplayInv'
<1> SUFFICES ASSUME ReplayInv, [ReplayNext]_replayVars PROVE ReplayInv'
  OBVIOUS
<1>1. CASE UNCHANGED replayVars
  BY <1>1 DEF replayVars, ReplayInv
<1>2. CASE LoadEvents
  <2>1. pos' \in 0..(2 * Span)
    BY <1>2, ReplayAssumption DEF LoadEvents
  <2> QED BY <1>2, <2>1 DEF LoadEvents, ReplayInv, Kinds
<1>3. CASE SkipWindow
  <2>1. i <= Len(windows) /\ NextWindow /\ windows' = windows
    BY <1>3 DEF SkipWindow, ReplayInv
  <2>2. /\ i' \in 1..(Len(windows') + 1) /\ i' = i + 1 /\ i \in Nat /\ pc' = "trades"
        /\ page' \in 0..(MaxPages - 1) /\ got' \in Events
        /\ i' <= Len(windows') => Beginnings(got', windows'[i'])
    BY <2>1, NextWindowOK
  <2>3. skipped' \in Nat /\ skipped' < i'
    BY <1>3, <2>2 DEF SkipWindow, ReplayInv
  <2> QED BY <1>3, <2>2, <2>3 DEF SkipWindow, ReplayInv, Kinds
<1>4. CASE LoadFails
  BY <1>4 DEF LoadFails, ReplayInv
<1>5. CASE Deliver
  <2>1. pos' \in 0..(2 * Span) /\ delivered' = pos'
    <3>1. Count(got) \in 0..(2 * Span)
      BY CountFits DEF ReplayInv
    <3> QED BY <1>5, <3>1, ReplayAssumption DEF Deliver, ReplayInv
  <2> QED BY <1>5, <2>1 DEF Deliver, ReplayInv
<1>6. CASE Return
  BY <1>6 DEF Return, ReplayInv
<1> QED BY <1>1, <1>2, <1>3, <1>4, <1>5, <1>6, FetchPageKeeps, EndReplayKeeps DEF ReplayNext

LEMMA ReplayHolds == ReplaySpec => []ReplayInv
BY InitReplay, ReplayKeeps, PTL DEF ReplaySpec

\* Counters and flags of the replay keep their types.
THEOREM ReplayTypeCorrect == ReplaySpec => []ReplayTypeOK
<1>1. ReplayInv => ReplayTypeOK
  <2> SUFFICES ASSUME ReplayInv PROVE ReplayTypeOK
    OBVIOUS
  <2>1. /\ Len(windows) \in Nat /\ Len(windows) <= MaxSessions /\ i \in 1..(Len(windows) + 1)
        /\ skipped \in Nat /\ skipped < i /\ page \in 0..(MaxPages - 1)
        /\ MaxPages \in Nat /\ MaxSessions \in Nat
    BY LenProperties, ReplayAssumption DEF ReplayInv
  <2>2. page \in 0..MaxPages /\ skipped \in 0..MaxSessions
    BY <2>1
  <2> QED BY <2>2 DEF ReplayInv, ReplayTypeOK
<1> QED BY <1>1, ReplayHolds, PTL

\* Whatever page fails, runs out or hits its limit, what a session replays of a
\* kind of events has no hole.
THEOREM ReplaysHaveNoHole == ReplaySpec => []ReplaysUnbroken
<1>1. ReplayInv => ReplaysUnbroken
  BY DEF ReplayInv, ReplaysUnbroken, Beginnings, IsBeginning
<1> QED BY <1>1, ReplayHolds, PTL
================================================================================
