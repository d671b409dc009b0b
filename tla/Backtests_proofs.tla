--------------------------- MODULE Backtests_proofs ---------------------------
(***************************************************************************)
(* The two backtest engines, for any prices, calendars, programs and       *)
(* costs.  ProgramEngine: types, order rows against weights, the limits of *)
(* the overlays, trade rows against runs.  DailyEngine: types, cash,       *)
(* the date of the pending signal, the journal against the positions, the  *)
(* bound on what a day earns, and the refinement of CircuitBreaker.  The   *)
(* days of DailyEngine are folds over sets of symbols in an order nobody   *)
(* fixes: the first section reduces such a fold to one step at a time.     *)
(***************************************************************************)
EXTENDS DailyEngine, ProgramEngine, FiniteSetTheorems, SequenceTheorems, WellFoundedInduction, TLAPS

--------------------------------------------------------------------------------
(* Folds over finite sets *)

\* Among the subsets of a finite set, some one is smallest.
LEMMA SmallestSet ==
    ASSUME NEW S, IsFiniteSet(S), NEW T, T \subseteq SUBSET S, T # {}
    PROVE  \E x \in T : \A y \in T : ~(y \subseteq x /\ y # x)
<1>1. T \subseteq FiniteSubsetsOf(S)
  BY FS_Subset DEF FiniteSubsetsOf
<1>2. \E x \in T : \A y \in T : ~ (<<y, x>> \in StrictSubsetOrdering(S))
  BY <1>1, FS_StrictSubsetOrderingWellFounded, WFMin
<1>3. \A x, y \in T : y \subseteq x /\ y # x => <<y, x>> \in StrictSubsetOrdering(S)
  BY DEF StrictSubsetOrdering
<1> QED BY <1>2, <1>3

\* What holds of the empty set, and of a set when it holds of the set without
\* the element the fold takes from it, holds of every set.
LEMMA TakingOut ==
    ASSUME NEW S, IsFiniteSet(S), NEW c, \A T \in SUBSET S : T # {} => c[T] \in T,
           NEW Good, {} \in Good,
           \A T \in SUBSET S : T # {} /\ T \ {c[T]} \in Good => T \in Good
    PROVE  SUBSET S \subseteq Good
<1> DEFINE Bad == (SUBSET S) \ Good
<1> SUFFICES ASSUME Bad # {} PROVE FALSE
  OBVIOUS
<1>1. PICK W \in Bad : \A Y \in Bad : ~(Y \subseteq W /\ Y # W)
  <2>1. Bad \subseteq SUBSET S
    OBVIOUS
  <2> HIDE DEF Bad
  <2> QED BY <2>1, SmallestSet
<1>2. W # {} /\ c[W] \in W
  OBVIOUS
<1>3. W \ {c[W]} \in SUBSET S /\ W \ {c[W]} \subseteq W /\ W \ {c[W]} # W
  BY <1>2
<1>4. W \ {c[W]} \in Good
  BY <1>1, <1>3
<1> QED BY <1>2, <1>4

\* f is the fold of base by g over the subsets of U, an element at a time.
Folded(f, U, base, g, c) ==
    \A T \in SUBSET U : f[T] = IF T = {} THEN base ELSE g[<<c[T], f[T \ {c[T]}]>>]

LEMMA FoldIsUnique ==
    ASSUME NEW S, IsFiniteSet(S), NEW c, \A T \in SUBSET S : T # {} => c[T] \in T,
           NEW base, NEW g, NEW U \in SUBSET S, NEW f, NEW h,
           Folded(f, U, base, g, c), NEW V \in SUBSET S, Folded(h, V, base, g, c), V \subseteq U
    PROVE  f[V] = h[V]
<1> DEFINE Good == {W \in SUBSET S : W \subseteq V => f[W] = h[W]}
<1>1. {} \in Good
  BY DEF Folded
<1>2. ASSUME NEW T \in SUBSET S, T # {}, T \ {c[T]} \in Good PROVE T \in Good
  <2>1. CASE T \subseteq V
    <3>1. f[T \ {c[T]}] = h[T \ {c[T]}]
      BY <1>2, <2>1
    <3>2. T \in SUBSET U /\ T \in SUBSET V
      BY <2>1
    <3>3. f[T] = g[<<c[T], f[T \ {c[T]}]>>] /\ h[T] = g[<<c[T], h[T \ {c[T]}]>>]
      BY <1>2, <3>2 DEF Folded
    <3> QED BY <3>1, <3>3
  <2> QED BY <2>1
<1>3. SUBSET S \subseteq Good
  <2> HIDE DEF Good
  <2> QED BY <1>1, <1>2, TakingOut
<1> QED BY <1>3

LEMMA FoldExists ==
    ASSUME NEW S, IsFiniteSet(S), NEW c, \A T \in SUBSET S : T # {} => c[T] \in T,
           NEW A, NEW base \in A, NEW g \in [S \X A -> A]
    PROVE  \E f \in [SUBSET S -> A] : Folded(f, S, base, g, c)
<1> DEFINE Has(T) == \E f \in [SUBSET T -> A] : Folded(f, T, base, g, c)
           Bad == {T \in SUBSET S : ~Has(T)}
<1> SUFFICES ASSUME Bad # {} PROVE FALSE
  OBVIOUS
<1>1. PICK T \in Bad : \A Y \in Bad : ~(Y \subseteq T /\ Y # T)
  <2>1. Bad \subseteq SUBSET S
    OBVIOUS
  <2> HIDE DEF Bad
  <2> QED BY <2>1, SmallestSet
<1> DEFINE Proper == (SUBSET T) \ {T}
           F == [U \in Proper |-> CHOOSE f \in [SUBSET U -> A] : Folded(f, U, base, g, c)]
           Rest(U) == U \ {c[U]}
           f == [U \in SUBSET T |-> IF U = {} THEN base ELSE g[<<c[U], F[Rest(U)][Rest(U)]>>]]
<1>2. ASSUME NEW U \in Proper
      PROVE  F[U] \in [SUBSET U -> A] /\ Folded(F[U], U, base, g, c)
  <2>1. Has(U)
    BY <1>1
  <2>2. F[U] = CHOOSE x \in [SUBSET U -> A] : Folded(x, U, base, g, c)
    OBVIOUS
  <2> HIDE DEF F
  <2> QED BY <2>1, <2>2
<1>3. ASSUME NEW U \in SUBSET T, U # {}
      PROVE  Rest(U) \in Proper /\ c[U] \in S /\ c[U] \in U /\ Rest(U) \in SUBSET Rest(U)
  BY <1>3
<1>4. T \in SUBSET S
  OBVIOUS
<1> HIDE DEF F, Bad
<1>5. ASSUME NEW U \in SUBSET T, U # {} PROVE F[Rest(U)][Rest(U)] \in A
  <2>1. Rest(U) \in Proper /\ Rest(U) \in SUBSET Rest(U)
    BY <1>3, <1>5
  <2>2. F[Rest(U)] \in [SUBSET Rest(U) -> A]
    BY <1>2, <2>1
  <2> HIDE DEF Rest
  <2> QED BY <2>1, <2>2
<1>6. f \in [SUBSET T -> A]
  <2> SUFFICES ASSUME NEW U \in SUBSET T
               PROVE (IF U = {} THEN base ELSE g[<<c[U], F[Rest(U)][Rest(U)]>>]) \in A
    OBVIOUS
  <2>1. CASE U # {}
    <3>1. c[U] \in S /\ F[Rest(U)][Rest(U)] \in A
      BY <1>3, <1>5, <2>1
    <3> HIDE DEF Rest
    <3> QED BY <2>1, <3>1
  <2> QED BY <2>1
<1>7. ASSUME NEW U \in Proper PROVE f[U] = F[U][U]
  <2>1. Folded(F[U], U, base, g, c) /\ U \in SUBSET T
    BY <1>2
  <2>2. CASE U = {}
    BY <2>1, <2>2 DEF Folded
  <2>3. CASE U # {}
    <3>1. F[U][U] = g[<<c[U], F[U][Rest(U)]>>]
      BY <2>1, <2>3 DEF Folded
    <3>2. Rest(U) \in Proper /\ Rest(U) \subseteq U
      BY <1>3, <2>1, <2>3
    <3>3. Folded(F[Rest(U)], Rest(U), base, g, c)
      BY <1>2, <3>2
    <3>4. F[U][Rest(U)] = F[Rest(U)][Rest(U)]
      <4>1. U \in SUBSET S /\ Rest(U) \in SUBSET S
        BY <1>4, <2>1, <3>2
      <4> HIDE DEF Rest
      <4> QED BY <4>1, <2>1, <3>2, <3>3, FoldIsUnique
    <3>5. f[U] = g[<<c[U], F[Rest(U)][Rest(U)]>>]
      BY <2>1, <2>3
    <3> QED BY <3>1, <3>4, <3>5
  <2> QED BY <2>2, <2>3
<1>8. Folded(f, T, base, g, c)
  <2> SUFFICES ASSUME NEW U \in SUBSET T
               PROVE f[U] = IF U = {} THEN base ELSE g[<<c[U], f[Rest(U)]>>]
    BY DEF Folded
  <2>1. CASE U # {}
    <3>1. Rest(U) \in Proper
      BY <1>3, <2>1
    <3>2. f[Rest(U)] = F[Rest(U)][Rest(U)]
      BY <1>7, <3>1
    <3>3. f[U] = g[<<c[U], F[Rest(U)][Rest(U)]>>]
      BY <2>1
    <3> QED BY <2>1, <3>2, <3>3
  <2> QED BY <2>1
<1>9. Has(T)
  <2> HIDE DEF f
  <2> QED BY <1>6, <1>8
<1> QED BY <1>9 DEF Bad

(* Least and greatest numbers *)

LEMMA LeastNat == ASSUME NEW T, T \subseteq Nat, T # {} PROVE \E n \in T : \A m \in T : n <= m
<1>1. PICK n \in T : TRUE
  OBVIOUS
<1> DEFINE N == 0..n
           U == {0..m : m \in {k \in T : k <= n}}
<1>2. U \subseteq SUBSET N /\ U # {}
  BY <1>1
<1>8. IsFiniteSet(N)
  BY FS_Interval
<1>3. \A x \in U : \E m \in T : m <= n /\ x = 0..m
  OBVIOUS
<1>4. \A k \in T : k <= n => 0..k \in U
  OBVIOUS
<1> HIDE DEF U, N
<1>5. PICK x \in U : \A y \in U : ~ (y \subseteq x /\ y # x)
  BY <1>2, <1>8, SmallestSet
<1>6. PICK m \in T : m <= n /\ x = 0..m
  BY <1>3
<1>7. \A k \in T : m <= k
  <2> SUFFICES ASSUME NEW k \in T, k < m PROVE FALSE
    OBVIOUS
  <2>1. 0..k \in U /\ 0..k \subseteq 0..m /\ m \notin 0..k /\ m \in 0..m
    BY <1>4, <1>6
  <2> QED BY <1>5, <1>6, <2>1
<1> QED BY <1>7

LEMMA MaxIs ==
    ASSUME NEW T, NEW top \in Nat, T \subseteq 0..top, T # {}
    PROVE  Max(T) \in T /\ \A m \in T : m <= Max(T)
<1> DEFINE U == {top - m : m \in T}
<1>0. \A m \in T : m \in Nat /\ m <= top
  OBVIOUS
<1>1. U \subseteq Nat /\ U # {}
  <2>1. \A m \in T : top - m \in Nat
    BY <1>0
  <2> QED BY <2>1
<1> HIDE DEF U
<1>2. PICK n \in U : \A m \in U : n <= m
  BY <1>1, LeastNat
<1>3. PICK x \in T : n = top - x
  BY DEF U
<1>4. \A m \in T : x >= m
  <2> TAKE m \in T
  <2>1. top - m \in U
    BY DEF U
  <2> QED BY <1>0, <1>2, <1>3, <2>1
<1>5. Max(T) \in T /\ \A m \in T : Max(T) >= m
  BY <1>4 DEF Max
<1> QED BY <1>0, <1>5

\* What the first value of a fold has, and each step keeps, the fold has.
LEMMA FoldKeeps ==
    ASSUME NEW S, IsFiniteSet(S), NEW c, \A T \in SUBSET S : T # {} => c[T] \in T,
           NEW A, NEW f, f[{}] \in A,
           \A T \in SUBSET S : T # {} /\ f[T \ {c[T]}] \in A => f[T] \in A
    PROVE  f[S] \in A
<1> DEFINE Good == {T \in SUBSET S : f[T] \in A}
<1>1. {} \in Good
  OBVIOUS
<1>2. \A T \in SUBSET S : T # {} /\ T \ {c[T]} \in Good => T \in Good
  OBVIOUS
<1>3. SUBSET S \subseteq Good
  <2> HIDE DEF Good
  <2> QED BY <1>1, <1>2, TakingOut
<1> QED BY <1>3

--------------------------------------------------------------------------------
(* ProgramEngine: the columns of the vectorised engine *)

LEMMA ProgramNumbers ==
    /\ Bars \in Nat /\ FullWeight \in Nat /\ FullWeight > 0
    /\ \A w \in Weights : w \in Int /\ -FullWeight <= w /\ w <= FullWeight
    /\ 0 \in Weights /\ FullWeight \in Weights /\ -FullWeight \in Weights
BY ProgramAssumption DEF Weights

LEMMA SignIs == \A x \in Int : Sign(x) \in Int /\ Sign(x) = IF x > 0 THEN 1 ELSE IF x < 0 THEN -1 ELSE 0
BY DEF Sign

LEMMA ClipIs ==
    \A x, lo, hi \in Int : lo <= hi => /\ Clip(x, lo, hi) \in Int /\ lo <= Clip(x, lo, hi) /\ Clip(x, lo, hi) <= hi
                                       /\ lo <= x /\ x <= hi => Clip(x, lo, hi) = x
BY DEF Clip

(* Target and overlays *)

Overlays == [weight : Weights, entry : Nat, peak : Nat, trough : Nat, last : Nat]

LEMMA TargetFits ==
    ASSUME program \in Programs, sticky \in Weights, NEW raw \in Raws[program.output]
    PROVE  /\ Target(raw) \in Weights
           /\ (IF program.output = "target" THEN 0 ELSE RawTarget(raw)) \in Weights
<1>1. program.output \in {"target", "signals", "events"} /\ Raws["target"] \subseteq Int
  BY ProgramAssumption
<1>2. program.output = "target" => RawTarget(raw) \in Int
  BY <1>1 DEF RawTarget
<1>3. program.output = "signals" => RawTarget(raw) \in Weights
  <2>1. SignalTarget(raw) \in Weights
    BY ProgramNumbers DEF SignalTarget
  <2> QED BY <2>1 DEF RawTarget
<1>4. program.output = "events" => RawTarget(raw) \in Weights
  <2>1. EventTarget(raw) \in Weights
    BY ProgramNumbers DEF EventTarget
  <2> QED BY <2>1 DEF RawTarget
<1>5. RawTarget(raw) \in Int
  BY <1>1, <1>2, <1>3, <1>4, ProgramNumbers
<1>6. Target(raw) \in Weights
  <2> DEFINE lo == IF program.mode = "long_short" THEN -FullWeight ELSE 0
  <2>1. lo \in Int /\ FullWeight \in Int /\ lo <= FullWeight /\ -FullWeight <= lo
    BY ProgramNumbers
  <2>2. Target(raw) = Clip(RawTarget(raw), lo, FullWeight)
    BY DEF Target
  <2> HIDE DEF lo
  <2>3. Target(raw) \in Int /\ lo <= Target(raw) /\ Target(raw) <= FullWeight
    BY <1>5, <2>1, <2>2, ClipIs
  <2>4. -FullWeight <= Target(raw)
    BY <2>1, <2>3, ProgramNumbers
  <2> QED BY <2>3, <2>4, ProgramNumbers DEF Weights
<1> QED BY <1>1, <1>3, <1>4, <1>6, ProgramNumbers

\* What the overlays let through is within its limits, whatever it comes from.
LEMMA OverlayFits ==
    ASSUME program \in Programs, overlay \in Overlays, overlay.trough <= overlay.peak,
           NEW target \in Weights, NEW p \in BarCloses, overlay' = ApplyOverlay(target, p), program' = program
    PROVE  overlay' \in Overlays /\ overlay'.trough <= overlay'.peak /\ OverlaysHold'
<1>1. p \in Nat /\ p > 0 /\ {program.stop, program.take, program.trail} \subseteq Nat
  BY ProgramAssumption
<1> DEFINE o == Seen(p)
           desired == IF Hit(o, p) THEN 0 ELSE target
<1>2. /\ o \in Overlays /\ o.last = p /\ o.trough <= o.peak /\ o.weight = overlay.weight
  <2> DEFINE high == IF overlay.weight > 0 /\ p > overlay.peak THEN p ELSE overlay.peak
             low == IF overlay.weight < 0 /\ p < overlay.trough THEN p ELSE overlay.trough
  <2>1. overlay.peak \in Nat /\ overlay.trough \in Nat
    BY DEF Overlays
  <2>2. high \in Nat /\ low \in Nat /\ low <= high
    BY <1>1, <2>1
  <2>3. o = [overlay EXCEPT !.last = p, !.peak = high, !.trough = low]
    BY DEF Seen
  <2> HIDE DEF high, low, o
  <2>4. o \in Overlays
    BY <1>1, <2>2, <2>3 DEF Overlays
  <2>5. o.last = p /\ o.peak = high /\ o.trough = low /\ o.weight = overlay.weight
    BY <2>3 DEF Overlays
  <2> QED BY <2>2, <2>4, <2>5
<1>3. overlay' = IF desired = 0 THEN Flat
                 ELSE IF Sign(desired) = Sign(o.weight) THEN [o EXCEPT !.weight = desired]
                 ELSE [weight |-> desired, entry |-> p, peak |-> p, trough |-> p, last |-> p]
  BY DEF ApplyOverlay
<1>4. desired \in Weights /\ (desired # 0 => ~Hit(o, p) /\ desired = target)
  BY ProgramNumbers
<1>5. o.weight \in Int /\ desired \in Int /\ o.entry \in Nat /\ o.peak \in Nat /\ o.trough \in Nat
  BY <1>2, <1>4, ProgramNumbers DEF Overlays
<1> HIDE DEF o, desired
<1>6. CASE desired = 0
  BY <1>3, <1>6, ProgramNumbers DEF Flat, Overlays, OverlaysHold
<1>7. CASE desired # 0 /\ Sign(desired) # Sign(o.weight)
  <2>1. overlay' = [weight |-> desired, entry |-> p, peak |-> p, trough |-> p, last |-> p]
    BY <1>3, <1>7
  <2>2. overlay' \in Overlays /\ overlay'.trough <= overlay'.peak
    BY <1>1, <1>4, <2>1 DEF Overlays
  <2>3. \A pct \in Nat : pct # 0 => p * 100 > p * (100 - pct) /\ p * 100 < p * (100 + pct)
    <3> SUFFICES ASSUME NEW pct \in Nat, pct # 0
                 PROVE p * 100 > p * (100 - pct) /\ p * 100 < p * (100 + pct)
      OBVIOUS
    <3>1. p * (100 - pct) = p * 100 - p * pct /\ p * (100 + pct) = p * 100 + p * pct
      BY <1>1
    <3>2. p * pct > 0 /\ p * pct \in Int /\ p * 100 \in Int
      BY <1>1
    <3> QED BY <3>1, <3>2
  <2> QED BY <1>1, <2>1, <2>2, <2>3 DEF OverlaysHold
<1>8. CASE desired # 0 /\ Sign(desired) = Sign(o.weight)
  <2>1. overlay' = [o EXCEPT !.weight = desired] /\ ~Hit(o, p)
    BY <1>3, <1>4, <1>8
  <2>2. overlay' \in Overlays
    BY <1>2, <1>4, <2>1 DEF Overlays
  <2>3. /\ overlay'.weight = desired /\ overlay'.entry = o.entry /\ overlay'.peak = o.peak
        /\ overlay'.trough = o.trough /\ overlay'.last = p
    BY <1>2, <2>1 DEF Overlays
  <2>4. o.weight # 0 /\ (desired > 0 => o.weight > 0) /\ (desired < 0 => ~(o.weight > 0))
    BY <1>5, <1>8 DEF Sign
  <2>5. ASSUME desired > 0
        PROVE  /\ program.stop = 0 \/ p * 100 > o.entry * (100 - program.stop)
               /\ program.take = 0 \/ p * 100 < o.entry * (100 + program.take)
               /\ program.trail = 0 \/ p * 100 > o.peak * (100 - program.trail)
    <3>1. /\ p * 100 \in Int /\ o.entry * (100 - program.stop) \in Int
          /\ o.entry * (100 + program.take) \in Int /\ o.peak * (100 - program.trail) \in Int
      BY <1>1, <1>5
    <3> QED BY <2>1, <2>4, <2>5, <3>1 DEF Hit
  <2>6. ASSUME desired < 0
        PROVE  /\ program.stop = 0 \/ p * 100 < o.entry * (100 + program.stop)
               /\ program.take = 0 \/ p * 100 > o.entry * (100 - program.take)
               /\ program.trail = 0 \/ p * 100 < o.trough * (100 + program.trail)
    <3>1. /\ p * 100 \in Int /\ o.entry * (100 + program.stop) \in Int
          /\ o.entry * (100 - program.take) \in Int /\ o.trough * (100 + program.trail) \in Int
      BY <1>1, <1>5
    <3> QED BY <2>1, <2>4, <2>6, <3>1 DEF Hit
  <2>7. OverlaysHold'
    BY <2>3, <2>5, <2>6 DEF OverlaysHold
  <2> QED BY <1>2, <2>2, <2>3, <2>7
<1> QED BY <1>6, <1>7, <1>8

(* The fills of a bar *)

\* A property of the fills that every event keeps is a property of the bar.
LEMMA LifecycleKeeps ==
    ASSUME NEW caps \in Seq(Nat), NEW delta, NEW A, Submit(order, delta) \in A,
           \A s \in A, cap \in Nat : FillEvent(s, cap) \in A
    PROVE  Lifecycle(delta, caps) \in A
<1> DEFINE S == DOMAIN caps
           base == Submit(order, delta)
           g == [xs \in S \X A |-> FillEvent(xs[2], caps[xs[1]])]
           Is(it) == it = [T \in SUBSET S |->
                              IF T = {} THEN base
                              ELSE LET x == Max(T) IN FillEvent(it[T \ {x}], caps[x])]
           iter == CHOOSE it : Is(it)
<1>0. PICK c : c = [T \in SUBSET S |-> Max(T)]
  OBVIOUS
<1>1. S = 1..Len(caps) /\ Len(caps) \in Nat /\ \A x \in S : caps[x] \in Nat
  OBVIOUS
<1>2. IsFiniteSet(S)
  <2>1. IsFiniteSet(1..Len(caps))
    BY <1>1, FS_Interval
  <2> QED BY <1>1, <2>1
<1>3. Lifecycle(delta, caps) = iter[S]
  BY DEF Lifecycle, FoldLeft, MapThenFoldSet
<1>4. \A T \in SUBSET S : T # {} => Max(T) \in T
  <2> SUFFICES ASSUME NEW T \in SUBSET S, T # {} PROVE Max(T) \in T
    OBVIOUS
  <2>1. T \subseteq 0..Len(caps) /\ Len(caps) \in Nat
    BY <1>1
  <2> HIDE DEF S
  <2> QED BY <2>1, MaxIs
<1> HIDE DEF S
<1>5. \A T \in SUBSET S : T # {} => c[T] \in T
  BY <1>0, <1>4
<1>6. g \in [S \X A -> A]
  BY <1>1
<1> HIDE DEF base
<1>7. base \in A
  BY DEF base
<1>8. PICK f \in [SUBSET S -> A] : Folded(f, S, base, g, c)
  <2> HIDE DEF g
  <2> QED BY <1>2, <1>5, <1>6, <1>7, FoldExists
<1>9. Is(f)
  <2>1. ASSUME NEW T \in SUBSET S
        PROVE f[T] = IF T = {} THEN base ELSE LET x == Max(T) IN FillEvent(f[T \ {x}], caps[x])
    <3>1. c[T] = Max(T) /\ f[T] = IF T = {} THEN base ELSE g[<<c[T], f[T \ {c[T]}]>>]
      BY <1>0, <1>8 DEF Folded
    <3>2. T # {} => Max(T) \in S /\ f[T \ {Max(T)}] \in A
      BY <1>4
    <3>3. T # {} => g[<<Max(T), f[T \ {Max(T)}]>>] = FillEvent(f[T \ {Max(T)}], caps[Max(T)])
      BY <3>2
    <3> QED BY <3>1, <3>3
  <2>2. f = [T \in SUBSET S |-> f[T]]
    OBVIOUS
  <2> HIDE DEF g
  <2> QED BY <2>1, <2>2
<1>10. Is(iter)
  <2> HIDE DEF Is
  <2> QED BY <1>9
<1>11. iter[S] \in A
  <2> HIDE DEF iter
  <2>1. iter[{}] \in A
    BY <1>7, <1>10
  <2>2. ASSUME NEW T \in SUBSET S, T # {}, iter[T \ {c[T]}] \in A PROVE iter[T] \in A
    <3>1. iter[T] = FillEvent(iter[T \ {Max(T)}], caps[Max(T)]) /\ c[T] = Max(T)
      BY <1>0, <1>10, <2>2
    <3>2. caps[Max(T)] \in Nat
      BY <1>1, <1>4, <2>2
    <3> QED BY <2>2, <3>1, <3>2
  <2>3. \A T \in SUBSET S : T # {} /\ iter[T \ {c[T]}] \in A => iter[T] \in A
    BY <2>2
  <2> QED BY <1>2, <1>5, <2>1, <2>3, FoldKeeps
<1> QED BY <1>3, <1>11

LEMMA MinOfTwo == \A x, y \in Int : Min({x, y}) = IF x <= y THEN x ELSE y
<1> SUFFICES ASSUME NEW x \in Int, NEW y \in Int PROVE Min({x, y}) = IF x <= y THEN x ELSE y
  OBVIOUS
<1> DEFINE m == IF x <= y THEN x ELSE y
<1>1. m \in {x, y} /\ \A z \in {x, y} : m <= z
  OBVIOUS
<1>2. \A w \in {x, y} : (\A z \in {x, y} : w <= z) => w = m
  OBVIOUS
<1>3. Min({x, y}) = m
  <2> HIDE DEF m
  <2> QED BY <1>1, <1>2 DEF Min
<1> QED BY <1>3

Orders == [requested : Int, filled : Int]

\* Fills of a bar that account for the weight bought so far, with the weight
\* bought and the weight aimed at both within the bounds.
Fills == {s \in [open : Orders, closed : Int, bought : Int] :
             /\ booked + s.closed + s.open.filled = weight + s.bought
             /\ weight + s.bought \in Weights
             /\ weight + s.bought + Remaining(s.open) \in Weights}

LEMMA SubmitFits ==
    ASSUME order \in Orders, booked \in Int, weight \in Weights, booked + order.filled = weight,
           weight + Remaining(order) \in Weights, NEW due \in Weights
    PROVE  /\ Submit(order, due - weight) \in Fills
           /\ Submit(order, due - weight).bought = 0
<1>1. weight \in Int /\ due \in Int /\ order.filled \in Int /\ order.requested \in Int
  BY ProgramNumbers DEF Orders
<1>2. CASE due - weight = 0 \/ Remaining(order) = due - weight
  <2>1. Submit(order, due - weight) = [open |-> order, closed |-> 0, bought |-> 0]
    BY <1>2 DEF Submit
  <2>2. weight + 0 = weight /\ booked + 0 + order.filled = weight + 0
    BY <1>1
  <2> QED BY <1>1, <2>1, <2>2 DEF Fills, Remaining
<1>3. CASE ~(due - weight = 0 \/ Remaining(order) = due - weight)
  <2> DEFINE o == [requested |-> due - weight, filled |-> 0]
  <2>1. Submit(order, due - weight) = [open |-> o, closed |-> order.filled, bought |-> 0]
    BY <1>3 DEF Submit
  <2>2. o \in Orders /\ o.filled = 0 /\ Remaining(o) = due - weight
    BY <1>1 DEF Orders, Remaining
  <2> HIDE DEF o
  <2>3. weight + 0 = weight /\ booked + order.filled + 0 = weight + 0
        /\ weight + 0 + (due - weight) = due
    BY <1>1
  <2> QED BY <1>1, <2>1, <2>2, <2>3 DEF Fills
<1> QED BY <1>2, <1>3

LEMMA EventKeeps ==
    ASSUME booked \in Int, weight \in Weights, NEW s \in Fills, NEW cap \in Nat
    PROVE  FillEvent(s, cap) \in Fills
<1> DEFINE rem == Remaining(s.open)
           m == Min({Abs(rem), cap})
           qty == Sign(rem) * m
           filled == [s.open EXCEPT !.filled = @ + qty]
<1>1. /\ weight \in Int /\ s.open \in Orders /\ s.closed \in Int /\ s.bought \in Int
      /\ s.open.filled \in Int /\ s.open.requested \in Int /\ rem \in Int
      /\ rem = s.open.requested - s.open.filled
  BY ProgramNumbers DEF Fills, Orders, Remaining
<1>2. Abs(rem) \in Int /\ Abs(rem) = (IF rem < 0 THEN -rem ELSE rem)
  BY <1>1 DEF Abs
<1>3. m \in Int /\ 0 <= m /\ m <= Abs(rem)
  <2>1. Min({Abs(rem), cap}) = IF Abs(rem) <= cap THEN Abs(rem) ELSE cap
    BY <1>2, MinOfTwo
  <2> HIDE DEF rem
  <2> QED BY <1>1, <1>2, <2>1
<1>4. /\ qty \in Int
      /\ rem >= 0 => 0 <= qty /\ qty <= rem
      /\ rem <= 0 => rem <= qty /\ qty <= 0
  <2> HIDE DEF m, rem
  <2> QED BY <1>1, <1>2, <1>3 DEF Sign
<1> HIDE DEF qty
<1>5. filled \in Orders /\ filled.filled = s.open.filled + qty /\ Remaining(filled) = rem - qty
  <2>1. s.open.filled + qty \in Int
    BY <1>1, <1>4
  <2>2. filled \in Orders /\ filled.filled = s.open.filled + qty /\ filled.requested = s.open.requested
    BY <1>1, <2>1 DEF Orders
  <2> HIDE DEF filled
  <2> QED BY <1>1, <1>4, <2>2 DEF Remaining
<1>6. weight + (s.bought + qty) \in Weights /\ weight + (s.bought + qty) + (rem - qty) \in Weights
  <2>1. weight + s.bought \in Weights /\ weight + s.bought + rem \in Weights
    BY DEF Fills
  <2>2. FullWeight \in Int
    BY ProgramNumbers
  <2> HIDE DEF rem
  <2> QED BY <1>1, <1>4, <2>1, <2>2 DEF Weights
<1>7. FillEvent(s, cap) =
         IF s.open = NoOrder \/ cap = 0 THEN s
         ELSE IF Remaining(filled) # 0 THEN [s EXCEPT !.open = filled, !.bought = @ + qty]
         ELSE [open |-> NoOrder, closed |-> s.closed + filled.filled, bought |-> s.bought + qty]
  BY DEF FillEvent, qty
<1>8. booked + s.closed + s.open.filled = weight + s.bought
  BY DEF Fills
<1> HIDE DEF filled, rem
<1>9. CASE s.open = NoOrder \/ cap = 0
  BY <1>7, <1>9
<1>10. CASE ~(s.open = NoOrder \/ cap = 0) /\ Remaining(filled) # 0
  <2>1. FillEvent(s, cap) = [open |-> filled, closed |-> s.closed, bought |-> s.bought + qty]
    <3>1. s = [open |-> s.open, closed |-> s.closed, bought |-> s.bought]
      BY DEF Fills
    <3> QED BY <1>7, <1>10, <3>1
  <2>2. booked + s.closed + filled.filled = weight + (s.bought + qty)
    <3>1. booked + s.closed + (s.open.filled + qty) = weight + (s.bought + qty)
      BY <1>1, <1>4, <1>8
    <3> QED BY <1>5, <3>1
  <2>3. s.bought + qty \in Int
    BY <1>1, <1>4
  <2>4. weight + (s.bought + qty) + Remaining(filled) \in Weights
    BY <1>5, <1>6
  <2> QED BY <1>1, <1>5, <1>6, <2>1, <2>2, <2>3, <2>4 DEF Fills
<1>11. CASE ~(s.open = NoOrder \/ cap = 0) /\ Remaining(filled) = 0
  <2> DEFINE closed == s.closed + filled.filled
             bought == s.bought + qty
  <2>1. FillEvent(s, cap) = [open |-> NoOrder, closed |-> closed, bought |-> bought]
    BY <1>7, <1>11
  <2>2. closed \in Int /\ bought \in Int /\ filled.filled \in Int
    BY <1>1, <1>4, <1>5
  <2>3. booked + closed + 0 = weight + bought
    BY <1>1, <1>4, <1>5, <1>8
  <2>4. NoOrder \in Orders /\ NoOrder.filled = 0 /\ Remaining(NoOrder) = 0
    BY DEF NoOrder, Orders, Remaining
  <2>5. weight + bought + 0 \in Weights
    BY <1>1, <1>4, <1>6
  <2>6. weight + bought \in Weights
    BY <1>6
  <2> HIDE DEF closed, bought
  <2> QED BY <2>1, <2>2, <2>3, <2>4, <2>5, <2>6 DEF Fills
<1> QED BY <1>9, <1>10, <1>11

LEMMA LifecycleFits ==
    ASSUME order \in Orders, booked \in Int, weight \in Weights, booked + order.filled = weight,
           weight + Remaining(order) \in Weights, NEW due \in Weights, NEW caps \in Seq(Nat)
    PROVE  Lifecycle(due - weight, caps) \in Fills
<1>1. Submit(order, due - weight) \in Fills
  BY SubmitFits
<1>2. \A s \in Fills, cap \in Nat : FillEvent(s, cap) \in Fills
  BY EventKeeps
<1> QED BY <1>1, <1>2, LifecycleKeeps

(* The trade rows *)

Sides == {"none", "long", "short"}
Count(side) == IF side = "none" THEN 0 ELSE 1

LEMMA SideIs ==
    \A x \in Int : /\ Side(x) \in Sides /\ (Side(x) = "none" <=> x = 0)
                   /\ (Side(x) = "long" <=> x > 0) /\ (Side(x) = "short" <=> x < 0)
BY DEF Side, Sides

\* Cutting a trade on the weight of this bar: a row for each side that is left.
LEMMA CloseCuts ==
    ASSUME NEW old \in Int, NEW new \in Int, trade = Side(old)
    PROVE  /\ CloseTrade(new).side = Side(new)
           /\ CloseTrade(new).row \in {0, 1}
           /\ CloseTrade(new).row + Count(Side(new))
                = Count(Side(old)) + IF Sign(new) \notin {0, Sign(old)} THEN 1 ELSE 0
BY SideIs DEF CloseTrade, Count, Sign, Sides

\* Cutting it a bar late, on what was already held, comes to the same.
LEMMA OpenCuts ==
    ASSUME NEW old \in Int, NEW new \in Int, trade = Side(old)
    PROVE  /\ OpenTrade(old, new).side = Side(new)
           /\ OpenTrade(old, new).row \in {0, 1}
           /\ OpenTrade(old, new).row + Count(Side(new))
                = Count(Side(old)) + IF Sign(new) \notin {0, Sign(old)} THEN 1 ELSE 0
<1>1. CASE old > 0
  <2>1. trade = "long" /\ Sign(old) = 1
    BY <1>1, SideIs DEF Sign
  <2>2. CASE new > 0
    BY <1>1, <2>1, <2>2 DEF OpenTrade, Side, Count, Sign
  <2>3. CASE new = 0
    BY <1>1, <2>1, <2>3 DEF OpenTrade, Side, Count, Sign
  <2>4. CASE new < 0
    BY <1>1, <2>1, <2>4 DEF OpenTrade, Side, Count, Sign
  <2> QED BY <2>2, <2>3, <2>4
<1>2. CASE old = 0
  <2>1. trade = "none" /\ Sign(old) = 0
    BY <1>2, SideIs DEF Sign
  <2>2. CASE new > 0
    BY <1>2, <2>1, <2>2 DEF OpenTrade, Side, Count, Sign
  <2>3. CASE new = 0
    BY <1>2, <2>1, <2>3 DEF OpenTrade, Side, Count, Sign
  <2>4. CASE new < 0
    BY <1>2, <2>1, <2>4 DEF OpenTrade, Side, Count, Sign
  <2> QED BY <2>2, <2>3, <2>4
<1>3. CASE old < 0
  <2>1. trade = "short" /\ Sign(old) = -1
    BY <1>3, SideIs DEF Sign
  <2>2. CASE new > 0
    BY <1>3, <2>1, <2>2 DEF OpenTrade, Side, Count, Sign
  <2>3. CASE new = 0
    BY <1>3, <2>1, <2>3 DEF OpenTrade, Side, Count, Sign
  <2>4. CASE new < 0
    BY <1>3, <2>1, <2>4 DEF OpenTrade, Side, Count, Sign
  <2> QED BY <2>2, <2>3, <2>4
<1> QED BY <1>1, <1>2, <1>3

(* The delay line *)

LEMMA PipeMoves ==
    ASSUME pipe \in Seq(Weights), program \in Programs, Len(pipe) <= program.latency, NEW v \in Weights
    PROVE  LET line == Append(pipe, v)
               rest == IF Len(line) > program.latency THEN Tail(line) ELSE line
           IN  /\ (IF Len(line) > program.latency THEN Head(line) ELSE 0) \in Weights
               /\ rest \in Seq(Weights) /\ Len(rest) <= program.latency
<1> DEFINE line == Append(pipe, v)
<1>1. program.latency \in Nat
  BY ProgramAssumption
<1>2. line \in Seq(Weights) /\ Len(line) = Len(pipe) + 1 /\ Len(pipe) \in Nat /\ line # <<>>
  BY AppendProperties, LenProperties
<1> HIDE DEF line
<1>3. Head(line) \in Weights /\ Tail(line) \in Seq(Weights) /\ Len(Tail(line)) = Len(line) - 1
  BY <1>2, HeadTailProperties
<1>4. 0 \in Weights
  BY ProgramNumbers
<1>5. Len(line) > program.latency \/ Len(line) <= program.latency
  BY <1>1, <1>2
<1>6. CASE Len(line) > program.latency
  BY <1>1, <1>2, <1>3, <1>6 DEF line
<1>7. CASE ~(Len(line) > program.latency)
  BY <1>1, <1>2, <1>4, <1>7 DEF line
<1> QED BY <1>6, <1>7

(* The inductive invariant *)

ProgramInv ==
    /\ program \in Programs /\ bar \in 0..(Bars + 1) /\ sticky \in Weights
    /\ overlay \in Overlays /\ overlay.trough <= overlay.peak /\ OverlaysHold
    /\ pipe \in Seq(Weights) /\ Len(pipe) <= program.latency
    /\ aim \in Weights /\ was \in Weights /\ weight \in Weights
    /\ order \in Orders /\ booked \in Int
    /\ booked + order.filled = weight /\ weight + Remaining(order) \in Weights
    /\ trade \in Sides /\ rows \in Int /\ runs \in Int
    /\ rows + Count(trade) = runs
    /\ bar <= Bars => trade = Side(Executes(was, weight))

LEMMA InitProgram == ProgramInit => ProgramInv
<1> SUFFICES ASSUME ProgramInit PROVE ProgramInv
  OBVIOUS
<1>1. program \in Programs /\ program.latency \in Nat /\ Bars \in Nat
  BY ProgramAssumption, ProgramNumbers DEF ProgramInit
<1>2. Flat \in Overlays /\ Flat.weight = 0 /\ Flat.trough <= Flat.peak
  BY ProgramNumbers DEF Flat, Overlays
<1>3. OverlaysHold
  BY <1>2 DEF ProgramInit, OverlaysHold
<1>4. <<>> \in Seq(Weights) /\ Len(<<>>) = 0
  BY EmptySeq
<1>5. NoOrder \in Orders /\ NoOrder.filled = 0 /\ Remaining(NoOrder) = 0
  BY DEF NoOrder, Orders, Remaining
<1>6. Side(Executes(0, 0)) = "none" /\ Count("none") = 0
  BY DEF Side, Executes, Count
<1> QED BY <1>1, <1>2, <1>3, <1>4, <1>5, <1>6, ProgramNumbers DEF ProgramInit, ProgramInv, Sides

LEMMA BarKeeps == ASSUME ProgramInv, Bar PROVE ProgramInv'
<1>1. PICK p \in BarCloses, raw \in Raws[program.output],
           caps \in IF program.micro THEN MicroCaps ELSE {<<c>> : c \in BarCaps} : RunBar(p, raw, caps)
  BY DEF Bar
<1> DEFINE over == ApplyOverlay(Target(raw), p)
           line == Append(pipe, over.weight)
           due == IF Len(line) > program.latency THEN Head(line) ELSE 0
           life == Lifecycle(due - weight, caps)
           next == Clip(weight + life.bought, -FullWeight, FullWeight)
           cut == IF program.timing = "bar_close" THEN CloseTrade(next) ELSE OpenTrade(was, weight)
           before == Executes(was, weight)
           after == Executes(weight, next)
<1>2. /\ bar < Bars /\ bar' = bar + 1
      /\ sticky' = IF program.output = "target" THEN 0 ELSE RawTarget(raw)
      /\ overlay' = over
      /\ pipe' = IF Len(line) > program.latency THEN Tail(line) ELSE line
      /\ aim' = due /\ was' = weight /\ weight' = next
      /\ order' = life.open /\ booked' = booked + life.closed
      /\ trade' = cut.side /\ rows' = rows + cut.row
      /\ runs' = runs + IF Sign(after) \notin {0, Sign(before)} THEN 1 ELSE 0
      /\ program' = program
  BY <1>1 DEF RunBar
<1>3. caps \in Seq(Nat)
  <2>1. CASE program.micro
    BY <2>1, ProgramAssumption
  <2>2. CASE ~program.micro
    <3>1. PICK c \in BarCaps : caps = <<c>>
      BY <2>2
    <3>2. c \in Nat
      BY ProgramAssumption
    <3> QED BY <3>1, <3>2
  <2> QED BY <2>1, <2>2
<1>4. Target(raw) \in Weights /\ sticky' \in Weights
  BY <1>2, TargetFits DEF ProgramInv
<1>5. overlay' \in Overlays /\ overlay'.trough <= overlay'.peak /\ OverlaysHold'
  BY <1>2, <1>4, OverlayFits DEF ProgramInv
<1>6. over.weight \in Weights
  BY <1>2, <1>5 DEF Overlays
<1> HIDE DEF over
<1>7. due \in Weights /\ pipe' \in Seq(Weights) /\ Len(pipe') <= program.latency
  BY <1>2, <1>6, PipeMoves DEF ProgramInv
<1> HIDE DEF due
<1>8. life \in Fills
  BY <1>3, <1>7, LifecycleFits DEF ProgramInv
<1> HIDE DEF life
<1>9. /\ life.open \in Orders /\ life.closed \in Int /\ life.bought \in Int
      /\ booked + life.closed + life.open.filled = weight + life.bought
      /\ weight + life.bought \in Weights
      /\ weight + life.bought + Remaining(life.open) \in Weights
  BY <1>8 DEF Fills
<1>10. next = weight + life.bought
  <2>1. /\ weight + life.bought \in Int /\ FullWeight \in Int /\ -FullWeight \in Int
        /\ -FullWeight <= weight + life.bought /\ weight + life.bought <= FullWeight
        /\ -FullWeight <= FullWeight
    BY <1>9, ProgramNumbers
  <2> QED BY <2>1, ClipIs
<1> HIDE DEF next
<1>11. /\ order' \in Orders /\ booked' \in Int /\ weight' \in Weights
       /\ booked' + order'.filled = weight' /\ weight' + Remaining(order)' \in Weights
  <2>1. booked' \in Int /\ booked' + order'.filled = weight'
    BY <1>2, <1>9, <1>10 DEF ProgramInv
  <2> QED BY <1>2, <1>9, <1>10, <2>1 DEF Remaining
<1>12. weight \in Int /\ was \in Int /\ next \in Int /\ Bars \in Nat /\ bar \in Nat
  BY <1>2, <1>11, ProgramNumbers DEF ProgramInv
<1>13. trade = Side(before)
  BY <1>2, <1>12 DEF ProgramInv
<1>14. /\ cut.side = Side(after) /\ cut.row \in {0, 1}
       /\ cut.row + Count(Side(after))
            = Count(Side(before)) + IF Sign(after) \notin {0, Sign(before)} THEN 1 ELSE 0
  <2>1. CASE program.timing = "bar_close"
    <3>1. before = weight /\ after = next /\ cut = CloseTrade(next)
      BY <2>1 DEF Executes
    <3> HIDE DEF before, after, cut
    <3> QED BY <1>12, <1>13, <3>1, CloseCuts
  <2>2. CASE program.timing # "bar_close"
    <3>1. before = was /\ after = weight /\ cut = OpenTrade(was, weight)
      BY <2>2 DEF Executes
    <3> HIDE DEF before, after, cut
    <3> QED BY <1>12, <1>13, <3>1, OpenCuts
  <2> QED BY <2>1, <2>2
<1>15. before \in Int /\ after \in Int /\ Executes(was, weight)' = after
  BY <1>2, <1>12 DEF Executes
<1> HIDE DEF cut, before, after
<1>16. trade' = Side(Executes(was, weight)') /\ trade' \in Sides
  BY <1>2, <1>14, <1>15, SideIs
<1>17. rows' \in Int /\ runs' \in Int /\ rows' + Count(trade') = runs'
  <2> DEFINE new == IF Sign(after) \notin {0, Sign(before)} THEN 1 ELSE 0
  <2>1. rows' = rows + cut.row /\ runs' = runs + new /\ trade' = Side(after) /\ new \in Int
    BY <1>2, <1>14
  <2>2. cut.row + Count(Side(after)) = Count(trade) + new /\ cut.row \in Int
    BY <1>13, <1>14
  <2>3. rows \in Int /\ runs \in Int /\ rows + Count(trade) = runs
    BY DEF ProgramInv
  <2>4. Count(trade) \in Int /\ Count(Side(after)) \in Int
    BY DEF Count
  <2> HIDE DEF new
  <2>5. Count(trade') = Count(Side(after))
    BY <2>1
  <2>6. rows' \in Int /\ runs' \in Int
    BY <2>1, <2>2, <2>3
  <2>7. rows + cut.row + Count(Side(after)) = runs + new
    BY <2>1, <2>2, <2>3, <2>4
  <2> QED BY <2>1, <2>5, <2>6, <2>7
<1>18. bar' \in 0..(Bars + 1) /\ program' \in Programs
  BY <1>2, <1>12 DEF ProgramInv
<1> QED BY <1>2, <1>4, <1>5, <1>7, <1>11, <1>16, <1>17, <1>18 DEF ProgramInv, Side, Count

LEMMA GapKeeps == ASSUME ProgramInv, Gap PROVE ProgramInv'
<1> DEFINE line == Append(pipe, overlay.weight)
           due == IF Len(line) > program.latency THEN Head(line) ELSE 0
           placed == Submit(order, due - weight)
           cut == IF program.timing = "bar_close" THEN CloseTrade(weight) ELSE OpenTrade(was, weight)
           new == IF program.timing # "bar_close" /\ Sign(weight) \notin {0, Sign(was)} THEN 1 ELSE 0
<1>1. /\ bar < Bars /\ bar' = bar + 1
      /\ pipe' = IF Len(line) > program.latency THEN Tail(line) ELSE line
      /\ aim' = due /\ was' = weight /\ order' = placed.open /\ booked' = booked + placed.closed
      /\ trade' = cut.side /\ rows' = rows + cut.row
      /\ runs' = runs + new
      /\ program' = program /\ sticky' = sticky /\ overlay' = overlay /\ weight' = weight
  BY DEF Gap
<1>2. overlay.weight \in Weights
  BY DEF ProgramInv, Overlays
<1>3. due \in Weights /\ pipe' \in Seq(Weights) /\ Len(pipe') <= program.latency
  BY <1>1, <1>2, PipeMoves DEF ProgramInv
<1> HIDE DEF due
<1>4. placed \in Fills /\ placed.bought = 0
  BY <1>3, SubmitFits DEF ProgramInv
<1> HIDE DEF placed
<1>5. weight \in Int /\ was \in Int /\ Bars \in Nat /\ bar \in Nat
  BY ProgramNumbers DEF ProgramInv
<1>6. /\ order' \in Orders /\ booked' \in Int
      /\ booked' + order'.filled = weight' /\ weight' + Remaining(order)' \in Weights
  <2>1. /\ placed.open \in Orders /\ placed.closed \in Int
        /\ booked + placed.closed + placed.open.filled = weight + 0
        /\ weight + 0 + Remaining(placed.open) \in Weights
    BY <1>4 DEF Fills
  <2>2. Remaining(placed.open) \in Int
    BY <2>1 DEF Remaining, Orders
  <2>3. booked' \in Int /\ booked' + order'.filled = weight'
    BY <1>1, <1>5, <2>1 DEF ProgramInv
  <2>4. weight + Remaining(placed.open) \in Weights
    BY <1>5, <2>1, <2>2
  <2> QED BY <1>1, <2>1, <2>3, <2>4 DEF Remaining
<1>7. trade = Side(Executes(was, weight))
  BY <1>1, <1>5 DEF ProgramInv
<1>8. /\ cut.side = Side(weight) /\ cut.row \in {0, 1} /\ cut.row + Count(Side(weight)) = Count(trade) + new
  <2>1. CASE program.timing = "bar_close"
    <3>1. trade = Side(weight) /\ cut = CloseTrade(weight) /\ new = 0
      BY <1>7, <2>1 DEF Executes
    <3>2. Sign(weight) \in {0, Sign(weight)}
      OBVIOUS
    <3> HIDE DEF cut, new
    <3> QED BY <1>5, <3>1, <3>2, CloseCuts
  <2>2. CASE program.timing # "bar_close"
    <3>1. trade = Side(was) /\ cut = OpenTrade(was, weight)
          /\ new = IF Sign(weight) \notin {0, Sign(was)} THEN 1 ELSE 0
      BY <1>7, <2>2 DEF Executes
    <3> HIDE DEF cut, new
    <3> QED BY <1>5, <3>1, OpenCuts
  <2> QED BY <2>1, <2>2
<1>9. Executes(was, weight)' = weight
  BY <1>1 DEF Executes
<1>10. rows' \in Int /\ runs' \in Int /\ rows' + Count(trade') = runs'
  <2>1. rows \in Int /\ runs \in Int /\ rows + Count(trade) = runs /\ new \in Int
    BY DEF ProgramInv
  <2>2. Count(trade) \in Int /\ Count(Side(weight)) \in Int
    BY DEF Count
  <2> HIDE DEF cut, new
  <2>3. Count(trade') = Count(Side(weight))
    BY <1>1, <1>8
  <2>4. rows' = rows + cut.row /\ runs' = runs + new /\ cut.row \in Int
    BY <1>1, <1>8
  <2>5. rows' \in Int /\ runs' \in Int
    BY <2>1, <2>4
  <2>6. rows + cut.row + Count(Side(weight)) = runs + new
    BY <1>8, <2>1, <2>2, <2>4
  <2> QED BY <2>3, <2>4, <2>5, <2>6
<1> HIDE DEF cut, new
<1>11. trade' = Side(Executes(was, weight)') /\ trade' \in Sides
  BY <1>1, <1>5, <1>8, <1>9, SideIs
<1>12. bar' \in 0..(Bars + 1) /\ OverlaysHold'
  BY <1>1, <1>5 DEF ProgramInv, OverlaysHold
<1> QED BY <1>1, <1>3, <1>6, <1>10, <1>11, <1>12 DEF ProgramInv, Side, Count

LEMMA EndSeriesKeeps == ASSUME ProgramInv, EndSeries PROVE ProgramInv'
<1>1. /\ bar = Bars /\ bar' = Bars + 1 /\ order' = NoOrder /\ booked' = booked + order.filled
      /\ trade' = "none" /\ rows' = rows + Count(trade)
      /\ UNCHANGED <<program, sticky, overlay, pipe, aim, was, weight, runs>>
  BY DEF EndSeries, Count
<1>2. NoOrder \in Orders /\ NoOrder.filled = 0 /\ Remaining(NoOrder) = 0
  BY DEF NoOrder, Orders, Remaining
<1>3. weight \in Int /\ Bars \in Nat /\ order.filled \in Int
  BY ProgramNumbers DEF ProgramInv, Orders
<1>4. booked' \in Int /\ booked' + 0 = weight' /\ weight' + 0 \in Weights
  BY <1>1, <1>3 DEF ProgramInv
<1>5. rows' \in Int /\ rows' + 0 = runs'
  BY <1>1 DEF ProgramInv, Count
<1>6. OverlaysHold' /\ Remaining(order)' = 0
  BY <1>1, <1>2 DEF ProgramInv, OverlaysHold, Remaining
<1>7. ~(bar' <= Bars) /\ bar' \in 0..(Bars + 1)
  BY <1>1, <1>3
<1> QED BY <1>1, <1>2, <1>4, <1>5, <1>6, <1>7 DEF ProgramInv, Sides, Count

LEMMA ProgramKeeps == ProgramInv /\ [ProgramNext]_programVars => ProgramInv'
<1> SUFFICES ASSUME ProgramInv, [ProgramNext]_programVars PROVE ProgramInv'
  OBVIOUS
<1>1. CASE UNCHANGED programVars
  BY <1>1 DEF programVars, ProgramInv, OverlaysHold, Remaining, Executes, Side, Count
<1> QED BY <1>1, BarKeeps, GapKeeps, EndSeriesKeeps DEF ProgramNext

LEMMA ProgramInvariant == ProgramSpec => []ProgramInv
BY InitProgram, ProgramKeeps, PTL DEF ProgramSpec

\* The engine's state keeps its shape, and no weight leaves [-1, 1], for any
\* program, number of bars, latency, prices and caps: the order lifecycle and
\* the clip of engine.py.
THEOREM ProgramTypeCorrect == ProgramSpec => []ProgramTypeOK
<1>1. ProgramInv => ProgramTypeOK
  BY DEF ProgramInv, ProgramTypeOK, Overlays, Sides
<1> QED BY <1>1, ProgramInvariant, PTL

\* The fills written in the order rows add up to the weight that is held, and
\* the order at rest leads to a weight that can be held.
THEOREM FillsExplainWeights == ProgramSpec => []OrdersExplainWeight
<1>1. ProgramInv => OrdersExplainWeight
  BY DEF ProgramInv, OrdersExplainWeight
<1> QED BY <1>1, ProgramInvariant, PTL

\* A weight the overlays let through is within the limits of its own prices.
THEOREM LimitsHold == ProgramSpec => []OverlaysHold
<1>1. ProgramInv => OverlaysHold
  BY DEF ProgramInv
<1> QED BY <1>1, ProgramInvariant, PTL

\* The trade rows of either timing are the maximal runs of the executed weight.
THEOREM RowsAreRuns == ProgramSpec => []TradesAreRuns
<1>1. ProgramInv => TradesAreRuns
  BY DEF ProgramInv, TradesAreRuns, Count
<1> QED BY <1>1, ProgramInvariant, PTL

--------------------------------------------------------------------------------
(* The daily engine: arithmetic of orders *)

LEMMA EngineNumbers ==
    /\ BpsBase \in Nat \ {0} /\ SlipBps \in Nat /\ FeeBps \in Nat /\ Dust \in Nat
    /\ SlipBps < BpsBase /\ FeeBps < BpsBase /\ InitialCash \in Nat
    /\ IsFiniteSet(Symbols) /\ Primary \in Symbols
BY EngineAssumption, SignalAssumption

\* A product orders its factors.
LEMMA Cancel ==
    ASSUME NEW x \in Int, NEW y \in Int, NEW d \in Nat \ {0}, x * d <= y * d
    PROVE  x <= y
<1> SUFFICES ASSUME x > y PROVE FALSE
  OBVIOUS
<1>1. (x - y) * d >= d
  BY x - y >= 1
<1>2. (x - y) * d = x * d - y * d /\ x * d \in Int /\ y * d \in Int
  OBVIOUS
<1> QED BY <1>1, <1>2

LEMMA Monotone ==
    ASSUME NEW x \in Int, NEW y \in Int, NEW d \in Nat, x <= y
    PROVE  x * d <= y * d
<1>1. (y - x) * d >= 0
  BY y - x \in Nat
<1>2. (y - x) * d = y * d - x * d /\ x * d \in Int /\ y * d \in Int
  OBVIOUS
<1> QED BY <1>1, <1>2

\* Integer division rounds down, by less than one.
LEMMA Floor ==
    ASSUME NEW n \in Nat, NEW d \in Nat \ {0}
    PROVE  n \div d \in Nat /\ (n \div d) * d <= n /\ n < (n \div d) * d + d
OBVIOUS

LEMMA FeeIsPart == ASSUME NEW n \in Nat PROVE Fee(n) \in Nat /\ Fee(n) <= n /\ Fee(n) * BpsBase <= n * FeeBps
<1>1. n * FeeBps \in Nat
  BY EngineNumbers
<1>2. Fee(n) \in Nat /\ Fee(n) * BpsBase <= n * FeeBps
  BY <1>1, EngineNumbers, Floor DEF Fee
<1>3. n * FeeBps <= n * BpsBase
  <2>1. FeeBps * n <= BpsBase * n
    BY EngineNumbers, Monotone
  <2> QED BY <2>1, EngineNumbers
<1>4. Fee(n) * BpsBase <= n * BpsBase
  <2>1. Fee(n) * BpsBase \in Int /\ n * BpsBase \in Int
    BY <1>2, EngineNumbers
  <2> QED BY <1>1, <1>2, <1>3, <2>1
<1> QED BY <1>2, <1>4, Cancel, EngineNumbers

\* A sale brings at most the price.
LEMMA SaleIsBelowPrice ==
    ASSUME NEW shares \in Nat, NEW p \in Nat \ {0}
    PROVE  /\ SellFill(p) \in Nat \ {0}
           /\ (shares * SellFill(p)) \div BpsBase \in Nat
           /\ (shares * SellFill(p)) \div BpsBase <= shares * p
<1>1. SellFill(p) \in Nat \ {0} /\ SellFill(p) <= p * BpsBase
  <2> DEFINE k == BpsBase - SlipBps
  <2>1. k \in Nat \ {0} /\ k <= BpsBase
    BY EngineNumbers
  <2>2. k * p <= BpsBase * p
    BY <2>1, EngineNumbers, Monotone
  <2>3. p * k \in Nat \ {0}
    <3>1. 1 * p <= k * p
      BY <2>1, Monotone
    <3> QED BY <2>1, <3>1
  <2>4. SellFill(p) = p * k
    BY DEF SellFill
  <2> HIDE DEF k
  <2> QED BY <2>1, <2>2, <2>3, <2>4, EngineNumbers
<1> DEFINE n == shares * SellFill(p)
<1>2. n \in Nat
  BY <1>1
<1>3. n <= (shares * p) * BpsBase
  <2>1. SellFill(p) * shares <= (p * BpsBase) * shares
    BY <1>1, EngineNumbers, Monotone
  <2> QED BY <1>1, <2>1, EngineNumbers
<1> HIDE DEF n
<1>4. n \div BpsBase \in Nat /\ (n \div BpsBase) * BpsBase <= n
  BY <1>2, EngineNumbers, Floor
<1>5. (n \div BpsBase) * BpsBase <= (shares * p) * BpsBase
  <2>1. (n \div BpsBase) * BpsBase \in Int /\ (shares * p) * BpsBase \in Int
    BY <1>4, EngineNumbers
  <2> QED BY <1>2, <1>3, <1>4, <2>1
<1>6. n \div BpsBase <= shares * p
  BY <1>4, <1>5, Cancel, EngineNumbers
<1> QED BY <1>1, <1>4, <1>6 DEF n

\* What is affordable leaves the fee in cash.
LEMMA AffordableLeavesFee ==
    ASSUME NEW cash \in Nat
    PROVE  /\ MaxAffordable(cash) \in Nat
           /\ \A n \in Nat : n <= MaxAffordable(cash) => n + Fee(n) <= cash
<1> DEFINE d == BpsBase + FeeBps
           m == MaxAffordable(cash)
<1>1. d \in Nat \ {0} /\ cash * BpsBase \in Nat
  BY EngineNumbers
<1>2. m \in Nat /\ m * d <= cash * BpsBase
  BY <1>1, Floor DEF MaxAffordable
<1>3. ASSUME NEW n \in Nat, n <= m PROVE n + Fee(n) <= cash
  <2>1. n * d <= m * d
    BY <1>1, <1>2, <1>3, Monotone
  <2>2. n * d = n * BpsBase + n * FeeBps /\ n * BpsBase \in Nat /\ n * FeeBps \in Nat
    BY EngineNumbers
  <2>3. m * d \in Nat
    BY <1>1, <1>2
  <2>4. Fee(n) \in Nat /\ Fee(n) * BpsBase <= n * FeeBps /\ Fee(n) * BpsBase \in Nat
    BY FeeIsPart, EngineNumbers
  <2> HIDE DEF d, m
  <2>5. n * BpsBase + Fee(n) * BpsBase <= cash * BpsBase
    BY <1>1, <1>2, <2>1, <2>2, <2>3, <2>4
  <2>6. (n + Fee(n)) * BpsBase = n * BpsBase + Fee(n) * BpsBase
    BY <2>4, EngineNumbers
  <2>7. (n + Fee(n)) * BpsBase <= cash * BpsBase
    BY <2>5, <2>6
  <2>8. n + Fee(n) \in Int /\ cash \in Int /\ BpsBase \in Nat \ {0}
    BY <2>4, EngineNumbers
  <2> QED BY <2>7, <2>8, Cancel
<1> QED BY <1>2, <1>3

\* Prices of a day.
Prices == {px \in [Symbols -> Nat \ {0}] :
               \A s \in Symbols : px[s] * (BpsBase + SlipBps) <= (Dust + 1) * BpsBase}

\* A purchase is worth at most what it costs, and more than dust buys a share.
LEMMA PurchaseIsAbovePrice ==
    ASSUME NEW px \in Prices, NEW s \in Symbols, NEW n \in Nat
    PROVE  LET shares == (n * BpsBase) \div BuyFill(px[s])
           IN  /\ BuyFill(px[s]) \in Nat \ {0}
               /\ shares \in Nat /\ shares * px[s] <= n /\ (n > Dust => shares >= 1)
<1> DEFINE d == BuyFill(px[s])
           shares == (n * BpsBase) \div d
           k == BpsBase + SlipBps
<1>1. px[s] \in Nat \ {0} /\ k \in Nat \ {0} /\ BpsBase <= k /\ d = px[s] * k
  BY EngineNumbers DEF Prices, BuyFill
<1>2. d \in Nat \ {0} /\ px[s] * BpsBase <= d
  <2>1. BpsBase * px[s] <= k * px[s] /\ 1 * px[s] <= k * px[s]
    BY <1>1, EngineNumbers, Monotone
  <2> HIDE DEF d, k
  <2> QED BY <1>1, <2>1, EngineNumbers
<1>3. n * BpsBase \in Nat
  BY EngineNumbers
<1>4. shares \in Nat /\ shares * d <= n * BpsBase /\ n * BpsBase < shares * d + d
  <2> HIDE DEF d
  <2> QED BY <1>2, <1>3, Floor
<1>5. shares * px[s] <= n
  <2> HIDE DEF shares, d
  <2>1. (px[s] * BpsBase) * shares <= d * shares
    BY <1>1, <1>2, <1>4, EngineNumbers, Monotone
  <2>2. (shares * px[s]) * BpsBase = (px[s] * BpsBase) * shares /\ d * shares = shares * d
    BY <1>1, <1>2, <1>4, EngineNumbers
  <2>3. (shares * px[s]) * BpsBase \in Int /\ shares * d \in Int /\ shares * px[s] \in Int
    BY <1>1, <1>2, <1>4, EngineNumbers
  <2>4. (shares * px[s]) * BpsBase <= n * BpsBase
    BY <1>3, <1>4, <2>1, <2>2, <2>3
  <2> QED BY <2>3, <2>4, EngineNumbers, Cancel
<1>6. ASSUME n > Dust PROVE shares >= 1
  <2>1. d <= (Dust + 1) * BpsBase
    BY <1>1 DEF Prices, BuyFill
  <2>2. (Dust + 1) * BpsBase <= n * BpsBase
    BY <1>6, EngineNumbers, Monotone
  <2>3. (Dust + 1) * BpsBase \in Int
    BY EngineNumbers
  <2> HIDE DEF shares, d, k
  <2>4. d <= n * BpsBase
    BY <1>2, <1>3, <2>1, <2>2, <2>3
  <2>5. shares # 0
    BY <1>2, <1>3, <1>4, <2>4
  <2> QED BY <1>4, <2>5
<1> QED BY <1>2, <1>4, <1>5, <1>6

(* Sums *)

\* The element that a fold takes from each subset of S.
Chosen(S) == [T \in SUBSET S |-> CHOOSE x \in T : TRUE]
LEMMA ChosenIs ==
    ASSUME NEW S, NEW T \in SUBSET S
    PROVE  Chosen(S)[T] = (CHOOSE x \in T : TRUE) /\ (T # {} => Chosen(S)[T] \in T)
BY DEF Chosen

\* it holds the sums of f over the subsets of S.
Sums(it, f, S) ==
    /\ SumOver(f, S) = it[S] /\ it[{}] = 0
    /\ \A T \in SUBSET S : it[T] \in Int
    /\ \A T \in SUBSET S : T # {} => it[T] = f[Chosen(S)[T]] + it[T \ {Chosen(S)[T]}]

\* A sum adds its terms one at a time, in an order that depends on the set only.
LEMMA SumUnfolds ==
    ASSUME NEW S, IsFiniteSet(S), NEW f, \A x \in S : f[x] \in Int
    PROVE  \E it : Sums(it, f, S)
<1>0. PICK c : c = Chosen(S)
  OBVIOUS
<1> DEFINE g == [xs \in S \X Int |-> f[xs[1]] + xs[2]]
           Is(it) == it = [T \in SUBSET S |->
                              IF T = {} THEN 0
                              ELSE LET x == CHOOSE x \in T : TRUE IN f[x] + it[T \ {x}]]
           iter == CHOOSE it : Is(it)
<1>1. SumOver(f, S) = iter[S]
  BY DEF SumOver, MapThenSumSet, MapThenFoldSet
<1>2. \A T \in SUBSET S : c[T] = (CHOOSE x \in T : TRUE) /\ (T # {} => c[T] \in T)
  BY <1>0, ChosenIs
<1>3. g \in [S \X Int -> Int]
  OBVIOUS
<1>4. PICK h \in [SUBSET S -> Int] : Folded(h, S, 0, g, c)
  <2> HIDE DEF g
  <2>1. \A T \in SUBSET S : T # {} => c[T] \in T
    BY <1>2
  <2>2. PICK zero : zero = 0 /\ zero \in Int
    OBVIOUS
  <2>3. \E h \in [SUBSET S -> Int] : Folded(h, S, zero, g, c)
    BY <1>3, <2>1, <2>2, FoldExists
  <2> QED BY <2>2, <2>3
<1>5. Is(h)
  <2>1. ASSUME NEW T \in SUBSET S
        PROVE h[T] = IF T = {} THEN 0 ELSE LET x == CHOOSE x \in T : TRUE IN f[x] + h[T \ {x}]
    <3>1. c[T] = (CHOOSE x \in T : TRUE) /\ h[T] = IF T = {} THEN 0 ELSE g[<<c[T], h[T \ {c[T]}]>>]
      BY <1>2, <1>4 DEF Folded
    <3>2. T # {} => c[T] \in S /\ h[T \ {c[T]}] \in Int
      BY <1>2
    <3>3. T # {} => g[<<c[T], h[T \ {c[T]}]>>] = f[c[T]] + h[T \ {c[T]}]
      BY <3>2
    <3> QED BY <3>1, <3>3
  <2>2. h = [T \in SUBSET S |-> h[T]]
    OBVIOUS
  <2> HIDE DEF g
  <2> QED BY <2>1, <2>2
<1>6. Is(iter)
  <2> HIDE DEF Is
  <2> QED BY <1>5
<1>7. iter[{}] = 0 /\ \A T \in SUBSET S : T # {} => iter[T] = f[c[T]] + iter[T \ {c[T]}]
  <2> HIDE DEF iter
  <2> QED BY <1>2, <1>6
<1> HIDE DEF iter
<1>8. PICK Good : Good = {T \in SUBSET S : iter[T] \in Int}
  OBVIOUS
<1>9. {} \in Good
  BY <1>7, <1>8
<1>10. ASSUME NEW T \in SUBSET S, T # {}, T \ {c[T]} \in Good PROVE T \in Good
  <2>1. f[c[T]] \in Int /\ iter[T \ {c[T]}] \in Int
    BY <1>2, <1>8, <1>10
  <2>2. iter[T] = f[c[T]] + iter[T \ {c[T]}]
    BY <1>7, <1>10
  <2>3. iter[T] \in Int
    BY <2>1, <2>2
  <2> QED BY <1>8, <2>3
<1>11. SUBSET S \subseteq Good
  <2>1. \A T \in SUBSET S : T # {} /\ T \ {c[T]} \in Good => T \in Good
    BY <1>10
  <2> QED BY <1>2, <1>9, <2>1, TakingOut
<1>12. Sums(iter, f, S)
  BY <1>0, <1>1, <1>7, <1>8, <1>11 DEF Sums
<1> QED BY <1>12

LEMMA SumIsNat ==
    ASSUME NEW S, IsFiniteSet(S), NEW f, \A x \in S : f[x] \in Nat
    PROVE  SumOver(f, S) \in Nat
<1>1. PICK c : c = Chosen(S)
  OBVIOUS
<1>2. \A x \in S : f[x] \in Int
  OBVIOUS
<1>3. PICK it : Sums(it, f, S)
  BY <1>2, SumUnfolds
<1>4. PICK Good : Good = {T \in SUBSET S : it[T] \in Nat}
  OBVIOUS
<1>5. \A T \in SUBSET S : T # {} => c[T] \in T
  BY <1>1, ChosenIs
<1>6. ASSUME NEW T \in SUBSET S, T # {}, T \ {c[T]} \in Good PROVE T \in Good
  <2> DEFINE R == T \ {c[T]}
  <2>1. R \in SUBSET S /\ c[T] \in S /\ it[R] \in Nat
    BY <1>4, <1>5, <1>6
  <2>2. it[T] = f[c[T]] + it[R]
    BY <1>1, <1>3, <1>6 DEF Sums
  <2>3. f[c[T]] \in Nat
    BY <2>1
  <2>4. it[T] \in Nat
    <3> HIDE DEF R
    <3> QED BY <2>1, <2>2, <2>3
  <2> QED BY <1>4, <2>4
<1>7. \A T \in SUBSET S : T # {} /\ T \ {c[T]} \in Good => T \in Good
  BY <1>6
<1>8. SUBSET S \subseteq Good
  <2>1. {} \in Good
    BY <1>3, <1>4 DEF Sums
  <2>2. IsFiniteSet(S)
    OBVIOUS
  <2> QED BY <1>5, <1>7, <2>1, <2>2, TakingOut, SMTT(60)
<1> QED BY <1>3, <1>4, <1>8 DEF Sums

\* Changing one term changes the sum by as much.
LEMMA SumChanges ==
    ASSUME NEW S, IsFiniteSet(S), NEW f, \A x \in S : f[x] \in Int,
           NEW h, NEW s \in S, h[s] \in Int, \A x \in S \ {s} : h[x] = f[x]
    PROVE  SumOver(h, S) = SumOver(f, S) - f[s] + h[s]
<1>1. PICK c : c = Chosen(S)
  OBVIOUS
<1>2. \A x \in S : h[x] \in Int
  OBVIOUS
<1>3. PICK it : Sums(it, f, S)
  BY SumUnfolds
<1>4. PICK ju : Sums(ju, h, S)
  BY <1>2, SumUnfolds
<1>5. \A T \in SUBSET S : T # {} => c[T] \in T
  BY <1>1, ChosenIs
<1>6. PICK Good : Good = {T \in SUBSET S : ju[T] = IF s \in T THEN it[T] - f[s] + h[s] ELSE it[T]}
  OBVIOUS
<1>7. ASSUME NEW T \in SUBSET S, T # {}, T \ {c[T]} \in Good PROVE T \in Good
  <2> DEFINE R == T \ {c[T]}
  <2>1. /\ c[T] \in T /\ c[T] \in S /\ R \in SUBSET S
        /\ it[T] = f[c[T]] + it[R] /\ ju[T] = h[c[T]] + ju[R]
        /\ it[R] \in Int /\ ju[R] \in Int /\ f[c[T]] \in Int /\ h[c[T]] \in Int /\ f[s] \in Int
        /\ ju[R] = IF s \in R THEN it[R] - f[s] + h[s] ELSE it[R]
    <3>1. c[T] \in T /\ c[T] \in S /\ R \in SUBSET S
      BY <1>5, <1>7
    <3>2. it[T] = f[c[T]] + it[R] /\ it[R] \in Int
      BY <1>1, <1>3, <1>7, <3>1 DEF Sums
    <3>3. ju[T] = h[c[T]] + ju[R] /\ ju[R] \in Int
      BY <1>1, <1>4, <1>7, <3>1 DEF Sums
    <3>4. f[c[T]] \in Int /\ h[c[T]] \in Int /\ f[s] \in Int
      BY <1>2, <3>1
    <3>5. ju[R] = IF s \in R THEN it[R] - f[s] + h[s] ELSE it[R]
      BY <1>6, <1>7
    <3> QED BY <3>1, <3>2, <3>3, <3>4, <3>5
  <2>2. CASE c[T] = s
    <3>1. s \in T /\ s \notin R
      BY <2>1, <2>2
    <3>2. ju[T] = it[T] - f[s] + h[s]
      <4> HIDE DEF R
      <4> QED BY <2>1, <2>2, <3>1
    <3> QED BY <1>6, <3>1, <3>2
  <2>3. CASE c[T] # s
    <3>1. (s \in T <=> s \in R) /\ h[c[T]] = f[c[T]]
      BY <2>1, <2>3
    <3>2. ju[T] = IF s \in T THEN it[T] - f[s] + h[s] ELSE it[T]
      <4> HIDE DEF R
      <4> QED BY <2>1, <3>1
    <3> QED BY <1>6, <3>2
  <2> QED BY <2>2, <2>3
<1>8. \A T \in SUBSET S : T # {} /\ T \ {c[T]} \in Good => T \in Good
  BY <1>7
<1>9. SUBSET S \subseteq Good
  <2>1. {} \in Good
    BY <1>3, <1>4, <1>6 DEF Sums
  <2> QED BY <1>5, <1>8, <2>1, TakingOut
<1> QED BY <1>3, <1>4, <1>6, <1>9 DEF Sums

\* A term of a sum of natural numbers is at most the sum.
LEMMA TermIsPart ==
    ASSUME NEW S, IsFiniteSet(S), NEW f, \A x \in S : f[x] \in Nat, NEW s \in S
    PROVE  f[s] <= SumOver(f, S)
<1>1. PICK h : h = [x \in S |-> IF x = s THEN 0 ELSE f[x]]
  OBVIOUS
<1>2. SumOver(h, S) \in Nat /\ SumOver(f, S) \in Nat
  BY <1>1, SumIsNat
<1>3. SumOver(h, S) = SumOver(f, S) - f[s] + 0
  <2>1. h[s] = 0 /\ h[s] \in Int /\ (\A x \in S : f[x] \in Int) /\ \A x \in S \ {s} : h[x] = f[x]
    BY <1>1
  <2>2. SumOver(h, S) = SumOver(f, S) - f[s] + h[s]
    BY <2>1, SumChanges
  <2> QED BY <2>1, <2>2
<1> QED BY <1>2, <1>3

(* Accounts *)

Legs == {NoLeg} \cup [day : Nat \ {0}, equity : Nat \ {0}]
TradeRows == [symbol : Symbols, in : Nat, out : Nat, pnl : Int]
Signals == [day : Nat, target : Percent]
Risks == [kind : {"none", "halt_portfolio", "close_position"}, symbol : Symbols]
Accounts ==
    [cash : Nat, qty : [Symbols -> Nat], entry : [Symbols -> Nat], pv : Nat, hwm : Nat,
     halted : BOOLEAN, pending : Signals, risk : Risks, legs : [Symbols -> Legs],
     trades : Seq(TradeRows)]

\* What the journal leaves alone, and what orders leave alone.
SameMoney(a, b) == b.cash = a.cash /\ b.qty = a.qty /\ b.entry = a.entry /\ b.pv = a.pv
SameControl(a, b) ==
    b.hwm = a.hwm /\ b.halted = a.halted /\ b.pending = a.pending /\ b.risk = a.risk

LEMMA AccountFields ==
    ASSUME NEW a \in Accounts
    PROVE  /\ a.cash \in Nat /\ a.qty \in [Symbols -> Nat] /\ a.entry \in [Symbols -> Nat]
           /\ a.pv \in Nat /\ a.hwm \in Nat /\ a.halted \in BOOLEAN /\ a.pending \in Signals
           /\ a.risk \in Risks /\ a.legs \in [Symbols -> Legs] /\ a.trades \in Seq(TradeRows)
BY DEF Accounts

\* An account with other money, another mark or another journal.
WithMoney(a, cash, qty, entry) == [a EXCEPT !.cash = cash, !.qty = qty, !.entry = entry]
WithMark(a, pv) == [a EXCEPT !.pv = pv]
WithJournal(a, legs, trades) == [a EXCEPT !.legs = legs, !.trades = trades]

LEMMA MoneyMoves ==
    ASSUME NEW a \in Accounts, NEW cash \in Nat, NEW qty \in [Symbols -> Nat],
           NEW entry \in [Symbols -> Nat]
    PROVE  LET b == WithMoney(a, cash, qty, entry)
           IN  /\ b \in Accounts /\ SameControl(a, b)
               /\ b.cash = cash /\ b.qty = qty /\ b.entry = entry
               /\ b.pv = a.pv /\ b.legs = a.legs /\ b.trades = a.trades
BY DEF Accounts, SameControl, WithMoney

LEMMA MarkMoves ==
    ASSUME NEW a \in Accounts, NEW pv \in Nat
    PROVE  LET b == WithMark(a, pv)
           IN  /\ b \in Accounts /\ SameControl(a, b) /\ b.pv = pv
               /\ b.cash = a.cash /\ b.qty = a.qty /\ b.entry = a.entry
               /\ b.legs = a.legs /\ b.trades = a.trades
BY DEF Accounts, SameControl, WithMark

LEMMA JournalMoves ==
    ASSUME NEW a \in Accounts, NEW legs \in [Symbols -> Legs], NEW trades \in Seq(TradeRows)
    PROVE  LET b == WithJournal(a, legs, trades)
           IN  /\ b \in Accounts /\ SameMoney(a, b) /\ SameControl(a, b)
               /\ b.legs = legs /\ b.trades = trades
BY DEF Accounts, SameMoney, SameControl, WithJournal

LEMMA EntryRecorded ==
    ASSUME NEW a \in Accounts, NEW s \in Symbols, NEW d \in Nat \ {0}, NEW equity \in Nat \ {0}
    PROVE  LET b == RecordEntry(a, s, d, equity)
           IN  b \in Accounts /\ SameMoney(a, b) /\ SameControl(a, b) /\ OpenLegs(b) = OpenLegs(a) \cup {s}
<1>1. CASE s \in OpenLegs(a)
  <2>1. RecordEntry(a, s, d, equity) = a
    BY <1>1 DEF RecordEntry
  <2> QED BY <1>1, <2>1 DEF SameMoney, SameControl
<1>2. CASE s \notin OpenLegs(a)
  <2> DEFINE leg == [day |-> d, equity |-> equity]
             legs == [a.legs EXCEPT ![s] = leg]
             b == WithJournal(a, legs, a.trades)
  <2>1. a.legs \in [Symbols -> Legs] /\ a.trades \in Seq(TradeRows)
    BY AccountFields
  <2>2. leg \in Legs /\ leg.day # 0
    BY DEF Legs
  <2>3. legs \in [Symbols -> Legs] /\ legs[s] = leg /\ \A x \in Symbols \ {s} : legs[x] = a.legs[x]
    BY <2>1, <2>2
  <2>4. b \in Accounts /\ SameMoney(a, b) /\ SameControl(a, b) /\ b.legs = legs
    <3> HIDE DEF legs
    <3> QED BY <2>1, <2>3, JournalMoves
  <2>5. RecordEntry(a, s, d, equity) = b
    <3>1. RecordEntry(a, s, d, equity) = [a EXCEPT !.legs = legs]
      BY <1>2, <2>1 DEF RecordEntry
    <3>2. [a EXCEPT !.legs = legs] = b
      BY DEF Accounts, WithJournal
    <3> QED BY <3>1, <3>2
  <2> HIDE DEF leg, legs, b
  <2>6. OpenLegs(b) = OpenLegs(a) \cup {s}
    BY <2>2, <2>3, <2>4 DEF OpenLegs
  <2> QED BY <2>4, <2>5, <2>6
<1> QED BY <1>1, <1>2

LEMMA ExitRecorded ==
    ASSUME NEW a \in Accounts, NEW s \in Symbols, NEW d \in Nat, NEW equity \in Nat
    PROVE  LET b == RecordExit(a, s, d, equity)
           IN  b \in Accounts /\ SameMoney(a, b) /\ SameControl(a, b) /\ OpenLegs(b) = OpenLegs(a) \ {s}
<1>1. CASE s \notin OpenLegs(a)
  <2>1. RecordExit(a, s, d, equity) = a
    BY <1>1 DEF RecordExit
  <2> QED BY <1>1, <2>1 DEF SameMoney, SameControl
<1>2. CASE s \in OpenLegs(a)
  <2> DEFINE paid == a.legs[s].equity
             row == [symbol |-> s, in |-> a.legs[s].day, out |-> d,
                     pnl |-> ((equity - paid) * 100) \div paid]
             legs == [a.legs EXCEPT ![s] = NoLeg]
             trades == Append(a.trades, row)
             b == WithJournal(a, legs, trades)
  <2>1. a.legs \in [Symbols -> Legs] /\ a.trades \in Seq(TradeRows)
    BY AccountFields
  <2>2. NoLeg \in Legs /\ NoLeg.day = 0
    BY DEF Legs, NoLeg
  <2>3. legs \in [Symbols -> Legs] /\ legs[s] = NoLeg /\ \A x \in Symbols \ {s} : legs[x] = a.legs[x]
    BY <2>1, <2>2
  <2>4. a.legs[s].day \in Nat /\ paid \in Nat \ {0}
    <3>1. a.legs[s] \in Legs /\ a.legs[s].day # 0
      BY <1>2, <2>1 DEF OpenLegs
    <3>2. a.legs[s] # NoLeg
      BY <2>2, <3>1
    <3>3. a.legs[s] \in [day : Nat \ {0}, equity : Nat \ {0}]
      BY <3>1, <3>2 DEF Legs
    <3> QED BY <3>3
  <2>5. ((equity - paid) * 100) \div paid \in Int
    <3> HIDE DEF paid
    <3> QED BY <2>4
  <2>6. row \in TradeRows
    <3> HIDE DEF paid
    <3> QED BY <2>4, <2>5 DEF TradeRows
  <2>7. trades \in Seq(TradeRows)
    <3> HIDE DEF row
    <3> QED BY <2>1, <2>6, AppendProperties
  <2>8. b \in Accounts /\ SameMoney(a, b) /\ SameControl(a, b) /\ b.legs = legs
    <3> HIDE DEF legs, trades
    <3> QED BY <2>3, <2>7, JournalMoves
  <2>9. RecordExit(a, s, d, equity) = b
    BY <1>2, <2>1 DEF RecordExit, Accounts, WithJournal
  <2> HIDE DEF legs, b
  <2>10. OpenLegs(b) = OpenLegs(a) \ {s}
    BY <2>2, <2>3, <2>8 DEF OpenLegs
  <2> QED BY <2>8, <2>9, <2>10
<1> QED BY <1>1, <1>2

(* What an account is worth *)

LEMMA WorthIs ==
    ASSUME NEW a \in Accounts, NEW px \in Prices
    PROVE  /\ ValueOf(a, px) \in Nat
           /\ \A s \in Symbols : a.qty[s] * px[s] \in Nat /\ a.qty[s] * px[s] <= ValueOf(a, px)
<1> DEFINE f == [s \in Symbols |-> a.qty[s] * px[s]]
<1>1. \A s \in Symbols : f[s] = a.qty[s] * px[s] /\ f[s] \in Nat
  BY AccountFields DEF Prices
<1>2. ValueOf(a, px) = a.cash + SumOver(f, Symbols)
  BY DEF ValueOf
<1> HIDE DEF f
<1>3. SumOver(f, Symbols) \in Nat /\ \A s \in Symbols : f[s] <= SumOver(f, Symbols)
  BY <1>1, EngineNumbers, SumIsNat, TermIsPart
<1>4. a.cash \in Nat
  BY AccountFields
<1> QED BY <1>1, <1>2, <1>3, <1>4

LEMMA WorthMoves ==
    ASSUME NEW a \in Accounts, NEW b \in Accounts, NEW px \in Prices, NEW s \in Symbols,
           \A x \in Symbols \ {s} : b.qty[x] = a.qty[x]
    PROVE  ValueOf(b, px) = ValueOf(a, px) + (b.cash - a.cash) + (b.qty[s] * px[s] - a.qty[s] * px[s])
<1> DEFINE f == [x \in Symbols |-> a.qty[x] * px[x]]
           h == [x \in Symbols |-> b.qty[x] * px[x]]
<1>1. \A x \in Symbols : f[x] = a.qty[x] * px[x] /\ f[x] \in Nat /\ h[x] = b.qty[x] * px[x] /\ h[x] \in Nat
  BY AccountFields DEF Prices
<1>2. \A x \in Symbols \ {s} : h[x] = f[x]
  OBVIOUS
<1>3. ValueOf(a, px) = a.cash + SumOver(f, Symbols) /\ ValueOf(b, px) = b.cash + SumOver(h, Symbols)
  BY DEF ValueOf
<1> HIDE DEF f, h
<1>4. \A x \in Symbols : f[x] \in Int
  BY <1>1
<1>5. h[s] \in Int
  BY <1>1
<1>6. SumOver(h, Symbols) = SumOver(f, Symbols) - f[s] + h[s]
  BY <1>2, <1>4, <1>5, EngineNumbers, SumChanges
<1>7. SumOver(f, Symbols) \in Nat
  BY <1>1, EngineNumbers, SumIsNat
<1>8. a.cash \in Nat /\ b.cash \in Nat
  BY AccountFields
<1>9. f[s] = a.qty[s] * px[s] /\ h[s] = b.qty[s] * px[s] /\ f[s] \in Int /\ h[s] \in Int
  BY <1>1
<1> QED BY <1>3, <1>6, <1>7, <1>8, <1>9

(* Orders *)

\* What every order keeps: it creates no money and stays out of control state,
\* and the journal mirrors the positions if it did before.
Dealt(a, b, px) ==
    /\ b \in Accounts /\ SameControl(a, b) /\ ValueOf(b, px) <= ValueOf(a, px)
    /\ (OpenLegs(a) = Held(a) => OpenLegs(b) = Held(b))

LEMMA DealtTwice ==
    ASSUME NEW a \in Accounts, NEW px \in Prices, NEW b, NEW c, Dealt(a, b, px), Dealt(b, c, px)
    PROVE  Dealt(a, c, px)
<1>1. ValueOf(a, px) \in Nat /\ ValueOf(b, px) \in Nat /\ ValueOf(c, px) \in Nat
  BY WorthIs DEF Dealt
<1> QED BY <1>1 DEF Dealt, SameControl

LEMMA DealtNothing == ASSUME NEW a \in Accounts, NEW px \in Prices PROVE Dealt(a, a, px)
<1>1. ValueOf(a, px) \in Nat
  BY WorthIs
<1> QED BY <1>1 DEF Dealt, SameControl

\* Money that does not move keeps worth and positions.
LEMMA SameWorth ==
    ASSUME NEW a, NEW b, b.cash = a.cash, b.qty = a.qty, NEW px
    PROVE  ValueOf(b, px) = ValueOf(a, px) /\ Held(b) = Held(a)
BY DEF ValueOf, Held

LEMMA MarkKeeps ==
    ASSUME NEW a \in Accounts, NEW px \in Prices, NEW pv \in Nat
    PROVE  /\ Dealt(a, [a EXCEPT !.pv = pv], px) /\ [a EXCEPT !.pv = pv].pv = pv
           /\ Held([a EXCEPT !.pv = pv]) = Held(a) /\ OpenLegs([a EXCEPT !.pv = pv]) = OpenLegs(a)
           /\ ValueOf([a EXCEPT !.pv = pv], px) = ValueOf(a, px)
<1> DEFINE b == WithMark(a, pv)
<1>1. b = [a EXCEPT !.pv = pv]
  BY DEF WithMark
<1>2. /\ b \in Accounts /\ SameControl(a, b) /\ b.pv = pv
      /\ b.cash = a.cash /\ b.qty = a.qty /\ b.legs = a.legs
  BY MarkMoves
<1> HIDE DEF b
<1>3. ValueOf(b, px) = ValueOf(a, px) /\ Held(b) = Held(a) /\ ValueOf(a, px) \in Nat
  BY <1>2, SameWorth, WorthIs
<1>4. OpenLegs(b) = OpenLegs(a)
  BY <1>2 DEF OpenLegs
<1> QED BY <1>1, <1>2, <1>3, <1>4 DEF Dealt

Sale(a, s, px, shares, entry) ==
    LET notional == (shares * SellFill(px[s])) \div BpsBase
    IN  WithMoney(a, a.cash + notional - Fee(notional), [a.qty EXCEPT ![s] = a.qty[s] - shares], entry)

\* Some shares of s are sold at a price: what they bring is less than they were worth.
LEMMA SaleMoves ==
    ASSUME NEW a \in Accounts, NEW px \in Prices, NEW s \in Symbols, NEW shares \in Nat, shares <= a.qty[s],
           NEW entry \in [Symbols -> Nat]
    PROVE  LET b == Sale(a, s, px, shares, entry)
           IN  /\ b \in Accounts /\ SameControl(a, b) /\ ValueOf(b, px) <= ValueOf(a, px)
               /\ b.cash \in Nat /\ b.qty[s] = a.qty[s] - shares /\ OpenLegs(b) = OpenLegs(a) /\ b.pv = a.pv
               /\ Held(b) = IF a.qty[s] = shares THEN Held(a) \ {s} ELSE Held(a)
<1> DEFINE notional == (shares * SellFill(px[s])) \div BpsBase
           qty == [a.qty EXCEPT ![s] = a.qty[s] - shares]
           cash == a.cash + notional - Fee(notional)
           b == WithMoney(a, cash, qty, entry)
<1>1. px[s] \in Nat \ {0} /\ a.cash \in Nat /\ a.qty \in [Symbols -> Nat]
  BY AccountFields DEF Prices
<1>2. notional \in Nat /\ notional <= shares * px[s]
  BY <1>1, SaleIsBelowPrice
<1> HIDE DEF notional
<1>3. Fee(notional) \in Nat /\ Fee(notional) <= notional
  BY <1>2, FeeIsPart
<1>4. cash \in Nat /\ cash - a.cash <= shares * px[s]
  <2>1. shares * px[s] \in Nat
    BY <1>1
  <2> QED BY <1>1, <1>2, <1>3, <2>1
<1>5. qty \in [Symbols -> Nat] /\ qty[s] = a.qty[s] - shares /\ \A x \in Symbols \ {s} : qty[x] = a.qty[x]
  <2>1. a.qty[s] - shares \in Nat
    BY <1>1
  <2> QED BY <1>1, <2>1
<1> HIDE DEF cash, qty
<1>6. /\ b \in Accounts /\ SameControl(a, b) /\ b.cash = cash /\ b.qty = qty
      /\ b.legs = a.legs /\ b.pv = a.pv
  BY <1>4, <1>5, MoneyMoves
<1> HIDE DEF b
<1>7. ValueOf(b, px) <= ValueOf(a, px)
  <2>1. ValueOf(b, px) = ValueOf(a, px) + (b.cash - a.cash) + (b.qty[s] * px[s] - a.qty[s] * px[s])
    BY <1>5, <1>6, WorthMoves
  <2>2. b.qty[s] * px[s] = a.qty[s] * px[s] - shares * px[s] /\ a.qty[s] * px[s] \in Nat /\ shares * px[s] \in Nat
    BY <1>1, <1>5, <1>6
  <2>3. ValueOf(a, px) \in Nat
    BY WorthIs
  <2> QED BY <1>1, <1>4, <1>6, <2>1, <2>2, <2>3
<1>8. OpenLegs(b) = OpenLegs(a)
  BY <1>6 DEF OpenLegs
<1>9. Held(b) = IF a.qty[s] = shares THEN Held(a) \ {s} ELSE Held(a)
  <2>1. \A x \in Symbols : a.qty[x] \in Nat
    BY <1>1
  <2> QED BY <1>5, <1>6, <2>1 DEF Held
<1> QED BY <1>4, <1>5, <1>6, <1>7, <1>8, <1>9 DEF cash, qty, b, notional, Sale

LEMMA CloseKeeps ==
    ASSUME NEW a \in Accounts, NEW px \in Prices, NEW s \in Symbols, NEW d \in Nat
    PROVE  Dealt(a, ClosePosition(a, s, px, d), px) /\ Held(ClosePosition(a, s, px, d)) = Held(a) \ {s}
<1>0. a.qty \in [Symbols -> Nat] /\ a.entry \in [Symbols -> Nat]
  BY AccountFields
<1>1. CASE a.qty[s] = 0
  <2>1. ClosePosition(a, s, px, d) = a /\ s \notin Held(a)
    BY <1>1 DEF ClosePosition, Held
  <2> QED BY <2>1, DealtNothing
<1>2. CASE a.qty[s] # 0
  <2> DEFINE notional == (a.qty[s] * SellFill(px[s])) \div BpsBase
             qty == [a.qty EXCEPT ![s] = 0]
             entry == [a.entry EXCEPT ![s] = 0]
             sold == Sale(a, s, px, a.qty[s], entry)
             logged == RecordExit(sold, s, d, sold.cash)
             b == [logged EXCEPT !.pv = ValueOf(logged, px)]
  <2>1. ClosePosition(a, s, px, d) = b
    <3>1. sold = [a EXCEPT !.cash = @ + notional - Fee(notional), !.qty[s] = 0, !.entry[s] = 0]
      <4>1. qty = [a.qty EXCEPT ![s] = a.qty[s] - a.qty[s]]
        BY <1>0
      <4> HIDE DEF qty
      <4>2. sold = WithMoney(a, a.cash + notional - Fee(notional), qty, entry)
        BY <4>1 DEF Sale
      <4> HIDE DEF sold, notional
      <4> QED BY <4>2 DEF WithMoney, Accounts, qty
    <3> HIDE DEF sold
    <3> QED BY <1>2, <3>1 DEF ClosePosition
  <2>2. entry \in [Symbols -> Nat]
    BY <1>0
  <2>3. /\ sold \in Accounts /\ SameControl(a, sold) /\ ValueOf(sold, px) <= ValueOf(a, px)
        /\ sold.cash \in Nat /\ OpenLegs(sold) = OpenLegs(a) /\ Held(sold) = Held(a) \ {s}
    <3>1. a.qty[s] \in Nat /\ a.qty[s] <= a.qty[s]
      BY <1>0
    <3> HIDE DEF entry
    <3> QED BY <2>2, <3>1, SaleMoves
  <2> HIDE DEF sold
  <2>4. /\ logged \in Accounts /\ SameMoney(sold, logged) /\ SameControl(sold, logged)
        /\ OpenLegs(logged) = OpenLegs(sold) \ {s}
    BY <2>3, ExitRecorded
  <2> HIDE DEF logged
  <2>5. ValueOf(logged, px) = ValueOf(sold, px) /\ Held(logged) = Held(sold)
    BY <2>4, SameWorth DEF SameMoney
  <2>6. ValueOf(logged, px) \in Nat
    BY <2>4, WorthIs
  <2>7. /\ Dealt(logged, b, px) /\ Held(b) = Held(logged)
    BY <2>4, <2>6, MarkKeeps
  <2> HIDE DEF b
  <2>8. Dealt(a, logged, px)
    BY <2>3, <2>4, <2>5 DEF Dealt, SameControl
  <2> QED BY <2>1, <2>3, <2>5, <2>7, <2>8, DealtTwice
<1> QED BY <1>1, <1>2

LEMMA SellKeeps ==
    ASSUME NEW a \in Accounts, NEW px \in Prices, NEW s \in Symbols, NEW d \in Nat, NEW target \in Percent
    PROVE  Dealt(a, SellDown(a, s, px, d, target), px)
<1>0. a.qty \in [Symbols -> Nat] /\ a.entry \in [Symbols -> Nat] /\ a.pv \in Nat /\ px[s] \in Nat \ {0} /\ target[s] \in Nat
  <2>1. px[s] \in Nat \ {0}
    BY DEF Prices
  <2>2. target[s] \in 0..100
    BY DEF Percent
  <2>3. target[s] \in Nat
    BY <2>2
  <2>4. a.qty \in [Symbols -> Nat] /\ a.entry \in [Symbols -> Nat] /\ a.pv \in Nat
    BY AccountFields
  <2> QED BY <2>1, <2>3, <2>4
<1> DEFINE delta == (a.pv * target[s]) \div 100 - a.qty[s] * px[s]
           asked == (-delta * BpsBase) \div SellFill(px[s])
           shares == Min({a.qty[s], asked})
           notional == (shares * SellFill(px[s])) \div BpsBase
           sold == [a EXCEPT !.qty[s] = @ - shares, !.cash = @ + notional - Fee(notional)]
           none == delta >= 0 \/ (delta >= -Dust /\ target[s] # 0)
<1>1. SellDown(a, s, px, d, target) =
         IF none THEN a ELSE IF sold.qty[s] > 0 THEN sold
         ELSE RecordExit([sold EXCEPT !.entry[s] = 0], s, d, a.pv)
  BY DEF SellDown
<1>2. CASE none
  <2>1. SellDown(a, s, px, d, target) = a
    <3> HIDE DEF none, sold
    <3> QED BY <1>1, <1>2
  <2> QED BY <2>1, DealtNothing
<1>3. CASE ~none
  <2>1. delta \in Int /\ delta < 0
    <3>1. (a.pv * target[s]) \div 100 \in Nat
      BY <1>0
    <3>2. a.qty[s] * px[s] \in Nat
      BY <1>0
    <3>3. delta \in Int
      BY <3>1, <3>2
    <3> QED BY <1>3, <3>3
  <2> HIDE DEF delta
  <2>2. asked \in Nat
    <3>1. -delta * BpsBase \in Nat
      <4>1. PICK n \in Nat : n = -delta /\ delta = -n
        BY <2>1
      <4>2. n * BpsBase \in Nat /\ -((-n) * BpsBase) = n * BpsBase
        BY EngineNumbers
      <4> QED BY <4>1, <4>2
    <3>2. SellFill(px[s]) \in Nat \ {0}
      BY <1>0, SaleIsBelowPrice
    <3> QED BY <3>1, <3>2, Floor
  <2> HIDE DEF asked
  <2>3. shares \in Nat /\ shares <= a.qty[s]
    <3>1. a.qty[s] \in Nat
      BY <1>0
    <3> QED BY <2>2, <3>1, MinOfTwo
  <2> HIDE DEF shares
  <2> DEFINE qty == [a.qty EXCEPT ![s] = a.qty[s] - shares]
             cash == a.cash + notional - Fee(notional)
             kept == Sale(a, s, px, shares, a.entry)
             entry == [a.entry EXCEPT ![s] = 0]
             gone == Sale(a, s, px, shares, entry)
             logged == RecordExit(gone, s, d, a.pv)
  <2>4. kept = sold /\ gone = [sold EXCEPT !.entry[s] = 0]
    BY DEF WithMoney, Accounts, Sale
  <2>5. entry \in [Symbols -> Nat]
    BY <1>0
  <2>6. /\ kept \in Accounts /\ SameControl(a, kept) /\ ValueOf(kept, px) <= ValueOf(a, px)
        /\ kept.qty[s] = a.qty[s] - shares /\ OpenLegs(kept) = OpenLegs(a)
        /\ Held(kept) = IF a.qty[s] = shares THEN Held(a) \ {s} ELSE Held(a)
    <3>1. PICK same \in [Symbols -> Nat] : same = a.entry
      BY <1>0
    <3>2. LET b == Sale(a, s, px, shares, same)
          IN  /\ b \in Accounts /\ SameControl(a, b) /\ ValueOf(b, px) <= ValueOf(a, px)
              /\ b.qty[s] = a.qty[s] - shares /\ OpenLegs(b) = OpenLegs(a)
              /\ Held(b) = IF a.qty[s] = shares THEN Held(a) \ {s} ELSE Held(a)
      BY <2>3, SaleMoves
    <3> QED BY <3>1, <3>2
  <2>7. /\ gone \in Accounts /\ SameControl(a, gone) /\ ValueOf(gone, px) <= ValueOf(a, px)
        /\ OpenLegs(gone) = OpenLegs(a)
        /\ Held(gone) = IF a.qty[s] = shares THEN Held(a) \ {s} ELSE Held(a)
    <3> HIDE DEF entry
    <3> QED BY <2>3, <2>5, SaleMoves
  <2>8. CASE sold.qty[s] > 0
    <3>1. SellDown(a, s, px, d, target) = kept
      <4> HIDE DEF kept, sold, none
      <4> QED BY <1>1, <1>3, <2>4, <2>8
    <3>2. a.qty[s] # shares
      <4>1. kept.qty[s] > 0 /\ a.qty[s] \in Nat
        <5> HIDE DEF kept, sold
        <5> QED BY <1>0, <2>4, <2>8
      <4> HIDE DEF kept
      <4> QED BY <2>3, <2>6, <4>1
    <3>3. Dealt(a, kept, px)
      <4> HIDE DEF kept
      <4> QED BY <2>6, <3>2 DEF Dealt
    <3> HIDE DEF kept
    <3> QED BY <3>1, <3>3
  <2>9. CASE ~(sold.qty[s] > 0)
    <3>1. SellDown(a, s, px, d, target) = logged
      <4> HIDE DEF gone, sold, none
      <4> QED BY <1>1, <1>3, <2>4, <2>9
    <3>2. a.qty[s] = shares
      <4>1. ~(kept.qty[s] > 0) /\ a.qty[s] \in Nat
        <5> HIDE DEF kept, sold
        <5> QED BY <1>0, <2>4, <2>9
      <4> HIDE DEF kept
      <4> QED BY <2>3, <2>6, <4>1
    <3> HIDE DEF gone
    <3>3. /\ logged \in Accounts /\ SameMoney(gone, logged) /\ SameControl(gone, logged)
          /\ OpenLegs(logged) = OpenLegs(gone) \ {s}
      BY <1>0, <2>7, ExitRecorded
    <3> HIDE DEF logged
    <3>4. ValueOf(logged, px) = ValueOf(gone, px) /\ Held(logged) = Held(gone)
      BY <3>3, SameWorth DEF SameMoney
    <3>5. Dealt(a, logged, px)
      BY <2>7, <3>2, <3>3, <3>4 DEF Dealt, SameControl
    <3> QED BY <3>1, <3>5
  <2> QED BY <2>8, <2>9
<1> QED BY <1>2, <1>3

Purchase(a, s, shares, notional, entry) ==
    WithMoney(a, a.cash - notional - Fee(notional), [a.qty EXCEPT ![s] = a.qty[s] + shares], entry)

\* Some shares of s are bought for at least what they are worth.
LEMMA PurchaseMoves ==
    ASSUME NEW a \in Accounts, NEW px \in Prices, NEW s \in Symbols, NEW shares \in Nat \ {0},
           NEW notional \in Nat, shares * px[s] <= notional, notional + Fee(notional) <= a.cash,
           NEW entry \in [Symbols -> Nat]
    PROVE  LET b == Purchase(a, s, shares, notional, entry)
           IN  /\ b \in Accounts /\ SameControl(a, b) /\ ValueOf(b, px) <= ValueOf(a, px)
               /\ OpenLegs(b) = OpenLegs(a) /\ b.pv = a.pv /\ Held(b) = Held(a) \cup {s}
<1> DEFINE qty == [a.qty EXCEPT ![s] = a.qty[s] + shares]
           cash == a.cash - notional - Fee(notional)
           b == WithMoney(a, cash, qty, entry)
<1>1. px[s] \in Nat \ {0} /\ a.cash \in Nat /\ a.qty \in [Symbols -> Nat]
  BY AccountFields DEF Prices
<1>2. Fee(notional) \in Nat
  BY FeeIsPart
<1>3. cash \in Nat /\ cash - a.cash <= -(shares * px[s])
  <2>1. shares * px[s] \in Nat
    BY <1>1
  <2> QED BY <1>1, <1>2, <2>1
<1>4. qty \in [Symbols -> Nat] /\ qty[s] = a.qty[s] + shares /\ \A x \in Symbols \ {s} : qty[x] = a.qty[x]
  <2>1. a.qty[s] + shares \in Nat
    BY <1>1
  <2> QED BY <1>1, <2>1
<1>5. b = Purchase(a, s, shares, notional, entry)
  BY DEF Purchase
<1> HIDE DEF cash, qty
<1>6. /\ b \in Accounts /\ SameControl(a, b) /\ b.cash = cash /\ b.qty = qty
      /\ b.legs = a.legs /\ b.pv = a.pv
  BY <1>3, <1>4, MoneyMoves
<1> HIDE DEF b
<1>7. ValueOf(b, px) <= ValueOf(a, px)
  <2>1. ValueOf(b, px) = ValueOf(a, px) + (b.cash - a.cash) + (b.qty[s] * px[s] - a.qty[s] * px[s])
    BY <1>4, <1>6, WorthMoves
  <2>2. b.qty[s] * px[s] = a.qty[s] * px[s] + shares * px[s] /\ a.qty[s] * px[s] \in Nat /\ shares * px[s] \in Nat
    BY <1>1, <1>4, <1>6
  <2>3. ValueOf(a, px) \in Nat
    BY WorthIs
  <2> QED BY <1>1, <1>3, <1>6, <2>1, <2>2, <2>3
<1>8. OpenLegs(b) = OpenLegs(a)
  BY <1>6 DEF OpenLegs
<1>9. Held(b) = Held(a) \cup {s}
  <2>1. \A x \in Symbols : a.qty[x] \in Nat
    BY <1>1
  <2> QED BY <1>4, <1>6, <2>1 DEF Held
<1> QED BY <1>5, <1>6, <1>7, <1>8, <1>9

LEMMA BuyKeeps ==
    ASSUME NEW a \in Accounts, NEW px \in Prices, NEW s \in Symbols, NEW d \in Nat \ {0}, NEW target \in Percent
    PROVE  Dealt(a, BuyUp(a, s, px, d, target), px)
<1>0. /\ a.qty \in [Symbols -> Nat] /\ a.entry \in [Symbols -> Nat] /\ a.pv \in Nat /\ a.cash \in Nat
      /\ px[s] \in Nat \ {0} /\ target[s] \in Nat
  <2>1. px[s] \in Nat \ {0}
    BY DEF Prices
  <2>2. target[s] \in 0..100
    BY DEF Percent
  <2>3. target[s] \in Nat
    BY <2>2
  <2>4. a.qty \in [Symbols -> Nat] /\ a.entry \in [Symbols -> Nat] /\ a.pv \in Nat /\ a.cash \in Nat
    BY AccountFields
  <2> QED BY <2>1, <2>3, <2>4
<1> DEFINE wanted == (a.pv * target[s]) \div 100
           worth == a.qty[s] * px[s]
           delta == wanted - worth
           notional == Min({delta, MaxAffordable(a.cash)})
           shares == (notional * BpsBase) \div BuyFill(px[s])
           total == a.qty[s] + shares
           paid == (a.entry[s] * a.qty[s] + BuyFill(px[s]) * shares) \div total
           none == delta <= Dust \/ notional <= Dust
           bought == [a EXCEPT !.cash = @ - notional - Fee(notional), !.qty[s] = total, !.entry[s] = paid]
           b == RecordEntry(bought, s, d, a.pv)
<1>1. BuyUp(a, s, px, d, target) = IF none THEN a ELSE b
  BY DEF BuyUp
<1>2. CASE none
  <2>1. BuyUp(a, s, px, d, target) = a
    <3> HIDE DEF none, b
    <3> QED BY <1>1, <1>2
  <2> QED BY <2>1, DealtNothing
<1>3. CASE ~none
  <2>1. wanted \in Nat /\ worth \in Nat
    BY <1>0
  <2>2. delta \in Int /\ delta > Dust
    <3> HIDE DEF wanted, worth, notional
    <3> QED BY <1>3, <2>1, EngineNumbers
  <2>3. a.pv \in Nat \ {0}
    <3>1. CASE a.pv = 0
      <4>1. a.pv * target[s] = 0
        BY <1>0, <3>1
      <4>2. wanted = 0
        BY <4>1
      <4> HIDE DEF wanted, worth
      <4> QED BY <2>1, <2>2, <4>2, EngineNumbers
    <3> QED BY <1>0, <3>1
  <2> HIDE DEF delta
  <2>4. MaxAffordable(a.cash) \in Nat /\ \A n \in Nat : n <= MaxAffordable(a.cash) => n + Fee(n) <= a.cash
    BY <1>0, AffordableLeavesFee
  <2>5. notional = IF delta <= MaxAffordable(a.cash) THEN delta ELSE MaxAffordable(a.cash)
    <3>1. MaxAffordable(a.cash) \in Int
      BY <2>4
    <3> QED BY <2>2, <3>1, MinOfTwo
  <2> HIDE DEF notional
  <2>6. notional \in Nat /\ notional > Dust /\ notional + Fee(notional) <= a.cash
    <3>1. notional \in Nat /\ notional <= MaxAffordable(a.cash)
      BY <2>2, <2>4, <2>5, EngineNumbers
    <3>2. notional > Dust
      BY <1>3, <3>1, EngineNumbers
    <3> QED BY <2>4, <3>1, <3>2
  <2>7. BuyFill(px[s]) \in Nat \ {0} /\ shares \in Nat \ {0} /\ shares * px[s] <= notional
    BY <2>6, PurchaseIsAbovePrice
  <2> HIDE DEF shares
  <2>8. total \in Nat \ {0} /\ paid \in Nat
    <3>1. a.entry[s] \in Nat /\ a.qty[s] \in Nat
      BY <1>0
    <3>2. total \in Nat \ {0}
      BY <2>7, <3>1
    <3>3. a.entry[s] * a.qty[s] \in Nat /\ BuyFill(px[s]) * shares \in Nat
      BY <2>7, <3>1
    <3> HIDE DEF total
    <3> QED BY <3>2, <3>3, Floor
  <2> HIDE DEF paid
  <2> DEFINE entry == [a.entry EXCEPT ![s] = paid]
             c == Purchase(a, s, shares, notional, entry)
  <2>9. entry \in [Symbols -> Nat]
    BY <1>0, <2>8
  <2>10. bought = c
    <3> HIDE DEF none
    <3> QED BY DEF Purchase, WithMoney, Accounts
  <2> HIDE DEF entry
  <2>11. /\ c \in Accounts /\ SameControl(a, c) /\ ValueOf(c, px) <= ValueOf(a, px)
         /\ OpenLegs(c) = OpenLegs(a) /\ c.pv = a.pv /\ Held(c) = Held(a) \cup {s}
    BY <2>6, <2>7, <2>9, PurchaseMoves
  <2> HIDE DEF c, bought
  <2>12. b = RecordEntry(c, s, d, a.pv)
    BY <2>10
  <2>13. /\ b \in Accounts /\ SameMoney(c, b) /\ SameControl(c, b) /\ OpenLegs(b) = OpenLegs(c) \cup {s}
    BY <2>3, <2>11, <2>12, EntryRecorded
  <2>14. BuyUp(a, s, px, d, target) = b
    <3> HIDE DEF none, b
    <3> QED BY <1>1, <1>3
  <2> HIDE DEF b
  <2>15. ValueOf(b, px) = ValueOf(c, px) /\ Held(b) = Held(c)
    BY <2>13, SameWorth DEF SameMoney
  <2>16. Dealt(a, b, px)
    BY <2>11, <2>13, <2>15 DEF Dealt, SameControl
  <2> QED BY <2>14, <2>16
<1> QED BY <1>2, <1>3

(* Orders in turn: the folds of the engine, an element at a time *)

\* The sales of a rebalance.
SellsWithin(S, A, px, d, target) == \A s \in S : \A b \in A : SellDown(b, s, px, d, target) \in A
SellsRun(it, A, a, S, px, d, target) ==
    /\ it[{}] = a /\ it[S] = SellAll(a, S, px, d, target)
    /\ \A T \in SUBSET S : it[T] \in A
    /\ \A T \in SUBSET S : T # {} => it[T] = SellDown(it[T \ {Chosen(S)[T]}], Chosen(S)[T], px, d, target)

LEMMA SellsInTurn ==
    ASSUME NEW S, IsFiniteSet(S), NEW px, NEW d, NEW target, NEW A, NEW a \in A, SellsWithin(S, A, px, d, target)
    PROVE  \E it : SellsRun(it, A, a, S, px, d, target)
<1> DEFINE g == [xs \in S \X A |-> SellDown(xs[2], xs[1], px, d, target)]
           Is(it) == it = [T \in SUBSET S |->
                              IF T = {} THEN a
                              ELSE LET x == CHOOSE x \in T : TRUE IN SellDown(it[T \ {x}], x, px, d, target)]
           iter == CHOOSE it : Is(it)
<1>0. PICK c : c = Chosen(S)
  OBVIOUS
<1>1. SellAll(a, S, px, d, target) = iter[S]
  BY DEF SellAll, FoldSet, MapThenFoldSet
<1>2. \A T \in SUBSET S : c[T] = (CHOOSE x \in T : TRUE) /\ (T # {} => c[T] \in T)
  BY <1>0, ChosenIs
<1>3. g \in [S \X A -> A]
  BY DEF SellsWithin
<1>4. PICK h \in [SUBSET S -> A] : Folded(h, S, a, g, c)
  <2>1. \A T \in SUBSET S : T # {} => c[T] \in T
    BY <1>2
  <2> HIDE DEF g
  <2> QED BY <1>3, <2>1, FoldExists
<1>5. ASSUME NEW T \in SUBSET S
      PROVE h[T] = IF T = {} THEN a ELSE LET x == CHOOSE x \in T : TRUE IN SellDown(h[T \ {x}], x, px, d, target)
  <2>1. c[T] = (CHOOSE x \in T : TRUE) /\ h[T] = IF T = {} THEN a ELSE g[<<c[T], h[T \ {c[T]}]>>]
    BY <1>2, <1>4 DEF Folded
  <2>2. T # {} => c[T] \in S /\ h[T \ {c[T]}] \in A
    BY <1>2
  <2>3. T # {} => g[<<c[T], h[T \ {c[T]}]>>] = SellDown(h[T \ {c[T]}], c[T], px, d, target)
    BY <2>2
  <2> HIDE DEF g
  <2> QED BY <2>1, <2>3
<1>6. Is(h)
  <2>1. h = [T \in SUBSET S |-> h[T]]
    OBVIOUS
  <2> HIDE DEF g
  <2> QED BY <1>5, <2>1
<1>7. Is(iter)
  <2> HIDE DEF Is
  <2> QED BY <1>6
<1>8. iter[{}] = a /\ \A T \in SUBSET S : T # {} => iter[T] = SellDown(iter[T \ {c[T]}], c[T], px, d, target)
  <2> HIDE DEF iter
  <2> QED BY <1>2, <1>7
<1> HIDE DEF iter
<1>9. PICK Good : Good = {T \in SUBSET S : iter[T] \in A}
  OBVIOUS
<1>10. ASSUME NEW T \in SUBSET S, T # {}, T \ {c[T]} \in Good PROVE T \in Good
  <2>1. c[T] \in S /\ iter[T \ {c[T]}] \in A
    BY <1>2, <1>9, <1>10
  <2>2. iter[T] = SellDown(iter[T \ {c[T]}], c[T], px, d, target)
    BY <1>8, <1>10
  <2>3. iter[T] \in A
    BY <2>1, <2>2 DEF SellsWithin
  <2> QED BY <1>9, <2>3
<1>11. SUBSET S \subseteq Good
  <2>1. {} \in Good
    BY <1>8, <1>9
  <2>2. \A T \in SUBSET S : T # {} /\ T \ {c[T]} \in Good => T \in Good
    BY <1>10
  <2>3. \A T \in SUBSET S : T # {} => c[T] \in T
    BY <1>2
  <2> HIDE DEF g, Is
  <2> QED BY <2>1, <2>2, <2>3, TakingOut
<1>12. \A T \in SUBSET S : iter[T] \in A
  BY <1>9, <1>11
<1>13. SellsRun(iter, A, a, S, px, d, target)
  BY <1>0, <1>1, <1>8, <1>12 DEF SellsRun
<1> QED BY <1>13

\* Its purchases.
BuysWithin(S, A, px, d, target) == \A s \in S : \A b \in A : BuyUp(b, s, px, d, target) \in A
BuysRun(it, A, a, S, px, d, target) ==
    /\ it[{}] = a /\ it[S] = BuyAll(a, S, px, d, target)
    /\ \A T \in SUBSET S : it[T] \in A
    /\ \A T \in SUBSET S : T # {} => it[T] = BuyUp(it[T \ {Chosen(S)[T]}], Chosen(S)[T], px, d, target)

LEMMA BuysInTurn ==
    ASSUME NEW S, IsFiniteSet(S), NEW px, NEW d, NEW target, NEW A, NEW a \in A, BuysWithin(S, A, px, d, target)
    PROVE  \E it : BuysRun(it, A, a, S, px, d, target)
<1> DEFINE g == [xs \in S \X A |-> BuyUp(xs[2], xs[1], px, d, target)]
           Is(it) == it = [T \in SUBSET S |->
                              IF T = {} THEN a
                              ELSE LET x == CHOOSE x \in T : TRUE IN BuyUp(it[T \ {x}], x, px, d, target)]
           iter == CHOOSE it : Is(it)
<1>0. PICK c : c = Chosen(S)
  OBVIOUS
<1>1. BuyAll(a, S, px, d, target) = iter[S]
  BY DEF BuyAll, FoldSet, MapThenFoldSet
<1>2. \A T \in SUBSET S : c[T] = (CHOOSE x \in T : TRUE) /\ (T # {} => c[T] \in T)
  BY <1>0, ChosenIs
<1>3. g \in [S \X A -> A]
  BY DEF BuysWithin
<1>4. PICK h \in [SUBSET S -> A] : Folded(h, S, a, g, c)
  <2>1. \A T \in SUBSET S : T # {} => c[T] \in T
    BY <1>2
  <2> HIDE DEF g
  <2> QED BY <1>3, <2>1, FoldExists
<1>5. ASSUME NEW T \in SUBSET S
      PROVE h[T] = IF T = {} THEN a ELSE LET x == CHOOSE x \in T : TRUE IN BuyUp(h[T \ {x}], x, px, d, target)
  <2>1. c[T] = (CHOOSE x \in T : TRUE) /\ h[T] = IF T = {} THEN a ELSE g[<<c[T], h[T \ {c[T]}]>>]
    BY <1>2, <1>4 DEF Folded
  <2>2. T # {} => c[T] \in S /\ h[T \ {c[T]}] \in A
    BY <1>2
  <2>3. T # {} => g[<<c[T], h[T \ {c[T]}]>>] = BuyUp(h[T \ {c[T]}], c[T], px, d, target)
    BY <2>2
  <2> HIDE DEF g
  <2> QED BY <2>1, <2>3
<1>6. Is(h)
  <2>1. h = [T \in SUBSET S |-> h[T]]
    OBVIOUS
  <2> HIDE DEF g
  <2> QED BY <1>5, <2>1
<1>7. Is(iter)
  <2> HIDE DEF Is
  <2> QED BY <1>6
<1>8. iter[{}] = a /\ \A T \in SUBSET S : T # {} => iter[T] = BuyUp(iter[T \ {c[T]}], c[T], px, d, target)
  <2> HIDE DEF iter
  <2> QED BY <1>2, <1>7
<1> HIDE DEF iter
<1>9. PICK Good : Good = {T \in SUBSET S : iter[T] \in A}
  OBVIOUS
<1>10. ASSUME NEW T \in SUBSET S, T # {}, T \ {c[T]} \in Good PROVE T \in Good
  <2>1. c[T] \in S /\ iter[T \ {c[T]}] \in A
    BY <1>2, <1>9, <1>10
  <2>2. iter[T] = BuyUp(iter[T \ {c[T]}], c[T], px, d, target)
    BY <1>8, <1>10
  <2>3. iter[T] \in A
    BY <2>1, <2>2 DEF BuysWithin
  <2> QED BY <1>9, <2>3
<1>11. SUBSET S \subseteq Good
  <2>1. {} \in Good
    BY <1>8, <1>9
  <2>2. \A T \in SUBSET S : T # {} /\ T \ {c[T]} \in Good => T \in Good
    BY <1>10
  <2>3. \A T \in SUBSET S : T # {} => c[T] \in T
    BY <1>2
  <2> HIDE DEF g, Is
  <2> QED BY <2>1, <2>2, <2>3, TakingOut
<1>12. \A T \in SUBSET S : iter[T] \in A
  BY <1>9, <1>11
<1>13. BuysRun(iter, A, a, S, px, d, target)
  BY <1>0, <1>1, <1>8, <1>12 DEF BuysRun
<1> QED BY <1>13

\* The sales of a liquidation.
ClosesWithin(S, A, px, d) == \A s \in S : \A b \in A : ClosePosition(b, s, px, d) \in A
ClosesRun(it, A, a, S, px, d) ==
    /\ it[{}] = a /\ it[S] = CloseAll(a, S, px, d)
    /\ \A T \in SUBSET S : it[T] \in A
    /\ \A T \in SUBSET S : T # {} => it[T] = ClosePosition(it[T \ {Chosen(S)[T]}], Chosen(S)[T], px, d)

LEMMA ClosesInTurn ==
    ASSUME NEW S, IsFiniteSet(S), NEW px, NEW d, NEW A, NEW a \in A, ClosesWithin(S, A, px, d)
    PROVE  \E it : ClosesRun(it, A, a, S, px, d)
<1> DEFINE g == [xs \in S \X A |-> ClosePosition(xs[2], xs[1], px, d)]
           Is(it) == it = [T \in SUBSET S |->
                              IF T = {} THEN a
                              ELSE LET x == CHOOSE x \in T : TRUE IN ClosePosition(it[T \ {x}], x, px, d)]
           iter == CHOOSE it : Is(it)
<1>0. PICK c : c = Chosen(S)
  OBVIOUS
<1>1. CloseAll(a, S, px, d) = iter[S]
  BY DEF CloseAll, FoldSet, MapThenFoldSet
<1>2. \A T \in SUBSET S : c[T] = (CHOOSE x \in T : TRUE) /\ (T # {} => c[T] \in T)
  BY <1>0, ChosenIs
<1>3. g \in [S \X A -> A]
  BY DEF ClosesWithin
<1>4. PICK h \in [SUBSET S -> A] : Folded(h, S, a, g, c)
  <2>1. \A T \in SUBSET S : T # {} => c[T] \in T
    BY <1>2
  <2> HIDE DEF g
  <2> QED BY <1>3, <2>1, FoldExists
<1>5. ASSUME NEW T \in SUBSET S
      PROVE h[T] = IF T = {} THEN a ELSE LET x == CHOOSE x \in T : TRUE IN ClosePosition(h[T \ {x}], x, px, d)
  <2>1. c[T] = (CHOOSE x \in T : TRUE) /\ h[T] = IF T = {} THEN a ELSE g[<<c[T], h[T \ {c[T]}]>>]
    BY <1>2, <1>4 DEF Folded
  <2>2. T # {} => c[T] \in S /\ h[T \ {c[T]}] \in A
    BY <1>2
  <2>3. T # {} => g[<<c[T], h[T \ {c[T]}]>>] = ClosePosition(h[T \ {c[T]}], c[T], px, d)
    BY <2>2
  <2> HIDE DEF g
  <2> QED BY <2>1, <2>3
<1>6. Is(h)
  <2>1. h = [T \in SUBSET S |-> h[T]]
    OBVIOUS
  <2> HIDE DEF g
  <2> QED BY <1>5, <2>1
<1>7. Is(iter)
  <2> HIDE DEF Is
  <2> QED BY <1>6
<1>8. iter[{}] = a /\ \A T \in SUBSET S : T # {} => iter[T] = ClosePosition(iter[T \ {c[T]}], c[T], px, d)
  <2> HIDE DEF iter
  <2> QED BY <1>2, <1>7
<1> HIDE DEF iter
<1>9. PICK Good : Good = {T \in SUBSET S : iter[T] \in A}
  OBVIOUS
<1>10. ASSUME NEW T \in SUBSET S, T # {}, T \ {c[T]} \in Good PROVE T \in Good
  <2>1. c[T] \in S /\ iter[T \ {c[T]}] \in A
    BY <1>2, <1>9, <1>10
  <2>2. iter[T] = ClosePosition(iter[T \ {c[T]}], c[T], px, d)
    BY <1>8, <1>10
  <2>3. iter[T] \in A
    BY <2>1, <2>2 DEF ClosesWithin
  <2> QED BY <1>9, <2>3
<1>11. SUBSET S \subseteq Good
  <2>1. {} \in Good
    BY <1>8, <1>9
  <2>2. \A T \in SUBSET S : T # {} /\ T \ {c[T]} \in Good => T \in Good
    BY <1>10
  <2>3. \A T \in SUBSET S : T # {} => c[T] \in T
    BY <1>2
  <2> HIDE DEF g, Is
  <2> QED BY <2>1, <2>2, <2>3, TakingOut
<1>12. \A T \in SUBSET S : iter[T] \in A
  BY <1>9, <1>11
<1>13. ClosesRun(iter, A, a, S, px, d)
  BY <1>0, <1>1, <1>8, <1>12 DEF ClosesRun
<1> QED BY <1>13

\* The closing of the journal.
ExitsWithin(S, A, d) == \A s \in S : \A b \in A : RecordExit(b, s, d, b.pv) \in A
ExitsRun(it, A, a, S, d) ==
    /\ it[{}] = a /\ it[S] = ExitAll(a, S, d)
    /\ \A T \in SUBSET S : it[T] \in A
    /\ \A T \in SUBSET S : T # {} => it[T] = RecordExit(it[T \ {Chosen(S)[T]}], Chosen(S)[T], d, it[T \ {Chosen(S)[T]}].pv)

LEMMA ExitsInTurn ==
    ASSUME NEW S, IsFiniteSet(S), NEW d, NEW A, NEW a \in A, ExitsWithin(S, A, d)
    PROVE  \E it : ExitsRun(it, A, a, S, d)
<1> DEFINE g == [xs \in S \X A |-> RecordExit(xs[2], xs[1], d, xs[2].pv)]
           Is(it) == it = [T \in SUBSET S |->
                              IF T = {} THEN a
                              ELSE LET x == CHOOSE x \in T : TRUE IN RecordExit(it[T \ {x}], x, d, it[T \ {x}].pv)]
           iter == CHOOSE it : Is(it)
<1>0. PICK c : c = Chosen(S)
  OBVIOUS
<1>1. ExitAll(a, S, d) = iter[S]
  BY DEF ExitAll, FoldSet, MapThenFoldSet
<1>2. \A T \in SUBSET S : c[T] = (CHOOSE x \in T : TRUE) /\ (T # {} => c[T] \in T)
  BY <1>0, ChosenIs
<1>3. g \in [S \X A -> A]
  BY DEF ExitsWithin
<1>4. PICK h \in [SUBSET S -> A] : Folded(h, S, a, g, c)
  <2>1. \A T \in SUBSET S : T # {} => c[T] \in T
    BY <1>2
  <2> HIDE DEF g
  <2> QED BY <1>3, <2>1, FoldExists
<1>5. ASSUME NEW T \in SUBSET S
      PROVE h[T] = IF T = {} THEN a ELSE LET x == CHOOSE x \in T : TRUE IN RecordExit(h[T \ {x}], x, d, h[T \ {x}].pv)
  <2>1. c[T] = (CHOOSE x \in T : TRUE) /\ h[T] = IF T = {} THEN a ELSE g[<<c[T], h[T \ {c[T]}]>>]
    BY <1>2, <1>4 DEF Folded
  <2>2. T # {} => c[T] \in S /\ h[T \ {c[T]}] \in A
    BY <1>2
  <2>3. T # {} => g[<<c[T], h[T \ {c[T]}]>>] = RecordExit(h[T \ {c[T]}], c[T], d, h[T \ {c[T]}].pv)
    BY <2>2
  <2> HIDE DEF g
  <2> QED BY <2>1, <2>3
<1>6. Is(h)
  <2>1. h = [T \in SUBSET S |-> h[T]]
    OBVIOUS
  <2> HIDE DEF g
  <2> QED BY <1>5, <2>1
<1>7. Is(iter)
  <2> HIDE DEF Is
  <2> QED BY <1>6
<1>8. iter[{}] = a /\ \A T \in SUBSET S : T # {} => iter[T] = RecordExit(iter[T \ {c[T]}], c[T], d, iter[T \ {c[T]}].pv)
  <2> HIDE DEF iter
  <2> QED BY <1>2, <1>7
<1> HIDE DEF iter
<1>9. PICK Good : Good = {T \in SUBSET S : iter[T] \in A}
  OBVIOUS
<1>10. ASSUME NEW T \in SUBSET S, T # {}, T \ {c[T]} \in Good PROVE T \in Good
  <2>1. c[T] \in S /\ iter[T \ {c[T]}] \in A
    BY <1>2, <1>9, <1>10
  <2>2. iter[T] = RecordExit(iter[T \ {c[T]}], c[T], d, iter[T \ {c[T]}].pv)
    BY <1>8, <1>10
  <2>3. iter[T] \in A
    BY <2>1, <2>2 DEF ExitsWithin
  <2> QED BY <1>9, <2>3
<1>11. SUBSET S \subseteq Good
  <2>1. {} \in Good
    BY <1>8, <1>9
  <2>2. \A T \in SUBSET S : T # {} /\ T \ {c[T]} \in Good => T \in Good
    BY <1>10
  <2>3. \A T \in SUBSET S : T # {} => c[T] \in T
    BY <1>2
  <2> HIDE DEF g, Is
  <2> QED BY <2>1, <2>2, <2>3, TakingOut
<1>12. \A T \in SUBSET S : iter[T] \in A
  BY <1>9, <1>11
<1>13. ExitsRun(iter, A, a, S, d)
  BY <1>0, <1>1, <1>8, <1>12 DEF ExitsRun
<1> QED BY <1>13

LEMMA SubsetIsFinite == ASSUME NEW S \in SUBSET Symbols PROVE IsFiniteSet(S)
BY EngineNumbers, FS_Subset

LEMMA RebalanceKeeps ==
    ASSUME NEW a \in Accounts, NEW px \in Prices, NEW d \in Nat \ {0}, NEW target \in Percent
    PROVE  Dealt(a, Rebalance(a, px, d, target), px)
<1> DEFINE sold == SellAll(a, Symbols, px, d, target)
           marked == [sold EXCEPT !.pv = ValueOf(sold, px)]
           bought == BuyAll(marked, Symbols, px, d, target)
<1>1. Rebalance(a, px, d, target) = [bought EXCEPT !.pv = ValueOf(bought, px)]
  BY DEF Rebalance
<1>2. sold \in Accounts /\ Dealt(a, sold, px)
  <2>1. PICK A : A = {b \in Accounts : Dealt(a, b, px)}
    OBVIOUS
  <2>2. a \in A
    BY <2>1, DealtNothing
  <2>3. \A s \in Symbols : \A b \in A : SellDown(b, s, px, d, target) \in A
    <3> SUFFICES ASSUME NEW s \in Symbols, NEW b \in A PROVE SellDown(b, s, px, d, target) \in A
      OBVIOUS
    <3>1. b \in Accounts /\ Dealt(a, b, px)
      BY <2>1
    <3>2. Dealt(b, SellDown(b, s, px, d, target), px)
      BY <3>1, SellKeeps
    <3>3. Dealt(a, SellDown(b, s, px, d, target), px)
      BY <3>1, <3>2, DealtTwice
    <3> QED BY <2>1, <3>3 DEF Dealt
  <2>4. PICK it : SellsRun(it, A, a, Symbols, px, d, target)
    <3>1. SellsWithin(Symbols, A, px, d, target)
      BY <2>3 DEF SellsWithin
    <3> QED BY <2>2, <3>1, EngineNumbers, SellsInTurn
  <2>5. it[Symbols] = sold /\ it[Symbols] \in A
    BY <2>4 DEF SellsRun
  <2> HIDE DEF sold
  <2> QED BY <2>1, <2>5
<1> HIDE DEF sold
<1>3. marked \in Accounts /\ Dealt(a, marked, px)
  <2>1. ValueOf(sold, px) \in Nat
    BY <1>2, WorthIs
  <2>2. Dealt(sold, marked, px)
    BY <1>2, <2>1, MarkKeeps
  <2> HIDE DEF marked
  <2> QED BY <1>2, <2>2, DealtTwice DEF Dealt
<1> HIDE DEF marked
<1>4. bought \in Accounts /\ Dealt(marked, bought, px)
  <2>1. PICK A : A = {b \in Accounts : Dealt(marked, b, px)}
    OBVIOUS
  <2>2. marked \in A
    BY <1>3, <2>1, DealtNothing
  <2>3. \A s \in Symbols : \A b \in A : BuyUp(b, s, px, d, target) \in A
    <3> SUFFICES ASSUME NEW s \in Symbols, NEW b \in A PROVE BuyUp(b, s, px, d, target) \in A
      OBVIOUS
    <3>1. b \in Accounts /\ Dealt(marked, b, px)
      BY <2>1
    <3>2. Dealt(b, BuyUp(b, s, px, d, target), px)
      BY <3>1, BuyKeeps
    <3>3. Dealt(marked, BuyUp(b, s, px, d, target), px)
      BY <1>3, <3>1, <3>2, DealtTwice
    <3> QED BY <2>1, <3>3 DEF Dealt
  <2>4. PICK it : BuysRun(it, A, marked, Symbols, px, d, target)
    <3>1. BuysWithin(Symbols, A, px, d, target)
      BY <2>3 DEF BuysWithin
    <3> QED BY <2>2, <3>1, EngineNumbers, BuysInTurn
  <2>5. it[Symbols] = bought /\ it[Symbols] \in A
    BY <2>4 DEF BuysRun
  <2> HIDE DEF bought
  <2> QED BY <2>1, <2>5
<1> HIDE DEF bought
<1>5. Dealt(bought, [bought EXCEPT !.pv = ValueOf(bought, px)], px)
  <2>1. ValueOf(bought, px) \in Nat
    BY <1>4, WorthIs
  <2> QED BY <1>4, <2>1, MarkKeeps
<1>6. Dealt(a, bought, px)
  BY <1>3, <1>4, DealtTwice
<1> QED BY <1>1, <1>5, <1>6, DealtTwice

\* A liquidation sells whatever is held and suspends the portfolio.
Liquidated(a, b, px) ==
    /\ b \in Accounts /\ Held(b) = {} /\ b.halted = TRUE
    /\ b.hwm = a.hwm /\ b.pending = a.pending /\ b.risk = a.risk
    /\ ValueOf(b, px) <= ValueOf(a, px)
    /\ (OpenLegs(a) = Held(a) => OpenLegs(b) = {})

LEMMA LiquidationKeeps ==
    ASSUME NEW a \in Accounts, NEW px \in Prices, NEW d \in Nat
    PROVE  Liquidated(a, ForcedLiquidation(a, px, d), px)
<1> DEFINE flat == CloseAll(a, Held(a), px, d)
<1>0. PICK S : S = Held(a) /\ S \in SUBSET Symbols
  BY DEF Held
<1>1. PICK A : A = {b \in Accounts : Dealt(a, b, px)}
  OBVIOUS
<1>2. a \in A
  BY <1>1, DealtNothing
<1>3. \A s \in S : \A b \in A : ClosePosition(b, s, px, d) \in A
  <2> SUFFICES ASSUME NEW s \in S, NEW b \in A PROVE ClosePosition(b, s, px, d) \in A
    OBVIOUS
  <2>1. b \in Accounts /\ Dealt(a, b, px) /\ s \in Symbols
    BY <1>0, <1>1
  <2>2. Dealt(b, ClosePosition(b, s, px, d), px)
    BY <2>1, CloseKeeps
  <2>3. Dealt(a, ClosePosition(b, s, px, d), px)
    BY <2>1, <2>2, DealtTwice
  <2> QED BY <1>1, <2>3 DEF Dealt
<1>4. PICK it : ClosesRun(it, A, a, S, px, d)
  <2>1. ClosesWithin(S, A, px, d)
    BY <1>3 DEF ClosesWithin
  <2>2. IsFiniteSet(S)
    BY <1>0, SubsetIsFinite
  <2> QED BY <1>2, <2>1, <2>2, ClosesInTurn
<1>5. flat = it[S]
  BY <1>0, <1>4 DEF ClosesRun
<1> HIDE DEF flat
<1>6. PICK Good : Good = {T \in SUBSET S : Held(it[T]) = S \ T}
  OBVIOUS
<1>7. PICK c : c = Chosen(S) /\ \A T \in SUBSET S : T # {} => c[T] \in T
  BY ChosenIs
<1>8. ASSUME NEW T \in SUBSET S, T # {}, T \ {c[T]} \in Good PROVE T \in Good
  <2> DEFINE R == T \ {c[T]}
  <2>1. c[T] \in T /\ c[T] \in Symbols /\ R \in SUBSET S /\ it[R] \in Accounts /\ Held(it[R]) = S \ R
    <3>1. c[T] \in T /\ R \in SUBSET S
      BY <1>7, <1>8
    <3>2. it[R] \in A
      BY <1>4, <3>1 DEF ClosesRun
    <3> QED BY <1>0, <1>1, <1>6, <1>8, <3>1, <3>2
  <2>2. it[T] = ClosePosition(it[R], c[T], px, d)
    BY <1>4, <1>7, <1>8 DEF ClosesRun
  <2>3. Held(it[T]) = Held(it[R]) \ {c[T]}
    <3> HIDE DEF R
    <3> QED BY <2>1, <2>2, CloseKeeps
  <2>4. Held(it[T]) = S \ T
    BY <2>1, <2>3
  <2> QED BY <1>6, <2>4
<1>9. SUBSET S \subseteq Good
  <2>1. {} \in Good
    BY <1>0, <1>4, <1>6 DEF ClosesRun
  <2>2. \A T \in SUBSET S : T # {} /\ T \ {c[T]} \in Good => T \in Good
    BY <1>8
  <2>3. IsFiniteSet(S)
    BY <1>0, SubsetIsFinite
  <2>4. \A T \in SUBSET S : T # {} => c[T] \in T
    BY <1>7
  <2> HIDE DEF flat
  <2> QED BY <2>1, <2>2, <2>3, <2>4, TakingOut, SMTT(60)
<1>10. flat \in Accounts /\ Dealt(a, flat, px) /\ Held(flat) = {}
  <2>1. S \in Good /\ it[S] \in A
    BY <1>4, <1>9 DEF ClosesRun
  <2> QED BY <1>1, <1>5, <1>6, <2>1
<1> DEFINE b == [flat EXCEPT !.pv = flat.cash, !.halted = TRUE]
<1>11. ForcedLiquidation(a, px, d) = b
  BY DEF ForcedLiquidation, flat
<1>12. flat.cash \in Nat
  BY <1>10, AccountFields
<1>13. /\ b \in Accounts /\ b.halted = TRUE /\ b.hwm = flat.hwm /\ b.pending = flat.pending /\ b.risk = flat.risk
       /\ b.cash = flat.cash /\ b.qty = flat.qty /\ b.legs = flat.legs
  BY <1>10, <1>12 DEF Accounts
<1> HIDE DEF b
<1>14. ValueOf(b, px) = ValueOf(flat, px) /\ Held(b) = Held(flat) /\ OpenLegs(b) = OpenLegs(flat)
  BY <1>13, SameWorth DEF OpenLegs
<1> QED BY <1>10, <1>11, <1>13, <1>14 DEF Dealt, SameControl, Liquidated

\* The last day closes every leg and moves no money.
LEMMA FinalizeKeeps ==
    ASSUME NEW a \in Accounts, NEW d \in Nat
    PROVE  LET b == FinalizeAll(a, d)
           IN  b \in Accounts /\ SameMoney(a, b) /\ SameControl(a, b) /\ OpenLegs(b) = {}
<1>0. PICK S : S = OpenLegs(a) /\ S \in SUBSET Symbols
  BY DEF OpenLegs
<1>1. PICK A : A = {b \in Accounts : SameMoney(a, b) /\ SameControl(a, b)}
  OBVIOUS
<1>2. a \in A
  BY <1>1 DEF SameMoney, SameControl
<1>3. ASSUME NEW s \in Symbols, NEW b \in A
      PROVE  RecordExit(b, s, d, b.pv) \in A /\ OpenLegs(RecordExit(b, s, d, b.pv)) = OpenLegs(b) \ {s}
  <2>1. b \in Accounts /\ SameMoney(a, b) /\ SameControl(a, b)
    BY <1>1
  <2>2. b.pv \in Nat
    BY <2>1, AccountFields
  <2>3. PICK x : x = RecordExit(b, s, d, b.pv)
    OBVIOUS
  <2>4. x \in Accounts /\ SameMoney(b, x) /\ SameControl(b, x) /\ OpenLegs(x) = OpenLegs(b) \ {s}
    BY <2>1, <2>2, <2>3, ExitRecorded
  <2> QED BY <1>1, <2>1, <2>3, <2>4 DEF SameMoney, SameControl
<1>4. PICK it : ExitsRun(it, A, a, S, d)
  <2>1. ExitsWithin(S, A, d)
    BY <1>0, <1>3 DEF ExitsWithin
  <2>2. IsFiniteSet(S)
    BY <1>0, SubsetIsFinite
  <2> QED BY <1>2, <2>1, <2>2, ExitsInTurn
<1>5. FinalizeAll(a, d) = it[S]
  BY <1>0, <1>4 DEF FinalizeAll, ExitsRun
<1>6. PICK Good : Good = {T \in SUBSET S : OpenLegs(it[T]) = S \ T}
  OBVIOUS
<1>7. PICK c : c = Chosen(S) /\ \A T \in SUBSET S : T # {} => c[T] \in T
  BY ChosenIs
<1>8. ASSUME NEW T \in SUBSET S, T # {}, T \ {c[T]} \in Good PROVE T \in Good
  <2> DEFINE R == T \ {c[T]}
  <2>1. c[T] \in T /\ c[T] \in Symbols /\ R \in SUBSET S /\ it[R] \in A /\ OpenLegs(it[R]) = S \ R
    <3>1. c[T] \in T /\ R \in SUBSET S
      BY <1>7, <1>8
    <3>2. it[R] \in A
      BY <1>4, <3>1 DEF ExitsRun
    <3> QED BY <1>0, <1>6, <1>8, <3>1, <3>2
  <2>2. it[T] = RecordExit(it[R], c[T], d, it[R].pv)
    BY <1>4, <1>7, <1>8 DEF ExitsRun
  <2>3. OpenLegs(it[T]) = OpenLegs(it[R]) \ {c[T]}
    <3> HIDE DEF R
    <3> QED BY <1>3, <2>1, <2>2
  <2>4. OpenLegs(it[T]) = S \ T
    BY <2>1, <2>3
  <2> QED BY <1>6, <2>4
<1>9. SUBSET S \subseteq Good
  <2>1. {} \in Good
    BY <1>0, <1>4, <1>6 DEF ExitsRun
  <2>2. \A T \in SUBSET S : T # {} /\ T \ {c[T]} \in Good => T \in Good
    BY <1>8
  <2>3. IsFiniteSet(S)
    BY <1>0, SubsetIsFinite
  <2>4. \A T \in SUBSET S : T # {} => c[T] \in T
    BY <1>7
  <2> QED BY <2>1, <2>2, <2>3, <2>4, TakingOut
<1>10. S \in Good /\ it[S] \in A
  BY <1>4, <1>9 DEF ExitsRun
<1> QED BY <1>1, <1>5, <1>6, <1>10

(* Signals *)

LEMMA MaxOfTwo == \A x, y \in Int : Max({x, y}) = IF x >= y THEN x ELSE y
<1> SUFFICES ASSUME NEW x \in Int, NEW y \in Int PROVE Max({x, y}) = IF x >= y THEN x ELSE y
  OBVIOUS
<1> DEFINE m == IF x >= y THEN x ELSE y
<1>1. m \in {x, y} /\ \A z \in {x, y} : m >= z
  OBVIOUS
<1>2. \A w \in {x, y} : (\A z \in {x, y} : w >= z) => w = m
  OBVIOUS
<1>3. Max({x, y}) = m
  <2> HIDE DEF m
  <2> QED BY <1>1, <1>2 DEF Max
<1> QED BY <1>3

LEMMA AllInIs == \A held : AllIn(held) \in Percent
BY DEF AllIn, Percent

LEMMA TargetIsPercent == ASSUME NEW kind \in Kinds, NEW history PROVE TargetWeights(kind, history) \in Percent
<1>1. DualMomentum(history) \in Percent
  BY AllInIs DEF DualMomentum
<1>2. AsymmetricTrend(history) \in Percent
  BY AllInIs DEF AsymmetricTrend
<1> DEFINE p == Series(history, Primary)
<1>3. CASE kind = "buy_and_hold"
  BY <1>3, AllInIs DEF TargetWeights
<1>4. CASE kind = "dual_momentum"
  BY <1>1, <1>4 DEF TargetWeights
<1>5. CASE kind = "asymmetric_trend_momentum"
  BY <1>2, <1>5 DEF TargetWeights
<1>6. CASE kind = "sma_crossover"
  BY <1>6, AllInIs DEF TargetWeights
<1>7. CASE kind = "rsi"
  BY <1>7, AllInIs DEF TargetWeights
<1>8. CASE kind = "z_score"
  BY <1>8, AllInIs DEF TargetWeights
<1>9. CASE kind = "macro_allocation"
  BY <1>9, AllInIs DEF TargetWeights
<1> QED BY <1>3, <1>4, <1>5, <1>6, <1>7, <1>8, <1>9 DEF Kinds

\* The weight of what is held, on a value that was marked at these prices.
LEMMA HeldIsPercent ==
    ASSUME NEW a \in Accounts, NEW px \in Prices, a.pv = ValueOf(a, px)
    PROVE  HeldWeights(a, px) \in Percent
<1>1. CASE a.pv = 0
  BY <1>1 DEF HeldWeights, NoSymbol, Percent
<1>2. CASE a.pv # 0
  <2>1. ASSUME NEW s \in Symbols PROVE (a.qty[s] * px[s] * 100) \div a.pv \in 0..100
    <3> DEFINE worth == a.qty[s] * px[s]
               q == (worth * 100) \div a.pv
    <3>1. worth \in Nat /\ a.pv \in Nat \ {0} /\ worth <= a.pv
      BY <1>2, WorthIs
    <3> HIDE DEF worth
    <3>2. worth * 100 \in Nat /\ worth * 100 <= 100 * a.pv
      BY <3>1
    <3>3. q \in Nat /\ q * a.pv <= worth * 100
      BY <3>1, <3>2, Floor
    <3> HIDE DEF q
    <3>4. q * a.pv <= 100 * a.pv
      BY <3>1, <3>2, <3>3
    <3>5. q <= 100
      BY <3>1, <3>3, <3>4, Cancel
    <3> QED BY <3>3, <3>5 DEF q, worth
  <2> QED BY <1>2, <2>1 DEF HeldWeights, Percent
<1> QED BY <1>1, <1>2

LEMMA TradesHaveResults ==
    ASSUME NEW trades \in Seq(TradeRows)
    PROVE  /\ DOMAIN trades = 1..Len(trades) /\ Len(trades) \in Nat
           /\ \A i \in DOMAIN trades : trades[i].pnl \in Int
<1>1. DOMAIN trades = 1..Len(trades) /\ Len(trades) \in Nat /\ \A i \in DOMAIN trades : trades[i] \in TradeRows
  OBVIOUS
<1>2. \A r \in TradeRows : r.pnl \in Int
  BY DEF TradeRows
<1> QED BY <1>1, <1>2

LEMMA KellyCapIsNat == ASSUME NEW trades \in Seq(TradeRows) PROVE KellyCap(trades) \in Nat
<1> DEFINE pnl == [i \in DOMAIN trades |-> trades[i].pnl]
           loss == [i \in DOMAIN trades |-> -trades[i].pnl]
           Wins == {i \in DOMAIN trades : pnl[i] > 0}
           Losses == {i \in DOMAIN trades : pnl[i] < 0}
           won == SumOver(pnl, Wins)
           lost == SumOver(loss, Losses)
           wins == Cardinality(Wins)
           closed == wins + Cardinality(Losses)
           full == IF won > lost THEN (100 * wins * (won - lost)) \div (closed * won) ELSE 0
<1>1. KellyCap(trades) = IF closed < KellyMinTrades \/ lost = 0 \/ won = 0 THEN KellyFallback
                         ELSE Max({1, (KellyShare * full) \div 100})
  BY DEF KellyCap
<1>2. DOMAIN trades = 1..Len(trades) /\ Len(trades) \in Nat /\ \A i \in DOMAIN trades : trades[i].pnl \in Int
  BY TradesHaveResults
<1>3. /\ \A i \in Wins : pnl[i] \in Nat
      /\ \A i \in Losses : loss[i] \in Nat
  BY <1>2
<1>4. IsFiniteSet(Wins) /\ IsFiniteSet(Losses)
  <2>1. IsFiniteSet(DOMAIN trades)
    BY <1>2, FS_Interval
  <2>2. Wins \subseteq DOMAIN trades /\ Losses \subseteq DOMAIN trades
    OBVIOUS
  <2> HIDE DEF Wins, Losses
  <2> QED BY <2>1, <2>2, FS_Subset
<1> HIDE DEF Wins, Losses, pnl, loss
<1>5. won \in Nat /\ lost \in Nat
  BY <1>3, <1>4, SumIsNat
<1>6. wins \in Nat /\ closed \in Nat
  BY <1>4, FS_CardinalityType
<1>7. {KellyFallback, KellyShare} \subseteq Nat /\ KellyMinTrades \in Nat \ {0}
  BY SignalAssumption
<1> HIDE DEF won, lost, wins
<1>8. CASE closed < KellyMinTrades \/ lost = 0 \/ won = 0
  <2> HIDE DEF closed, full
  <2> QED BY <1>1, <1>7, <1>8
<1>9. CASE ~(closed < KellyMinTrades \/ lost = 0 \/ won = 0)
  <2>1. closed \in Nat \ {0} /\ won \in Nat \ {0}
    <3> HIDE DEF closed
    <3> QED BY <1>5, <1>6, <1>7, <1>9
  <2> HIDE DEF closed
  <2>2. closed * won \in Nat \ {0}
    <3>1. 1 * won <= closed * won
      BY <2>1, Monotone
    <3> QED BY <2>1, <3>1
  <2>3. full \in Nat
    <3>1. CASE won > lost
      <4>1. won - lost \in Nat /\ 100 * wins \in Nat
        BY <1>5, <1>6, <3>1
      <4>2. 100 * wins * (won - lost) \in Nat
        BY <4>1
      <4> QED BY <2>2, <3>1, <4>2, Floor
    <3> QED BY <3>1
  <2> HIDE DEF full
  <2>4. (KellyShare * full) \div 100 \in Nat
    <3>1. KellyShare * full \in Nat
      BY <1>7, <2>3
    <3> QED BY <3>1
  <2>5. KellyCap(trades) = Max({1, (KellyShare * full) \div 100})
    BY <1>1, <1>9
  <2> QED BY <2>4, <2>5, MaxOfTwo
<1> QED BY <1>8, <1>9

LEMMA MinStaysPercent == \A x \in 0..100, k \in Nat : Min({x, k}) \in 0..100
<1> SUFFICES ASSUME NEW x \in 0..100, NEW k \in Nat PROVE Min({x, k}) \in 0..100
  OBVIOUS
<1>1. Min({x, k}) = IF x <= k THEN x ELSE k
  <2>1. x \in Int /\ k \in Int
    OBVIOUS
  <2> QED BY <2>1, MinOfTwo
<1>2. (IF x <= k THEN x ELSE k) \in 0..100
  OBVIOUS
<1> QED BY <1>1, <1>2

LEMMA CappedIsPercent ==
    ASSUME NEW w \in Percent, NEW trades \in Seq(TradeRows) PROVE KellyCapped(w, trades) \in Percent
<1>1. KellyCap(trades) \in Nat
  BY KellyCapIsNat
<1>2. ASSUME NEW s \in Symbols PROVE Min({w[s], KellyCap(trades)}) \in 0..100
  <2>1. w[s] \in 0..100
    BY DEF Percent
  <2> QED BY <1>1, <2>1, MinStaysPercent
<1> QED BY <1>2 DEF KellyCapped, Percent

LEMMA MergedIsPercent ==
    ASSUME NEW w \in Percent, NEW held \in Percent PROVE MergeRsiHold(w, held) \in Percent
<1>1. held[Primary] \in 0..100
  BY EngineNumbers DEF Percent
<1> QED BY <1>1 DEF MergeRsiHold, Percent

(* The phases of a day *)

WithOrders(a, pending, risk) == [a EXCEPT !.pending = pending, !.risk = risk]
WithHalt(a, halted, hwm) == [a EXCEPT !.halted = halted, !.hwm = hwm]

\* What orders to come and a suspension leave alone.
SameBook(a, b) == SameMoney(a, b) /\ b.legs = a.legs /\ b.trades = a.trades

LEMMA NothingOrdered == NoRebalance \in Signals /\ NoRisk \in Risks /\ NoRisk.kind = "none"
<1>1. NoSymbol \in Percent
  BY DEF NoSymbol, Percent
<1> QED BY <1>1, EngineNumbers DEF NoRebalance, NoRisk, Signals, Risks

LEMMA OrdersMove ==
    ASSUME NEW a \in Accounts, NEW pending \in Signals, NEW risk \in Risks
    PROVE  LET b == WithOrders(a, pending, risk)
           IN  /\ b \in Accounts /\ SameBook(a, b) /\ b.hwm = a.hwm /\ b.halted = a.halted
               /\ b.pending = pending /\ b.risk = risk
BY DEF Accounts, SameBook, SameMoney, WithOrders

LEMMA HaltMoves ==
    ASSUME NEW a \in Accounts, NEW halted \in BOOLEAN, NEW hwm \in Nat
    PROVE  LET b == WithHalt(a, halted, hwm)
           IN  /\ b \in Accounts /\ SameBook(a, b) /\ b.pending = a.pending /\ b.risk = a.risk
               /\ b.halted = halted /\ b.hwm = hwm
BY DEF Accounts, SameBook, SameMoney, WithHalt

LEMMA SameBookIs ==
    ASSUME NEW a, NEW b, SameBook(a, b), NEW px
    PROVE  ValueOf(b, px) = ValueOf(a, px) /\ Held(b) = Held(a) /\ OpenLegs(b) = OpenLegs(a)
<1>1. b.cash = a.cash /\ b.qty = a.qty /\ b.legs = a.legs
  BY DEF SameBook, SameMoney
<1> QED BY <1>1, SameWorth DEF OpenLegs

LEMMA ReleaseKeeps ==
    ASSUME NEW a \in Accounts
    PROVE  LET b == ReleaseHalt(a)
           IN  b \in Accounts /\ SameBook(a, b) /\ b.pending = a.pending /\ b.risk = a.risk /\ b.halted = FALSE
<1>1. CASE ~a.halted
  <2>1. ReleaseHalt(a) = a
    BY <1>1 DEF ReleaseHalt
  <2>2. a.halted = FALSE
    BY <1>1, AccountFields
  <2> QED BY <2>1, <2>2 DEF SameBook, SameMoney
<1>2. CASE a.halted
  <2>1. a.hwm \in Nat /\ a.pv \in Nat
    BY AccountFields
  <2>2. PICK peak : peak = Min({a.hwm, a.pv}) /\ peak \in Nat
    <3>1. a.hwm \in Int /\ a.pv \in Int
      BY <2>1
    <3>2. Min({a.hwm, a.pv}) = IF a.hwm <= a.pv THEN a.hwm ELSE a.pv
      BY <3>1, MinOfTwo
    <3> QED BY <2>1, <3>2
  <2>3. ReleaseHalt(a) = WithHalt(a, FALSE, peak)
    BY <1>2, <2>2 DEF ReleaseHalt, WithHalt, Accounts
  <2>4. PICK off : off = FALSE /\ off \in BOOLEAN
    OBVIOUS
  <2>5. PICK b : b = WithHalt(a, off, peak)
    OBVIOUS
  <2>6. b \in Accounts /\ SameBook(a, b) /\ b.pending = a.pending /\ b.risk = a.risk /\ b.halted = off
    BY <2>2, <2>4, <2>5, HaltMoves
  <2> QED BY <2>3, <2>4, <2>5, <2>6
<1> QED BY <1>1, <1>2

\* The risk order of yesterday is filled: what was ordered decides what is left.
RiskFilled(a, b, px) ==
    /\ b \in Accounts /\ b.risk.kind = "none" /\ b.hwm = a.hwm
    /\ ValueOf(b, px) <= ValueOf(a, px) /\ OpenLegs(b) = Held(b)
    /\ IF a.risk.kind = "halt_portfolio"
       THEN b.halted = TRUE /\ Held(b) = {} /\ b.pending = NoRebalance
       ELSE b.halted = a.halted /\ b.pending = a.pending /\ (a.risk.kind = "none" => b = a)

LEMMA RiskIsFilled ==
    ASSUME NEW a \in Accounts, NEW px \in Prices, NEW d \in Nat \ {0}, OpenLegs(a) = Held(a),
           a.risk.kind = "halt_portfolio" => ~a.halted
    PROVE  RiskFilled(a, FillRisk(a, px, d), px)
<1>0. a.risk \in Risks /\ a.risk.kind \in {"none", "halt_portfolio", "close_position"} /\ a.risk.symbol \in Symbols
  BY AccountFields DEF Risks
<1>1. CASE a.risk.kind = "none"
  <2>1. FillRisk(a, px, d) = a
    BY <1>1 DEF FillRisk
  <2>2. ValueOf(a, px) \in Nat
    BY WorthIs
  <2> QED BY <1>1, <2>1, <2>2 DEF RiskFilled
<1>2. CASE a.risk.kind = "halt_portfolio"
  <2>1. PICK sold : sold = ForcedLiquidation(a, px, d)
    OBVIOUS
  <2>2. /\ sold \in Accounts /\ Held(sold) = {} /\ sold.halted = TRUE /\ sold.hwm = a.hwm
        /\ ValueOf(sold, px) <= ValueOf(a, px) /\ OpenLegs(sold) = {}
    <3>1. d \in Nat
      OBVIOUS
    <3>2. Liquidated(a, sold, px)
      BY <2>1, <3>1, LiquidationKeeps
    <3> QED BY <3>2 DEF Liquidated
  <2>3. PICK b : b = WithOrders(sold, NoRebalance, NoRisk)
    OBVIOUS
  <2>4. FillRisk(a, px, d) = b
    <3>1. FillRisk(a, px, d) = [sold EXCEPT !.pending = NoRebalance, !.risk = NoRisk]
      BY <1>2, <2>1 DEF FillRisk
    <3> QED BY <2>3, <3>1 DEF WithOrders
  <2>5. /\ b \in Accounts /\ SameBook(sold, b) /\ b.hwm = sold.hwm /\ b.halted = sold.halted
        /\ b.pending = NoRebalance /\ b.risk = NoRisk
    BY <2>2, <2>3, NothingOrdered, OrdersMove
  <2>6. ValueOf(b, px) = ValueOf(sold, px) /\ Held(b) = Held(sold) /\ OpenLegs(b) = OpenLegs(sold)
    BY <2>5, SameBookIs
  <2> QED BY <1>2, <2>2, <2>4, <2>5, <2>6, NothingOrdered DEF RiskFilled
<1>3. CASE a.risk.kind = "close_position"
  <2>1. PICK sold : sold = ClosePosition(a, a.risk.symbol, px, d)
    OBVIOUS
  <2>2. Dealt(a, sold, px)
    BY <1>0, <2>1, CloseKeeps
  <2>3. PICK b : b = WithOrders(sold, sold.pending, NoRisk)
    OBVIOUS
  <2>4. FillRisk(a, px, d) = b
    <3>1. FillRisk(a, px, d) = [sold EXCEPT !.risk = NoRisk]
      BY <1>3, <2>1 DEF FillRisk
    <3>2. sold \in Accounts
      BY <2>2 DEF Dealt
    <3> QED BY <2>3, <3>1, <3>2 DEF WithOrders, Accounts
  <2>5. /\ b \in Accounts /\ SameBook(sold, b) /\ b.hwm = sold.hwm /\ b.halted = sold.halted
        /\ b.pending = sold.pending /\ b.risk = NoRisk
    <3>1. sold \in Accounts /\ sold.pending \in Signals
      BY <2>2, AccountFields DEF Dealt
    <3> QED BY <2>3, <3>1, NothingOrdered, OrdersMove
  <2>6. ValueOf(b, px) = ValueOf(sold, px) /\ Held(b) = Held(sold) /\ OpenLegs(b) = OpenLegs(sold)
    BY <2>5, SameBookIs
  <2> QED BY <1>3, <2>2, <2>4, <2>5, <2>6, NothingOrdered DEF RiskFilled, Dealt, SameControl
<1> QED BY <1>0, <1>1, <1>2, <1>3

\* Yesterday's signal is filled unless the portfolio is suspended.
SignalFilled(a, b, px) ==
    /\ b \in Accounts /\ b.risk = a.risk /\ b.hwm = a.hwm /\ b.halted = a.halted
    /\ ValueOf(b, px) <= ValueOf(a, px) /\ OpenLegs(b) = Held(b)
    /\ IF a.halted \/ a.pending = NoRebalance THEN b = a ELSE b.pending = NoRebalance

LEMMA SignalIsFilled ==
    ASSUME NEW a \in Accounts, NEW px \in Prices, NEW d \in Nat \ {0}, OpenLegs(a) = Held(a)
    PROVE  SignalFilled(a, FillPending(a, px, d), px)
<1>1. CASE a.halted \/ a.pending = NoRebalance
  <2>1. FillPending(a, px, d) = a
    BY <1>1 DEF FillPending
  <2>2. ValueOf(a, px) \in Nat
    BY WorthIs
  <2> QED BY <1>1, <2>1, <2>2 DEF SignalFilled
<1>2. CASE ~(a.halted \/ a.pending = NoRebalance)
  <2>1. PICK traded : traded = Rebalance(a, px, d, a.pending.target)
    OBVIOUS
  <2>2. Dealt(a, traded, px)
    <3>1. a.pending.target \in Percent
      BY AccountFields DEF Signals
    <3> QED BY <2>1, <3>1, RebalanceKeeps
  <2>3. PICK b : b = WithOrders(traded, NoRebalance, traded.risk)
    OBVIOUS
  <2>4. FillPending(a, px, d) = b
    <3>1. FillPending(a, px, d) = [traded EXCEPT !.pending = NoRebalance]
      BY <1>2, <2>1 DEF FillPending
    <3>2. traded \in Accounts
      BY <2>2 DEF Dealt
    <3> QED BY <2>3, <3>1, <3>2 DEF WithOrders, Accounts
  <2>5. /\ b \in Accounts /\ SameBook(traded, b) /\ b.hwm = traded.hwm /\ b.halted = traded.halted
        /\ b.pending = NoRebalance /\ b.risk = traded.risk
    <3>1. traded \in Accounts /\ traded.risk \in Risks
      BY <2>2, AccountFields DEF Dealt
    <3> QED BY <2>3, <3>1, NothingOrdered, OrdersMove
  <2>6. ValueOf(b, px) = ValueOf(traded, px) /\ Held(b) = Held(traded) /\ OpenLegs(b) = OpenLegs(traded)
    BY <2>5, SameBookIs
  <2> QED BY <1>2, <2>2, <2>4, <2>5, <2>6 DEF SignalFilled, Dealt, SameControl
<1> QED BY <1>1, <1>2

\* A mark moves nothing but the value and the peak, which stays above it.
Marked(a, b, px) ==
    /\ b \in Accounts /\ b.cash = a.cash /\ b.qty = a.qty /\ b.legs = a.legs /\ b.trades = a.trades
    /\ b.pending = a.pending /\ b.risk = a.risk /\ b.halted = a.halted
    /\ b.pv = ValueOf(a, px) /\ b.hwm >= b.pv
    /\ ValueOf(b, px) = ValueOf(a, px) /\ Held(b) = Held(a) /\ OpenLegs(b) = OpenLegs(a)

LEMMA MarkIs == ASSUME NEW a \in Accounts, NEW px \in Prices PROVE Marked(a, MarkToMarket(a, px), px)
<1>1. PICK pv : pv = ValueOf(a, px) /\ pv \in Nat
  BY WorthIs
<1>2. PICK peak : peak = Max({a.hwm, pv}) /\ peak \in Nat /\ peak >= pv
  <2>1. a.hwm \in Nat /\ a.hwm \in Int /\ pv \in Int
    BY <1>1, AccountFields
  <2>2. Max({a.hwm, pv}) = IF a.hwm >= pv THEN a.hwm ELSE pv
    BY <2>1, MaxOfTwo
  <2> QED BY <1>1, <2>1, <2>2
<1>3. PICK b : b = MarkToMarket(a, px)
  OBVIOUS
<1>4. b = [a EXCEPT !.pv = pv, !.hwm = peak]
  BY <1>1, <1>2, <1>3 DEF MarkToMarket
<1>5. /\ b \in Accounts /\ b.cash = a.cash /\ b.qty = a.qty /\ b.legs = a.legs /\ b.trades = a.trades
      /\ b.pending = a.pending /\ b.risk = a.risk /\ b.halted = a.halted /\ b.pv = pv /\ b.hwm = peak
  BY <1>1, <1>2, <1>4 DEF Accounts
<1>6. ValueOf(b, px) = ValueOf(a, px) /\ Held(b) = Held(a)
  BY <1>5, SameWorth
<1>7. OpenLegs(b) = OpenLegs(a)
  BY <1>5 DEF OpenLegs
<1> QED BY <1>1, <1>2, <1>3, <1>5, <1>6, <1>7 DEF Marked

\* A risk order is queued for tomorrow; a breach drops the signal that waited.
RiskQueued(a, b) ==
    /\ b \in Accounts /\ SameBook(a, b) /\ b.hwm = a.hwm /\ b.halted = a.halted
    /\ \/ b.risk = a.risk /\ b.pending = a.pending
       \/ b.risk.kind = "close_position" /\ ~a.halted /\ b.pending = a.pending
       \/ b.risk.kind = "halt_portfolio" /\ ~a.halted /\ Held(a) # {} /\ b.pending = NoRebalance

LEMMA RiskIsQueued ==
    ASSUME NEW a \in Accounts, NEW px, NEW d \in Nat \ {0}, NEW c
    PROVE  RiskQueued(a, QueueRisk(a, px, d, c))
<1>1. a.pending \in Signals /\ a.risk \in Risks
  BY AccountFields
<1>2. CASE QueueRisk(a, px, d, c) = a
  BY <1>2 DEF RiskQueued, SameBook, SameMoney
<1> DEFINE halt == [kind |-> "halt_portfolio", symbol |-> Primary]
           pick == CHOOSE s \in Losers(a, px, c) : TRUE
           stop == [kind |-> "close_position", symbol |-> pick]
<1>3. CASE d > 1 /\ Held(a) # {} /\ ~a.halted /\ c.liquidate /\ Drawdown(a, c)
  <2>1. PICK b : b = WithOrders(a, NoRebalance, halt)
    OBVIOUS
  <2>2. QueueRisk(a, px, d, c) = [a EXCEPT !.risk = halt, !.pending = NoRebalance]
    BY <1>3 DEF QueueRisk
  <2>3. QueueRisk(a, px, d, c) = b
    BY <2>1, <2>2 DEF WithOrders, Accounts
  <2>4. halt \in Risks
    BY EngineNumbers DEF Risks
  <2>5. /\ b \in Accounts /\ SameBook(a, b) /\ b.hwm = a.hwm /\ b.halted = a.halted
        /\ b.pending = NoRebalance /\ b.risk = halt
    <3> HIDE DEF halt
    <3> QED BY <2>1, <2>4, NothingOrdered, OrdersMove
  <2> QED BY <1>3, <2>3, <2>5 DEF RiskQueued
<1>4. CASE /\ ~(d = 1 \/ Held(a) = {} \/ a.halted)
           /\ ~(d > 1 /\ Held(a) # {} /\ ~a.halted /\ c.liquidate /\ Drawdown(a, c))
           /\ Losers(a, px, c) # {}
  <2>1. PICK b : b = WithOrders(a, a.pending, stop)
    OBVIOUS
  <2>2. QueueRisk(a, px, d, c) = [a EXCEPT !.risk = stop]
    BY <1>4 DEF QueueRisk
  <2>3. QueueRisk(a, px, d, c) = b
    BY <2>1, <2>2 DEF WithOrders, Accounts
  <2>4. stop \in Risks
    <3>1. pick \in Losers(a, px, c)
      BY <1>4
    <3>2. Losers(a, px, c) \subseteq Symbols
      BY DEF Losers, Held
    <3> HIDE DEF pick
    <3> QED BY <3>1, <3>2 DEF Risks
  <2>5. /\ b \in Accounts /\ SameBook(a, b) /\ b.hwm = a.hwm /\ b.halted = a.halted
        /\ b.pending = a.pending /\ b.risk = stop
    <3> HIDE DEF stop
    <3> QED BY <1>1, <2>1, <2>4, OrdersMove
  <2> QED BY <1>4, <2>3, <2>5 DEF RiskQueued
<1>5. CASE d = 1 \/ Held(a) = {} \/ a.halted
  <2>1. QueueRisk(a, px, d, c) = a
    BY <1>5 DEF QueueRisk
  <2> QED BY <1>2, <2>1
<1>6. CASE /\ ~(d = 1 \/ Held(a) = {} \/ a.halted)
           /\ ~(d > 1 /\ Held(a) # {} /\ ~a.halted /\ c.liquidate /\ Drawdown(a, c))
           /\ Losers(a, px, c) = {}
  <2>1. QueueRisk(a, px, d, c) = a
    BY <1>6 DEF QueueRisk
  <2> QED BY <1>2, <2>1
<1> QED BY <1>3, <1>4, <1>5, <1>6

\* A signal computed today is queued with today's date.
SignalQueued(a, b, d) ==
    /\ b \in Accounts /\ SameBook(a, b) /\ b.hwm = a.hwm /\ b.halted = a.halted /\ b.risk = a.risk
    /\ \/ b.pending = a.pending
       \/ b.pending.day = d /\ ~a.halted

LEMMA SignalIsQueued ==
    ASSUME NEW a \in Accounts, NEW history, Last(history) \in Prices, a.pv = ValueOf(a, Last(history)),
           NEW d \in Nat, NEW c, c.kind \in Kinds
    PROVE  SignalQueued(a, QueueSignal(a, history, d, c), d)
<1> DEFINE px == Last(history)
           signal == TargetWeights(c.kind, history)
           merged == IF c.kind = "rsi" THEN MergeRsiHold(signal, HeldWeights(a, px)) ELSE signal
           target == IF c.kelly THEN KellyCapped(merged, a.trades) ELSE merged
           new == [day |-> d, target |-> target]
<1>1. target \in Percent
  <2>1. signal \in Percent /\ HeldWeights(a, px) \in Percent /\ a.trades \in Seq(TradeRows)
    BY TargetIsPercent, HeldIsPercent, AccountFields
  <2>2. merged \in Percent
    <3> HIDE DEF signal, px
    <3> QED BY <2>1, MergedIsPercent
  <2> HIDE DEF merged
  <2> QED BY <2>1, <2>2, CappedIsPercent
<1>2. QueueSignal(a, history, d, c) \in {a, [a EXCEPT !.pending = new]}
                                       /\ (a.halted => QueueSignal(a, history, d, c) = a)
  BY DEF QueueSignal
<1> HIDE DEF target
<1>3. CASE QueueSignal(a, history, d, c) = a
  BY <1>3 DEF SignalQueued, SameBook, SameMoney
<1>4. CASE QueueSignal(a, history, d, c) = [a EXCEPT !.pending = new] /\ ~a.halted
  <2>1. PICK b : b = WithOrders(a, new, a.risk)
    OBVIOUS
  <2>2. QueueSignal(a, history, d, c) = b
    BY <1>4, <2>1 DEF WithOrders, Accounts
  <2>3. new \in Signals /\ new.day = d /\ a.risk \in Risks
    BY <1>1, AccountFields DEF Signals
  <2>4. /\ b \in Accounts /\ SameBook(a, b) /\ b.hwm = a.hwm /\ b.halted = a.halted
        /\ b.pending = new /\ b.risk = a.risk
    <3> HIDE DEF new
    <3> QED BY <2>1, <2>3, OrdersMove
  <2> QED BY <1>4, <2>2, <2>3, <2>4 DEF SignalQueued
<1> QED BY <1>2, <1>3, <1>4

(* A day *)

\* What holds of the account between two days: n is the last one.
AtRest(a, n) ==
    /\ a \in Accounts /\ a.hwm >= a.pv
    /\ (a.halted => Held(a) = {} /\ a.pending = NoRebalance /\ a.risk.kind = "none")
    /\ (a.risk.kind = "halt_portfolio" => ~a.halted /\ Held(a) # {})
    /\ (a.pending = NoRebalance \/ a.pending.day = n)

\* The loop's body, as RunDay composes it.
AfterDay(a, history, px, d, reset, c) ==
    LET opened == IF reset THEN ReleaseHalt(a) ELSE a
        filled == FillPending(FillRisk(opened, px, d), px, d)
        checked == QueueRisk(MarkToMarket(filled, px), px, d, c)
    IN  MarkToMarket(QueueSignal(checked, history, d, c), px)

DayDone(a, b, px, d, reset) ==
    /\ AtRest(b, d) /\ OpenLegs(b) = Held(b) /\ b.pv <= ValueOf(a, px)
    /\ IF a.halted THEN Held(b) = {} /\ b.risk.kind # "halt_portfolio" /\ (b.halted <=> ~reset)
       ELSE IF a.risk.kind = "halt_portfolio" THEN b.halted /\ Held(b) = {}
       ELSE ~b.halted

LEMMA DayKeeps ==
    ASSUME NEW a, NEW n \in Nat, NEW d \in Nat \ {0}, AtRest(a, n), OpenLegs(a) = Held(a),
           NEW history, NEW px \in Prices, Last(history) = px,
           NEW reset \in BOOLEAN, NEW c, c.kind \in Kinds
    PROVE  DayDone(a, AfterDay(a, history, px, d, reset, c), px, d, reset)
<1>1. PICK opened : opened = IF reset THEN ReleaseHalt(a) ELSE a
  OBVIOUS
<1>2. PICK stopped : stopped = FillRisk(opened, px, d)
  OBVIOUS
<1>3. PICK filled : filled = FillPending(stopped, px, d)
  OBVIOUS
<1>4. PICK marked : marked = MarkToMarket(filled, px)
  OBVIOUS
<1>5. PICK checked : checked = QueueRisk(marked, px, d, c)
  OBVIOUS
<1>6. PICK queued : queued = QueueSignal(checked, history, d, c)
  OBVIOUS
<1>7. PICK b : b = MarkToMarket(queued, px)
  OBVIOUS
<1>8. AfterDay(a, history, px, d, reset, c) = b
  BY <1>1, <1>2, <1>3, <1>4, <1>5, <1>6, <1>7 DEF AfterDay
<1>9. a \in Accounts /\ a.halted \in BOOLEAN
  BY AccountFields DEF AtRest
\* The cycle begins.
<1>10. /\ opened \in Accounts /\ SameBook(a, opened) /\ opened.pending = a.pending /\ opened.risk = a.risk
       /\ (opened.halted <=> a.halted /\ ~reset)
  <2>1. CASE reset
    <3>1. opened = ReleaseHalt(a)
      BY <1>1, <2>1
    <3>2. /\ opened \in Accounts /\ SameBook(a, opened) /\ opened.pending = a.pending
          /\ opened.risk = a.risk /\ opened.halted = FALSE
      BY <1>9, <3>1, ReleaseKeeps
    <3> QED BY <2>1, <3>2
  <2>2. CASE ~reset
    <3>1. opened = a
      BY <1>1, <2>2
    <3> QED BY <1>9, <2>2, <3>1 DEF SameBook, SameMoney
  <2> QED BY <2>1, <2>2
<1>11. ValueOf(opened, px) = ValueOf(a, px) /\ Held(opened) = Held(a) /\ OpenLegs(opened) = Held(opened)
  <2>1. ValueOf(opened, px) = ValueOf(a, px) /\ Held(opened) = Held(a) /\ OpenLegs(opened) = OpenLegs(a)
    BY <1>10, SameBookIs
  <2> QED BY <2>1
\* The order that was queued is filled, and nothing is pending any more.
<1>12. RiskFilled(opened, stopped, px)
  <2>1. opened.risk.kind = "halt_portfolio" => ~opened.halted
    BY <1>10 DEF AtRest
  <2> QED BY <1>2, <1>10, <1>11, <2>1, RiskIsFilled
<1>13. SignalFilled(stopped, filled, px)
  <2>1. stopped \in Accounts /\ OpenLegs(stopped) = Held(stopped)
    BY <1>12 DEF RiskFilled
  <2> QED BY <1>3, <2>1, SignalIsFilled
<1>14. /\ filled \in Accounts /\ OpenLegs(filled) = Held(filled) /\ ValueOf(filled, px) <= ValueOf(a, px)
       /\ filled.risk.kind = "none" /\ filled.pending = NoRebalance
  <2>1. ValueOf(opened, px) \in Nat /\ ValueOf(stopped, px) \in Nat /\ ValueOf(filled, px) \in Nat
    BY <1>10, <1>12, <1>13, WorthIs DEF RiskFilled, SignalFilled
  <2>2. ValueOf(filled, px) <= ValueOf(a, px)
    BY <1>11, <1>12, <1>13, <2>1 DEF RiskFilled, SignalFilled
  <2>3. filled.pending = NoRebalance
    <3>1. CASE opened.risk.kind = "halt_portfolio"
      BY <1>12, <1>13, <3>1 DEF RiskFilled, SignalFilled
    <3>2. CASE opened.risk.kind # "halt_portfolio"
      <4>1. stopped.halted => stopped.pending = NoRebalance
        BY <1>10, <1>12, <3>2 DEF RiskFilled, AtRest
      <4> QED BY <1>13, <4>1 DEF SignalFilled
    <3> QED BY <3>1, <3>2
  <2> QED BY <1>12, <1>13, <2>2, <2>3 DEF RiskFilled, SignalFilled
<1>15. IF a.halted THEN Held(filled) = {} /\ (filled.halted <=> ~reset)
       ELSE IF a.risk.kind = "halt_portfolio" THEN filled.halted /\ Held(filled) = {}
       ELSE ~filled.halted
  <2>1. CASE a.halted
    <3>1. opened.risk.kind = "none" /\ opened.pending = NoRebalance /\ Held(opened) = {}
      BY <1>10, <1>11, <2>1 DEF AtRest
    <3>2. stopped = opened
      BY <1>12, <3>1 DEF RiskFilled
    <3>3. filled = opened
      BY <1>13, <3>1, <3>2 DEF SignalFilled
    <3> QED BY <1>10, <2>1, <3>1, <3>3
  <2>2. CASE ~a.halted /\ a.risk.kind = "halt_portfolio"
    <3>1. stopped.halted /\ Held(stopped) = {}
      BY <1>10, <1>12, <2>2 DEF RiskFilled
    <3>2. filled = stopped
      BY <1>13, <3>1 DEF SignalFilled
    <3> QED BY <2>2, <3>1, <3>2
  <2>3. CASE ~a.halted /\ a.risk.kind # "halt_portfolio"
    <3>1. ~filled.halted
      BY <1>10, <1>12, <1>13, <2>3 DEF RiskFilled, SignalFilled
    <3> QED BY <2>3, <3>1
  <2> QED BY <2>1, <2>2, <2>3
\* The day is marked, and tomorrow's orders are queued.
<1>16. Marked(filled, marked, px)
  BY <1>4, <1>14, MarkIs
<1>17. RiskQueued(marked, checked)
  BY <1>5, <1>16, RiskIsQueued DEF Marked
<1>18. /\ checked \in Accounts /\ checked.pv = ValueOf(filled, px)
       /\ ValueOf(checked, px) = ValueOf(filled, px)
       /\ Held(checked) = Held(filled) /\ OpenLegs(checked) = OpenLegs(filled)
  <2>1. SameBook(marked, checked)
    BY <1>17 DEF RiskQueued
  <2>2. /\ ValueOf(checked, px) = ValueOf(marked, px)
        /\ Held(checked) = Held(marked) /\ OpenLegs(checked) = OpenLegs(marked)
    BY <2>1, SameBookIs
  <2>3. checked.pv = marked.pv
    BY <2>1 DEF SameBook, SameMoney
  <2> QED BY <1>16, <1>17, <2>2, <2>3 DEF Marked, RiskQueued
<1>19. SignalQueued(checked, queued, d)
  BY <1>6, <1>18, SignalIsQueued
<1>20. /\ queued \in Accounts /\ ValueOf(queued, px) = ValueOf(filled, px)
       /\ Held(queued) = Held(filled) /\ OpenLegs(queued) = OpenLegs(filled)
  <2>1. SameBook(checked, queued) /\ queued \in Accounts
    BY <1>19 DEF SignalQueued
  <2>2. /\ ValueOf(queued, px) = ValueOf(checked, px)
        /\ Held(queued) = Held(checked) /\ OpenLegs(queued) = OpenLegs(checked)
    BY <2>1, SameBookIs
  <2> QED BY <1>18, <2>1, <2>2
<1>21. Marked(queued, b, px)
  BY <1>7, <1>20, MarkIs
<1>22. b.halted = filled.halted /\ Held(b) = Held(filled) /\ OpenLegs(b) = OpenLegs(filled)
  BY <1>16, <1>17, <1>19, <1>20, <1>21 DEF Marked, RiskQueued, SignalQueued
<1>23. /\ b.risk.kind = "halt_portfolio" => ~b.halted /\ Held(b) # {}
       /\ b.halted => b.risk.kind = "none" /\ b.pending = NoRebalance
       /\ b.pending = NoRebalance \/ b.pending.day = d
  <2>1. marked.risk = filled.risk /\ marked.pending = NoRebalance /\ marked.halted = filled.halted
        /\ Held(marked) = Held(filled)
    BY <1>14, <1>16 DEF Marked
  <2>2. queued.risk = checked.risk /\ (queued.pending = checked.pending \/ (queued.pending.day = d /\ ~checked.halted))
        /\ checked.halted = marked.halted
    BY <1>17, <1>19 DEF RiskQueued, SignalQueued
  <2>3. b.risk = queued.risk /\ b.pending = queued.pending
    BY <1>21 DEF Marked
  <2>4. \/ checked.risk.kind = "none" /\ checked.pending = NoRebalance
        \/ checked.risk.kind = "close_position" /\ ~filled.halted /\ checked.pending = NoRebalance
        \/ checked.risk.kind = "halt_portfolio" /\ ~filled.halted /\ Held(filled) # {} /\ checked.pending = NoRebalance
    BY <1>14, <1>17, <2>1 DEF RiskQueued
  <2> QED BY <1>22, <2>1, <2>2, <2>3, <2>4
<1>24. b.pv = ValueOf(filled, px) /\ b.hwm >= b.pv /\ b \in Accounts
  BY <1>20, <1>21 DEF Marked
<1>25. b.halted => Held(b) = {}
  BY <1>15, <1>22
<1>26. AtRest(b, d)
  BY <1>23, <1>24, <1>25 DEF AtRest
<1>27. OpenLegs(b) = Held(b) /\ b.pv <= ValueOf(a, px)
  BY <1>14, <1>22, <1>24
<1>28. IF a.halted THEN Held(b) = {} /\ b.risk.kind # "halt_portfolio" /\ (b.halted <=> ~reset)
       ELSE IF a.risk.kind = "halt_portfolio" THEN b.halted /\ Held(b) = {}
       ELSE ~b.halted
  <2>1. CASE a.halted
    BY <1>15, <1>22, <1>23, <2>1
  <2>2. CASE ~a.halted
    BY <1>15, <1>22, <2>2
  <2> QED BY <2>1, <2>2
<1> QED BY <1>8, <1>26, <1>27, <1>28 DEF DayDone

(* The daily engine: its invariant *)

\* The backtest that runs, and the closes it has seen.
Calendar ==
    /\ cfg.kind \in Kinds /\ Len(months) \in Nat \ {0, 1} /\ Day <= Len(months)
    /\ hist \in Seq(Prices) /\ \A d \in 1..Day, s \in Symbols : hist[d][s] \in PriceLevels[s]

EngineInv == Calendar /\ AtRest(acct, Day) /\ JournalMirrorsPositions

\* The account a day starts with, and the one it leaves.
DayPasses ==
    \E px \in Closes :
        /\ hist' = Append(hist, px) /\ Day < Len(months) /\ UNCHANGED <<cfg, months>>
        /\ \E b : /\ DayDone(acct, b, px, Day + 1, IsRiskResetDay(months, Day + 1, cfg.freq))
                  /\ acct' = IF Day + 1 = Len(months) THEN FinalizeAll(b, Day + 1) ELSE b

LEMMA LevelsAreNumbers ==
    ASSUME NEW s \in Symbols
    PROVE  /\ PriceLevels[s] \subseteq Nat \ {0} /\ PriceLevels[s] # {} /\ Min(PriceLevels[s]) \in PriceLevels[s]
           /\ \A p \in PriceLevels[s] : p * (BpsBase + SlipBps) <= (Dust + 1) * BpsBase
<1>1. /\ PriceLevels[s] \subseteq Nat \ {0} /\ PriceLevels[s] # {}
      /\ \A p \in PriceLevels[s] : p * (BpsBase + SlipBps) <= (Dust + 1) * BpsBase
  BY EngineAssumption
<1>2. PICK T : T = PriceLevels[s]
  OBVIOUS
<1>3. PICK n \in T : \A m \in T : n <= m
  BY <1>1, <1>2, LeastNat
<1>4. Min(T) \in T
  BY <1>3 DEF Min
<1> QED BY <1>1, <1>2, <1>4

LEMMA ClosesArePrices == ASSUME NEW px \in Closes PROVE px \in Prices /\ \A s \in Symbols : px[s] \in PriceLevels[s]
<1>1. px = [s \in Symbols |-> px[s]]
  BY DEF Closes
<1>2. ASSUME NEW s \in Symbols PROVE px[s] \in PriceLevels[s]
  <2>1. px[s] \in PriceLevels[s] \/ px[s] = Min(PriceLevels[s])
    BY DEF Closes
  <2> QED BY <2>1, LevelsAreNumbers
<1>3. ASSUME NEW s \in Symbols
      PROVE  px[s] \in Nat \ {0} /\ px[s] * (BpsBase + SlipBps) <= (Dust + 1) * BpsBase
  BY <1>2, LevelsAreNumbers
<1>4. px \in [Symbols -> Nat \ {0}]
  BY <1>1, <1>3
<1> QED BY <1>2, <1>3, <1>4 DEF Prices

LEMMA EngineStarts == EngineInit => EngineInv
<1> SUFFICES ASSUME EngineInit PROVE EngineInv
  OBVIOUS
<1>1. PICK backtest \in Backtests : cfg = backtest[1] /\ months = backtest[2]
  BY DEF EngineInit
<1>2. cfg.kind \in Kinds /\ Len(months) \in Nat \ {0, 1}
  BY <1>1, EngineAssumption
<1>3. hist = <<>> /\ acct = InitialAccount
  BY DEF EngineInit
<1>4. Day = 0
  BY <1>3 DEF Day
<1>5. Calendar
  BY <1>2, <1>3, <1>4 DEF Calendar
<1>6. acct \in Accounts
  <2>1. NoSymbol \in [Symbols -> Nat]
    BY DEF NoSymbol
  <2>2. [s \in Symbols |-> NoLeg] \in [Symbols -> Legs]
    BY DEF Legs
  <2>3. <<>> \in Seq(TradeRows)
    OBVIOUS
  <2>4. InitialCash \in Nat
    BY EngineNumbers
  <2> QED BY <1>3, <2>1, <2>2, <2>3, <2>4, NothingOrdered DEF InitialAccount, Accounts
<1>7. Held(acct) = {} /\ OpenLegs(acct) = {}
  BY <1>3 DEF InitialAccount, Held, OpenLegs, NoSymbol, NoLeg
<1>8. AtRest(acct, Day)
  <2>1. /\ acct.hwm = acct.pv /\ acct.pv \in Nat /\ acct.halted = FALSE
        /\ acct.pending = NoRebalance /\ acct.risk = NoRisk
    BY <1>3, EngineNumbers DEF InitialAccount
  <2> QED BY <1>6, <2>1, NothingOrdered DEF AtRest
<1>9. JournalMirrorsPositions
  BY <1>7 DEF JournalMirrorsPositions
<1> QED BY <1>5, <1>8, <1>9 DEF EngineInv

LEMMA EngineStep == EngineInv /\ EngineNext => DayPasses
<1> SUFFICES ASSUME EngineInv, EngineNext PROVE DayPasses
  OBVIOUS
<1>1. PICK px \in Closes : RunDay(px)
  BY DEF EngineNext
<1>2. px \in Prices
  BY ClosesArePrices
<1>3. Day < Len(months) /\ hist' = Append(hist, px) /\ UNCHANGED <<cfg, months>>
  BY <1>1 DEF RunDay
<1>4. hist \in Seq(Prices) /\ Len(months) \in Nat /\ cfg.kind \in Kinds
  BY DEF EngineInv, Calendar
<1>5. Day \in Nat
  BY <1>4 DEF Day
<1>6. Last(hist') = px
  BY <1>2, <1>3, <1>4 DEF Last
<1>7. PICK d : d = Day + 1 /\ d \in Nat \ {0}
  BY <1>5
<1>8. PICK reset : reset = IsRiskResetDay(months, d, cfg.freq) /\ reset \in BOOLEAN
  BY DEF IsRiskResetDay
<1>9. PICK b : b = AfterDay(acct, hist', px, d, reset, cfg)
  OBVIOUS
<1>10. acct' = IF d = Len(months) THEN FinalizeAll(b, d) ELSE b
  BY <1>1, <1>7, <1>8, <1>9 DEF RunDay, AfterDay
<1>11. AtRest(acct, Day) /\ OpenLegs(acct) = Held(acct)
  BY <1>3, <1>4, <1>5 DEF EngineInv, JournalMirrorsPositions
<1>12. DayDone(acct, b, px, d, reset)
  <2>1. PICK history : history = hist' /\ Last(history) = px
    BY <1>6
  <2>2. PICK c : c = cfg /\ c.kind \in Kinds
    BY <1>4
  <2>3. PICK a : a = acct /\ AtRest(a, Day) /\ OpenLegs(a) = Held(a)
    BY <1>11
  <2>4. DayDone(a, AfterDay(a, history, px, d, reset, c), px, d, reset)
    BY <1>2, <1>5, <1>7, <1>8, <2>1, <2>2, <2>3, DayKeeps
  <2> QED BY <1>9, <2>1, <2>2, <2>3, <2>4
<1> QED BY <1>3, <1>7, <1>8, <1>10, <1>12 DEF DayPasses

\* The closing of the journal on the last day leaves money and orders as they are.
LEMMA LastDayKeeps ==
    ASSUME NEW b, NEW d \in Nat, AtRest(b, d)
    PROVE  LET x == FinalizeAll(b, d)
           IN  /\ AtRest(x, d) /\ OpenLegs(x) = {} /\ x.pv = b.pv /\ Held(x) = Held(b)
               /\ x.halted = b.halted /\ x.risk = b.risk
<1>1. PICK x : x = FinalizeAll(b, d)
  OBVIOUS
<1>2. x \in Accounts /\ SameMoney(b, x) /\ SameControl(b, x) /\ OpenLegs(x) = {}
  BY <1>1, FinalizeKeeps DEF AtRest
<1>3. Held(x) = Held(b)
  BY <1>2 DEF Held, SameMoney
<1>4. AtRest(x, d)
  BY <1>2, <1>3 DEF AtRest, SameMoney, SameControl
<1> QED BY <1>1, <1>2, <1>3, <1>4 DEF SameMoney, SameControl

\* What a day leaves, the last one included.
Passed(a, x, px, d, reset) ==
    /\ AtRest(x, d) /\ x.pv <= ValueOf(a, px)
    /\ OpenLegs(x) = IF d = Len(months) THEN {} ELSE Held(x)
    /\ IF a.halted THEN Held(x) = {} /\ x.risk.kind # "halt_portfolio" /\ (x.halted <=> ~reset)
       ELSE IF a.risk.kind = "halt_portfolio" THEN x.halted /\ Held(x) = {}
       ELSE ~x.halted

LEMMA DayIsPassed ==
    ASSUME EngineInv, EngineNext
    PROVE  \E px \in Closes :
               /\ hist' = Append(hist, px) /\ Day' = Day + 1 /\ Day < Len(months) /\ UNCHANGED <<cfg, months>>
               /\ Passed(acct, acct', px, Day', IsRiskResetDay(months, Day', cfg.freq))
<1>1. PICK px \in Closes :
        /\ hist' = Append(hist, px) /\ Day < Len(months) /\ UNCHANGED <<cfg, months>>
        /\ \E b : /\ DayDone(acct, b, px, Day + 1, IsRiskResetDay(months, Day + 1, cfg.freq))
                  /\ acct' = IF Day + 1 = Len(months) THEN FinalizeAll(b, Day + 1) ELSE b
  BY EngineStep DEF DayPasses
<1>2. hist \in Seq(Prices) /\ px \in Prices
  BY ClosesArePrices DEF EngineInv, Calendar
<1>3. Day \in Nat /\ Day' = Day + 1
  BY <1>1, <1>2 DEF Day
<1>4. PICK d : d = Day + 1 /\ d \in Nat
  BY <1>3
<1>5. PICK reset : reset = IsRiskResetDay(months, d, cfg.freq)
  OBVIOUS
<1>6. PICK b : /\ DayDone(acct, b, px, d, reset)
               /\ acct' = IF d = Len(months) THEN FinalizeAll(b, d) ELSE b
  BY <1>1, <1>4, <1>5
<1>7. PICK x : x = acct'
  OBVIOUS
<1>8. Passed(acct, x, px, d, reset)
  <2>1. CASE d = Len(months)
    <3>1. x = FinalizeAll(b, d)
      BY <1>6, <1>7, <2>1
    <3>2. /\ AtRest(x, d) /\ OpenLegs(x) = {} /\ x.pv = b.pv /\ Held(x) = Held(b)
          /\ x.halted = b.halted /\ x.risk = b.risk
      BY <1>4, <1>6, <3>1, LastDayKeeps DEF DayDone
    <3> QED BY <1>6, <2>1, <3>2 DEF DayDone, Passed
  <2>2. CASE d # Len(months)
    <3>1. x = b
      BY <1>6, <1>7, <2>2
    <3> QED BY <1>6, <2>2, <3>1 DEF DayDone, Passed
  <2> QED BY <2>1, <2>2
<1> QED BY <1>1, <1>3, <1>4, <1>5, <1>7, <1>8

LEMMA EngineGoesOn == EngineInv /\ [EngineNext]_engineVars => EngineInv'
<1> SUFFICES ASSUME EngineInv, [EngineNext]_engineVars PROVE EngineInv'
  OBVIOUS
<1>1. CASE EngineNext
  <2>1. PICK px \in Closes :
          /\ hist' = Append(hist, px) /\ Day' = Day + 1 /\ Day < Len(months) /\ UNCHANGED <<cfg, months>>
          /\ Passed(acct, acct', px, Day', IsRiskResetDay(months, Day', cfg.freq))
    BY <1>1, DayIsPassed
  <2>2. px \in Prices /\ \A s \in Symbols : px[s] \in PriceLevels[s]
    BY ClosesArePrices
  <2>3. hist \in Seq(Prices) /\ Len(months) \in Nat /\ Day = Len(hist)
        /\ \A d \in 1..Day, s \in Symbols : hist[d][s] \in PriceLevels[s]
    BY DEF EngineInv, Calendar, Day
  <2>4. hist' \in Seq(Prices) /\ \A d \in 1..Day', s \in Symbols : hist'[d][s] \in PriceLevels[s]
    <3>1. hist' \in Seq(Prices)
      BY <2>1, <2>2, <2>3, AppendProperties
    <3>2. ASSUME NEW d \in 1..Day', NEW s \in Symbols PROVE hist'[d][s] \in PriceLevels[s]
      <4>1. d \in 1..(Len(hist) + 1)
        BY <2>1, <2>3
      <4>2. hist'[d] = IF d = Len(hist) + 1 THEN px ELSE hist[d]
        BY <2>1, <2>2, <2>3, <4>1, AppendProperties
      <4> QED BY <2>2, <2>3, <4>1, <4>2
    <3> QED BY <3>1, <3>2
  <2>5. Day' <= Len(months')
    BY <2>1, <2>3
  <2>6. Calendar'
    BY <2>1, <2>4, <2>5 DEF EngineInv, Calendar
  <2>7. AtRest(acct', Day') /\ OpenLegs(acct') = IF Day' = Len(months) THEN {} ELSE Held(acct')
    BY <2>1 DEF Passed
  <2>8. JournalMirrorsPositions'
    BY <2>1, <2>7 DEF JournalMirrorsPositions
  <2>9. AtRest(acct, Day)'
    BY <2>7
  <2> QED BY <2>6, <2>8, <2>9 DEF EngineInv
<1>2. CASE UNCHANGED engineVars
  BY <1>2 DEF EngineInv, Calendar, JournalMirrorsPositions, Day, engineVars, AtRest, Accounts, OpenLegs, Held
<1> QED BY <1>1, <1>2

(* The daily engine: theorems *)

LEMMA EngineAlways == EngineSpec => []EngineInv
BY EngineStarts, EngineGoesOn, PTL DEF EngineSpec

\* The account has its type on every day: cash, positions and marks are
\* numbers, the peak is at least the value, and what waits is a weighting of
\* the portfolio computed on a day that was seen (runEventDrivenBacktest).
THEOREM EngineTypeCorrect == EngineSpec => []EngineTypeOK
<1>1. EngineInv => EngineTypeOK
  <2> SUFFICES ASSUME EngineInv PROVE EngineTypeOK
    OBVIOUS
  <2>1. acct \in Accounts /\ acct.hwm >= acct.pv /\ (acct.pending = NoRebalance \/ acct.pending.day = Day)
    BY DEF EngineInv, AtRest
  <2>2. /\ acct.qty \in [Symbols -> Nat] /\ acct.entry \in [Symbols -> Nat]
        /\ acct.pv \in Nat /\ acct.halted \in BOOLEAN /\ acct.pending \in Signals
    BY <2>1, AccountFields
  <2>3. acct.pending.target \in Percent
    BY <2>2 DEF Signals
  <2>4. acct.pending.day \in 0..Day
    <3>1. Day \in Nat
      BY DEF EngineInv, Calendar, Day
    <3>2. acct.pending.day = 0 \/ acct.pending.day = Day
      BY <2>1 DEF NoRebalance
    <3> QED BY <3>1, <3>2
  <2>5. Day <= Len(months) /\ \A d \in 1..Day, s \in Symbols : hist[d][s] \in PriceLevels[s]
    BY DEF EngineInv, Calendar
  <2> QED BY <2>1, <2>2, <2>3, <2>4, <2>5 DEF EngineTypeOK
<1> QED BY <1>1, EngineAlways, PTL

\* Whatever the path of prices and signals, the sizing of rebalanceToTargetWeights
\* and maxAffordableGross never spends cash that is not there.
THEOREM CashStaysSolvent == EngineSpec => []CashSolvent
<1>1. EngineInv => CashSolvent
  <2> SUFFICES ASSUME EngineInv PROVE CashSolvent
    OBVIOUS
  <2>1. acct.cash \in Nat
    BY AccountFields DEF EngineInv, AtRest
  <2> QED BY <2>1 DEF CashSolvent
<1> QED BY <1>1, EngineAlways, PTL

\* What waits at the end of a day was computed on that day, through stops,
\* liquidations, suspensions and releases (pendingRebalance).
THEOREM SignalsAreTodays == EngineSpec => []SignalIsTodays
<1>1. EngineInv => SignalIsTodays
  BY DEF EngineInv, AtRest, SignalIsTodays
<1> QED BY <1>1, EngineAlways, PTL

\* The trade journal has one open leg for each symbol held, and none after the
\* last day (recordEntry, recordExit, finalize).
THEOREM JournalMirrors == EngineSpec => []JournalMirrorsPositions
<1>1. EngineInv => JournalMirrorsPositions
  BY DEF EngineInv
<1> QED BY <1>1, EngineAlways, PTL

\* No day of trading leaves more than holding yesterday's positions would have.
THEOREM TradingIsNoGain == EngineSpec => TradingOnlyCosts
<1>1. EngineInv /\ [EngineNext]_engineVars
        => [hist' # hist => acct'.pv <= ValueOf(acct, Last(hist'))]_engineVars
  <2> SUFFICES ASSUME EngineInv, EngineNext PROVE acct'.pv <= ValueOf(acct, Last(hist'))
    BY DEF engineVars
  <2>1. PICK px \in Closes : hist' = Append(hist, px) /\ acct'.pv <= ValueOf(acct, px)
    BY DayIsPassed DEF Passed
  <2>2. Last(hist') = px
    <3>1. px \in Prices /\ hist \in Seq(Prices)
      BY ClosesArePrices DEF EngineInv, Calendar
    <3> QED BY <2>1, <3>1 DEF Last
  <2> QED BY <2>1, <2>2
<1> QED BY <1>1, EngineAlways, PTL DEF EngineSpec, TradingOnlyCosts

(* The daily engine implements the circuit breaker *)

LEMMA BreakerStarts == EngineInit => Breaker!BreakerInit
<1> SUFFICES ASSUME EngineInit PROVE Breaker!BreakerInit
  OBVIOUS
<1>1. acct = InitialAccount /\ Day = 0
  BY DEF EngineInit, Day
<1>2. acct.halted = FALSE /\ acct.risk.kind = "none" /\ Held(acct) = {}
  BY <1>1 DEF InitialAccount, NoRisk, Held, NoSymbol
<1> QED BY <1>1, <1>2 DEF Breaker!BreakerInit

LEMMA BreakerSteps == EngineInv /\ EngineNext => Breaker!BreakerNext
<1> SUFFICES ASSUME EngineInv, EngineNext PROVE Breaker!BreakerNext
  OBVIOUS
<1>1. PICK px \in Closes :
        /\ Day' = Day + 1 /\ UNCHANGED <<cfg, months>>
        /\ Passed(acct, acct', px, Day', IsRiskResetDay(months, Day', cfg.freq))
  BY DayIsPassed
<1>2. PICK a, x, n : a = acct /\ x = acct' /\ n = Day'
  OBVIOUS
<1>3. PICK reset \in BOOLEAN : reset = IsRiskResetDay(months, n, cfg.freq)
  BY DEF IsRiskResetDay
<1>4. Passed(a, x, px, n, reset) /\ AtRest(a, Day)
  BY <1>1, <1>2, <1>3 DEF EngineInv
<1>5. (Day' > 0 /\ IsRiskResetDay(months', Day', cfg'.freq)) <=> reset
  <2>1. Day \in Nat
    BY DEF EngineInv, Calendar, Day
  <2>2. Day' > 0
    BY <1>1, <2>1
  <2> QED BY <1>1, <1>2, <1>3, <2>2
<1>6. AtRest(x, n)
  BY <1>4 DEF Passed
<1>7. CASE a.halted
  <2>1. Held(x) = {} /\ x.risk.kind # "halt_portfolio" /\ (x.halted <=> ~reset)
    BY <1>4, <1>7 DEF Passed
  <2> QED BY <1>2, <1>5, <1>7, <2>1 DEF Breaker!BreakerNext, Breaker!Wait, Breaker!Release
<1>8. CASE ~a.halted /\ a.risk.kind = "halt_portfolio"
  <2>1. x.halted /\ Held(x) = {}
    BY <1>4, <1>8 DEF Passed
  <2> QED BY <1>2, <1>5, <1>8, <2>1 DEF Breaker!BreakerNext, Breaker!Liquidate
<1>9. CASE ~a.halted /\ a.risk.kind # "halt_portfolio"
  <2>1. ~x.halted
    BY <1>4, <1>9 DEF Passed
  <2>2. CASE x.risk.kind = "halt_portfolio"
    <3>1. Held(x) # {}
      BY <1>6, <2>2 DEF AtRest
    <3> QED BY <1>2, <1>5, <1>9, <2>1, <2>2, <3>1 DEF Breaker!BreakerNext, Breaker!Breach
  <2>3. CASE x.risk.kind # "halt_portfolio"
    BY <1>2, <1>5, <1>9, <2>1, <2>3 DEF Breaker!BreakerNext, Breaker!Trade
  <2> QED BY <2>2, <2>3
<1> QED BY <1>7, <1>8, <1>9

\* Step by step, the loop is the circuit breaker: a breach is followed by the
\* liquidation of the next day, and nothing is held until a cycle begins
\* (releaseHalt, fillRiskOrders, forcedLiquidation, evaluateRiskAndQueueOrders).
THEOREM EngineIsBreaker == EngineSpec => ImplementsBreaker
<1>1. EngineInit => Breaker!BreakerInit
  BY BreakerStarts
<1>2. EngineInv /\ [EngineNext]_engineVars => [Breaker!BreakerNext]_(Breaker!breakerVars)
  <2>1. CASE EngineNext
    BY <2>1, BreakerSteps
  <2>2. CASE UNCHANGED engineVars
    BY <2>2 DEF engineVars, Day, Held, Breaker!breakerVars
  <2> QED BY <2>1, <2>2
<1> QED BY <1>1, <1>2, EngineAlways, PTL DEF EngineSpec, ImplementsBreaker, Breaker!BreakerSpec
================================================================================
