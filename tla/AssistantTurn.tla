---------------------------- MODULE AssistantTurn ----------------------------
(* The strategy assistant of the LPFT API: a conversation of turns, each one a *)
(* POST /assistant/stream.  The server plans the turn, holds back generation   *)
(* until the user has settled every requirement, streams a specification from  *)
(* the model, compiles and checks a program, checks its data and creates a     *)
(* run; the client takes the events off the wire and may hang up at any time.  *)
EXTENDS Integers, Sequences, FiniteSets

CONSTANTS
    Openings,    \* sets of facts a first message may state
    Specs,       \* specifications the model may answer with: [kind, code, bar,
                 \* period, market, intrabar, provider, asset]
    Answers,     \* streamed answers: sequences of deltas, each the set of parts it ends
    MaxTurns     \* turns of a conversation

\* What the regular expressions look for in everything the user has written.
Requirements == <<"instrument", "universe", "edge", "timeframe", "risk">>
Facts == {"instrument", "universe", "edge", "timeframe", "risk", "backtest", "window", "approval"}

\* The fields of StrategySpec that decide the turn.  "builtin" is any kind with a
\* template, "news" any market but price bars, "auto" any provider but stooq and
\* "equity" any asset but crypto; a period left open is "none".
SpecShape == [kind : {"none", "builtin", "python"}, code : {"none", "good", "unsafe", "failing"},
              bar : {"1m", "1h", "1d"}, period : {"none", "1m", "3m", "6m", "1y", "2y", "5y"},
              market : {"ohlcv", "news"}, intrabar : BOOLEAN,
              provider : {"auto", "stooq"}, asset : {"equity", "crypto"}]

ASSUME AssistantAssumption ==
    /\ MaxTurns \in Nat \ {0} /\ Specs \subseteq SpecShape
    /\ Openings \subseteq SUBSET Facts /\ Answers \subseteq Seq(SUBSET {"sep", "open", "shut"})

VARIABLES
    said,     \* facts found in the user's messages; the text only grows
    turns,    \* turns so far
    asked,    \* the question the last stream put, "none" if it put none
    taken,    \* questions answered with the option recommended for them
    blank,    \* some turn carried no user text
    srv,      \* the generator: [at, text, answer, from, spec, code]
    wire,     \* events sent and not yet read
    shown,    \* what the client holds: events it has had of any turn
    created   \* runs created: what was known of each

assistantVars == <<said, turns, asked, taken, blank, srv, wire, shown, created>>

(* Requirements *)

Missing(f) == {i \in 1..Len(Requirements) : Requirements[i] \notin f}
\* Mutant: a history already given is asked for all the same.
NextQuestionWindowAgain(f) ==
    IF Missing(f) # {} THEN Requirements[CHOOSE i \in Missing(f) : \A j \in Missing(f) : i <= j]
    ELSE IF "backtest" \in f /\ "approval" \notin f THEN "window"
    ELSE IF "approval" \notin f THEN "approval" ELSE "none"

NextQuestion(f) ==
    IF Missing(f) # {} THEN Requirements[CHOOSE i \in Missing(f) : \A j \in Missing(f) : i <= j]
    ELSE IF "backtest" \in f /\ "window" \notin f THEN "window"
    ELSE IF "approval" \notin f THEN "approval" ELSE "none"

\* The options offered with each question, first the recommended one, each as the
\* facts its text matches when it comes back as a message.  A text with a short
\* word matches "universe", "No backtest for now" matches "backtest" and approves.
Options ==
    [instrument |-> <<{"instrument", "universe"}, {}>>,
     universe   |-> <<{"instrument", "universe"}, {"universe"}>>,
     edge       |-> <<{"universe", "edge", "timeframe"}, {"edge"}, {"universe", "risk"}>>,
     timeframe  |-> <<{"universe", "timeframe"}, {"universe"}>>,
     risk       |-> <<{"universe", "risk"}, {"risk"}, {"universe"}>>,
     window     |-> <<{"instrument", "universe", "window"}, {"window"}, {"universe"}>>,
     approval   |-> <<{"universe", "approval"}, {}, {"universe", "risk"}, {"universe", "backtest", "approval"}>>]

(* Specifications and programs *)

\* A history left open is filled in by the bar; then intraday bars cap it.
Normalized(s) ==
    IF s.period # "none" THEN s
    ELSE [s EXCEPT !.period = CASE s.bar = "1m" -> "3m" [] s.bar = "1h" -> "1y" [] s.bar = "1d" -> "5y"]
Rank == [p \in {"1m", "3m", "6m", "1y", "2y", "5y"} |->
    CASE p = "1m" -> 0 [] p = "3m" -> 1 [] p = "6m" -> 2 [] p = "1y" -> 3 [] p = "2y" -> 4 [] p = "5y" -> 5]
MaxPeriod(bar) == CASE bar = "1m" -> "1y" [] bar = "1h" -> "2y" [] bar = "1d" -> "5y"
PeriodOf(s) == IF Rank[s.period] > Rank[MaxPeriod(s.bar)] THEN MaxPeriod(s.bar) ELSE s.period

\* The form for parameters replaces any kind by Python with no code yet.
Coerced(s) == [s EXCEPT !.kind = "python", !.code = "none"]

Supported(s) ==
    s.market = "ohlcv" /\ ~s.intrabar /\ ~(s.provider = "stooq" /\ s.asset = "crypto")

\* Code is good, breaks a static rule, or passes those and fails on sample bars.
Drafts == {"good", "unsafe", "failing"}
Static(c) == c # "unsafe"
\* The dry run applies the static rules again before it executes.
DryRun(c) == c = "good"

\* generate_program: built-in kinds have templates; Python has the code of the
\* specification or the model's, repaired once if it breaks a static rule.
Generated(s) ==
    IF s.kind # "python" THEN {"good"}
    ELSE {c \in (IF s.code = "none" \/ ~Static(s.code) THEN Drafts ELSE {s.code}) : Static(c)}
\* A program that fails its dry run is repaired once more, for Python only.
\* Mutant: the repaired program is taken without a second dry run.
CheckedUnproved(s) == UNION {IF DryRun(c) THEN {c} ELSE IF s.kind = "python" THEN Drafts ELSE {} : c \in Generated(s)}

Checked(s) ==
    UNION {IF DryRun(c) THEN {c}
           ELSE IF s.kind = "python" THEN {r \in Drafts : DryRun(r)} ELSE {} : c \in Generated(s)}

(* The turn *)

NoSpec == [kind |-> "none", code |-> "none", bar |-> "1d", period |-> "none", market |-> "ohlcv",
           intrabar |-> FALSE, provider |-> "auto", asset |-> "equity"]
Resting == [at |-> "closed", answer |-> <<>>, from |-> "none", spec |-> NoSpec, code |-> "none", text |-> "typed"]

AssistantInit ==
    /\ said = {} /\ turns = 0 /\ asked = "none" /\ taken = {} /\ blank = FALSE
    /\ srv = Resting /\ wire = <<>> /\ shown = {} /\ created = {}

\* A request carries all messages and whatever strategy the client holds.
Post(text) ==
    /\ srv.at = "closed" /\ wire = <<>> /\ turns < MaxTurns
    /\ turns' = turns + 1 /\ asked' = "none"
    /\ srv' = [Resting EXCEPT !.at = "planning", !.text = text]
    /\ UNCHANGED <<wire, shown, created>>

Say(f) == Post("typed") /\ asked = "none" /\ said' = said \cup f /\ UNCHANGED <<taken, blank>>
PickOption(i) ==
    /\ asked # "none" /\ Post("typed")
    /\ i \in 1..Len(Options[asked])
    /\ said' = said \cup Options[asked][i]
    /\ taken' = IF i = 1 THEN taken \cup {asked} ELSE taken
    /\ UNCHANGED blank
\* The form's text states every requirement and ends with an approval.
SubmitForm == Post("form") /\ said' = Facts /\ UNCHANGED <<taken, blank>>
PostNothing == Post("none") /\ blank' = TRUE /\ UNCHANGED <<said, taken>>

Send(evs) == wire' = wire \o evs
Goto(at) == srv' = [srv EXCEPT !.at = at]
Close(evs) == Send(evs) /\ srv' = Resting

\* Planning raises, or the planner answers, or it asks a question of its own.
PlanAnswer ==
    /\ srv.at = "planning"
    /\ Close(<<"assistant", "done">>) \/ Close(<<"assistant", "clarification", "done">>)
    /\ UNCHANGED <<said, turns, asked, taken, blank, shown, created>>
\* Generation is held back while something is open, unless there is a strategy
\* to modify or no text to look at.
HeldBack == {"spec", "code"} \cap shown = {} /\ srv.text # "none" /\ NextQuestion(said) # "none"
Clarify ==
    /\ srv.at = "planning" /\ HeldBack
    /\ asked' = NextQuestion(said)
    /\ Close(<<"assistant", "clarification", "done">>)
    /\ UNCHANGED <<said, turns, taken, blank, shown, created>>
Proceed ==
    /\ srv.at = "planning" /\ ~HeldBack
    /\ \E a \in Answers : srv' = [srv EXCEPT !.at = "streaming", !.answer = a]
    /\ Send(<<"assistant">>)
    /\ UNCHANGED <<said, turns, asked, taken, blank, shown, created>>

\* The loop over deltas stops at the one that completes the separator; what
\* follows it is not read.  Without a separator the whole answer is taken.
Taken(a) ==
    LET seps == {i \in 1..Len(a) : "sep" \in a[i]}
        last == IF seps = {} THEN Len(a) ELSE CHOOSE i \in seps : \A j \in seps : i <= j
    IN  UNION {a[i] : i \in 1..last}
Parses(parts) == {"open", "shut"} \subseteq parts

Specified(s, from) ==
    /\ srv' = [srv EXCEPT !.at = "judging", !.from = from,
                          !.spec = IF srv.text = "form" THEN Coerced(Normalized(s)) ELSE Normalized(s)]
    /\ Send(<<"reasoning", "spec">>)
\* The streamed answer, or a second call that repairs itself once, or an error.
StreamSpec ==
    /\ srv.at = "streaming"
    /\ IF Parses(Taken(srv.answer)) THEN \E s \in Specs : Specified(s, "stream")
       ELSE (\E s \in Specs : Specified(s, "second call")) \/ Close(<<"reasoning", "error">>)
    /\ UNCHANGED <<said, turns, asked, taken, blank, shown, created>>

Judge ==
    /\ srv.at = "judging"
    /\ IF Supported(srv.spec) THEN Goto("compiling") /\ Send(<<"capability">>)
       ELSE Close(<<"capability", "unsupported_strategy", "done">>)
    /\ UNCHANGED <<said, turns, asked, taken, blank, shown, created>>

Compile ==
    /\ srv.at = "compiling"
    /\ \/ \E c \in Checked(srv.spec) :
            srv' = [srv EXCEPT !.at = "loading", !.code = c] /\ UNCHANGED wire
       \/ srv.spec.kind = "python" /\ Close(<<"error">>)
    /\ UNCHANGED <<said, turns, asked, taken, blank, shown, created>>

LoadData ==
    /\ srv.at = "loading"
    /\ \/ Goto("creating") /\ Send(<<"validation", "code">>)
       \/ Close(<<"validation", "unsupported_strategy", "done">>)
       \/ Close(<<"error">>)
    /\ UNCHANGED <<said, turns, asked, taken, blank, shown, created>>

CreateAndQueue ==
    /\ srv.at = "creating"
    /\ created' = created \cup {[code |-> srv.code, spec |-> srv.spec, period |-> PeriodOf(srv.spec)]}
    /\ Close(<<"run_status", "run", "done">>) \/ Close(<<"error">>)
    /\ UNCHANGED <<said, turns, asked, taken, blank, shown>>

(* The client *)

Receive ==
    /\ wire # <<>>
    /\ shown' = IF Head(wire) \in {"spec", "code", "run"} THEN shown \cup {Head(wire)} ELSE shown
    /\ wire' = Tail(wire)
    /\ UNCHANGED <<said, turns, asked, taken, blank, srv, created>>
\* The connection drops: the generator ends at its next yield.
HangUp ==
    /\ srv.at # "closed" \/ wire # <<>>
    /\ srv' = Resting /\ wire' = <<>>
    /\ asked' = IF "clarification" \in {wire[i] : i \in DOMAIN wire} THEN "none" ELSE asked
    /\ UNCHANGED <<said, turns, taken, blank, shown, created>>

Serve == PlanAnswer \/ Clarify \/ Proceed \/ StreamSpec \/ Judge \/ Compile \/ LoadData \/ CreateAndQueue
AssistantNext ==
    \/ \E f \in Openings : Say(f)
    \/ \E i \in 1..4 : PickOption(i)
    \/ SubmitForm \/ PostNothing \/ Serve \/ Receive \/ HangUp

AssistantSpec == AssistantInit /\ [][AssistantNext]_assistantVars

(* Properties *)

\* The shape of the state.
AssistantTypeOK ==
    /\ said \subseteq Facts /\ turns \in 0..MaxTurns /\ blank \in BOOLEAN
    /\ asked \in DOMAIN Options \cup {"none"} /\ taken \subseteq DOMAIN Options
    /\ srv.at \in {"closed", "planning", "streaming", "judging", "compiling", "loading", "creating"}
    /\ srv.code \in Drafts \cup {"none"} /\ srv.from \in {"none", "stream", "second call"}
    /\ shown \subseteq {"spec", "code", "run"} /\ \A r \in created : r.code \in Drafts

\* A run is only ever made of a program that passed its static rules and its dry
\* run, for a specification whose data the engine has, over a history the bar
\* allows, and after the user settled every requirement and approved, unless a
\* turn without text let generation past the questions.
RunsAreVetted ==
    \A r \in created :
        /\ Static(r.code) /\ DryRun(r.code) /\ Supported(r.spec)
        /\ Rank[r.period] <= Rank[MaxPeriod(r.spec.bar)]
        /\ (Missing(said) = {} /\ "approval" \in said) \/ blank

\* A question answered with the option the assistant recommends for it is never
\* put again: whoever follows the recommendations reaches a generation.
RecommendedSettles == asked \notin taken

\* The second call is only for an answer that holds no complete specification.
StreamedSpecIsUsed == srv.from = "second call" => ~Parses(UNION {srv.answer[i] : i \in DOMAIN srv.answer})
=============================================================================
