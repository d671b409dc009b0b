------------------------------- MODULE TickReplay -------------------------------
(***************************************************************************)
(* The replay of an HFT backtest: runMultiSessionHftReplay takes a list of *)
(* session windows and sends each through one TickReplayEngine, to an HFT  *)
(* engine made for that session.  The engine's prices do not matter here:  *)
(* what is followed is which events reach it and what the statistics say.  *)
(***************************************************************************)
EXTENDS Integers, Sequences, FiniteSets

CONSTANTS
    MaxSessions,  \* bound on the windows planned
    Span,         \* instants of a window; an event of a kind is its instant
    MinSpan,      \* 88% of the window
    PageLimit,    \* 10000 events in the code
    MaxPages      \* 40 in the code

ASSUME ReplayAssumption ==
    /\ MaxSessions \in Nat /\ Span \in Nat \ {0} /\ MinSpan \in 0..Span
    /\ PageLimit \in Nat \ {0} /\ MaxPages \in Nat \ {0}

VARIABLES
    windows,    \* the trades and quotes Alpaca has for each window
    i,          \* the window the loop is at
    pc,         \* what the loop does next
    aborted,    \* TickReplayEngine.aborted
    page,       \* pages fetched of the current kind
    got,        \* trades and quotes fetched for this window
    pos,        \* events of this window the replay has gone through
    delivered,  \* events the HFT engine of this window was given
    results,    \* the sessions run: their window, what was fetched and delivered
    skipped     \* sessionsSkipped

replayVars == <<windows, i, pc, aborted, page, got, pos, delivered, results, skipped>>

Kinds == {"trades", "quotes"}
Nothing == [k \in Kinds |-> {}]
Count(events) == Cardinality(events["trades"]) + Cardinality(events["quotes"])
Instants(events) == events["trades"] \cup events["quotes"]

ReplayInit ==
    /\ \E n \in 0..MaxSessions : windows \in [1..n -> [Kinds -> SUBSET (1..Span)]]
    /\ i = 1
    /\ pc = "trades"
    /\ aborted = FALSE
    /\ page = 0 /\ got = Nothing
    /\ pos = 0 /\ delivered = 0
    /\ results = <<>>
    /\ skipped = 0

NextWindow == i' = i + 1 /\ pc' = "trades" /\ page' = 0 /\ got' = Nothing

\* The next page holds the earliest events not fetched yet.
NextPage(kind) ==
    LET rest == windows[i][kind] \ got[kind]
    IN  {e \in rest : Cardinality({f \in rest : f < e}) < PageLimit}

AfterKind(kind) == pc' = (IF kind = "trades" THEN "quotes" ELSE "check") /\ page' = 0

\* Mutant of FetchPage: a page that fails is passed over.
FetchPageAnyway(kind) ==
    /\ pc = kind /\ i <= Len(windows)
    /\ \E ok \in BOOLEAN :
          /\ got' = [got EXCEPT ![kind] = @ \cup IF ok THEN NextPage(kind)
                                                ELSE windows[i][kind] \ (@ \cup NextPage(kind))]
          /\ IF got'[kind] = windows[i][kind] \/ page + 1 = MaxPages THEN AfterKind(kind)
             ELSE pc' = pc /\ page' = page + 1
    /\ UNCHANGED <<windows, i, aborted, pos, delivered, results, skipped>>

\* One page of one kind.  The paging ends without a next page, at its limit, and
\* also when a page fails: what was fetched so far is kept.
FetchPage(kind) ==
    /\ pc = kind /\ i <= Len(windows)
    /\ \E ok \in BOOLEAN :
          /\ got' = [got EXCEPT ![kind] = @ \cup IF ok THEN NextPage(kind) ELSE {}]
          /\ IF ~ok \/ got'[kind] = windows[i][kind] \/ page + 1 = MaxPages THEN AfterKind(kind)
             ELSE pc' = pc /\ page' = page + 1
    /\ UNCHANGED <<windows, i, aborted, pos, delivered, results, skipped>>

\* TICKER_EMPTY_SERIES and TICKER_INSUFFICIENT_BARS are about both kinds at once.
TooShort(events) == ~\E first, last \in Instants(events) : last - first >= MinSpan

\* loadEvents returns; the replay starts on a new HFT engine, and does not reset
\* aborted.
LoadEvents ==
    /\ pc = "check"
    /\ ~TooShort(got)
    /\ pc' = "replay"
    /\ pos' = 0 /\ delivered' = 0
    /\ UNCHANGED <<windows, i, aborted, page, got, results, skipped>>

\* Too little was fetched: the loop goes on.
SkipWindow ==
    /\ pc = "check"
    /\ TooShort(got)
    /\ skipped' = skipped + 1
    /\ NextWindow
    /\ UNCHANGED <<windows, aborted, pos, delivered, results>>

\* Any other error of the provider ends the whole replay.
LoadFails ==
    /\ pc \in Kinds
    /\ i <= Len(windows)
    /\ pc' = "failed"
    /\ UNCHANGED <<windows, i, aborted, page, got, pos, delivered, results, skipped>>

Deliver ==
    /\ pc = "replay"
    /\ ~aborted
    /\ pos < Count(got)
    /\ pos' = pos + 1
    /\ delivered' = delivered + 1
    /\ UNCHANGED <<windows, i, pc, aborted, page, got, results, skipped>>

\* The loop over the events ends or breaks, replayToEngine disconnects, and the
\* session is finalised and counted with all the events of its window.
EndReplay ==
    /\ pc = "replay"
    /\ aborted \/ pos = Count(got)
    /\ aborted' = TRUE
    /\ results' = Append(results, [window |-> windows[i], got |-> got, delivered |-> delivered])
    /\ NextWindow
    /\ UNCHANGED <<windows, pos, delivered, skipped>>

\* The merged result, or TICKER_EMPTY_SERIES when no session was run.
Return ==
    /\ pc = "trades"
    /\ i > Len(windows)
    /\ pc' = IF results = <<>> THEN "failed" ELSE "returned"
    /\ UNCHANGED <<windows, i, aborted, page, got, pos, delivered, results, skipped>>

ReplayNext ==
    \/ \E kind \in Kinds : FetchPage(kind)
    \/ LoadEvents \/ SkipWindow \/ LoadFails \/ Deliver \/ EndReplay \/ Return

ReplaySpec == ReplayInit /\ [][ReplayNext]_replayVars

--------------------------------------------------------------------------------
(* Properties *)

\* Counters and flags have the types of the two modules.
ReplayTypeOK ==
    /\ i \in 1..(Len(windows) + 1)
    /\ pc \in Kinds \cup {"check", "replay", "returned", "failed"}
    /\ aborted \in BOOLEAN /\ page \in 0..MaxPages
    /\ pos \in 0..(2 * Span) /\ delivered \in 0..(2 * Span)
    /\ skipped \in 0..MaxSessions

\* Pages may fail, run out or hit their limit, and still what is replayed has no
\* hole: of each kind it is everything up to its last event.
ReplaysUnbroken ==
    \A s \in 1..Len(results), kind \in Kinds :
        LET fetched == results[s].got[kind] IN
        \A e \in fetched, f \in results[s].window[kind] : f < e => f \in fetched

\* "Esegue N sessioni replay tick/L2 su orizzonte storico": the engine of every
\* session counted is given every event fetched for it.
SessionsReplayed ==
    \A s \in 1..Len(results) : results[s].delivered = Count(results[s].got)
================================================================================
