----------------------------- MODULE ReportLibrary -----------------------------
(***************************************************************************)
(* Reports of backtests and the library of saved strategies: the rows of   *)
(* afx-snapshot-store.ts, the routes over them, and the pages that show    *)
(* them.  The report page and the library load again at every change of    *)
(* the wallet or of the report, and mark the answer of the load before as  *)
(* cancelled; SaveStrategyActions, in a chat message or on a report, asks  *)
(* whether its report is saved and saves it on a click.                    *)
(*                                                                         *)
(* One tab, one SaveStrategyActions at a time.  An effect runs in the step *)
(* that changes its dependencies.                                          *)
(***************************************************************************)
EXTENDS Naturals, FiniteSets

CONSTANTS
    Holders,   \* wallet addresses
    Snapshots,   \* ids of snapshots
    NoSnapshot,  \* no id, and the holder of an id without a row
    MaxCalls   \* bound on the fetches under way

ASSUME LibraryAssumption ==
    /\ NoSnapshot \notin Snapshots \cup Holders
    /\ MaxCalls \in Nat

VARIABLES
    holder,  \* user of each snapshot
    kept,    \* snapshots with savedAt
    wallet,  \* walletAddress of the store
    screen,  \* the page: which, of which report, loading, error, data
    widget,  \* SaveStrategyActions
    calls    \* fetches under way

libraryVars == <<holder, kept, wallet, screen, widget, calls>>
rowVars == <<holder, kept>>

MaybeSnapshot == Snapshots \cup {NoSnapshot}
Pages == {"chat", "report", "library"}
CallKinds == {"page", "check", "save", "create"}
Outcomes == {"none", "ok", "error"}

Screen == [page : Pages, id : MaybeSnapshot, loading : BOOLEAN, failed : BOOLEAN,
           items : SUBSET Snapshots]
Widget == [shown : BOOLEAN, id : MaybeSnapshot, saved : BOOLEAN, saving : BOOLEAN]
Call == [kind : CallKinds, wallet : Holders, id : MaybeSnapshot, live : BOOLEAN,
         answer : Outcomes, items : SUBSET Snapshots, saved : BOOLEAN]

NoWidget == [shown |-> FALSE, id |-> NoSnapshot, saved |-> FALSE, saving |-> FALSE]

LibraryInit ==
    /\ holder = [id \in Snapshots |-> NoSnapshot]
    /\ kept = {}
    /\ wallet \in Holders
    /\ screen = [page |-> "chat", id |-> NoSnapshot, loading |-> FALSE,
                 failed |-> FALSE, items |-> {}]
    /\ widget = NoWidget
    /\ calls = {}

Sent(kind, address, id) ==
    [kind |-> kind, wallet |-> address, id |-> id, live |-> TRUE,
     answer |-> "none", items |-> {}, saved |-> FALSE]

\* The cleanup of an effect: what those fetches bring will be ignored.
Cancelled(cs, kinds) ==
    {[c EXCEPT !.live = c.live /\ c.kind \notin kinds] : c \in cs}

CanCall == Cardinality(calls) < MaxCalls

\* The widget's effect asks whether the report it has is saved.
Check(address, id) == IF id = NoSnapshot THEN {} ELSE {Sent("check", address, id)}

--------------------------------------------------------------------------------
(* The pages *)

\* Another page, or the report page with another id.
Open(page, id) ==
    /\ CanCall
    /\ page = "report" <=> id # NoSnapshot
    /\ screen' = [page |-> page, id |-> id, loading |-> page # "chat",
                  failed |-> FALSE, items |-> {}]
    /\ widget' = NoWidget
    /\ calls' = Cancelled(calls, CallKinds) \cup
          (IF page = "chat" THEN {} ELSE {Sent("page", wallet, id)})
    /\ UNCHANGED <<rowVars, wallet>>

\* Mutant of SwitchOnPage: the effect has no cleanup.
SwitchOnPageUncancelled(address) ==
    /\ CanCall
    /\ screen.page # "chat" /\ address # wallet
    /\ wallet' = address
    /\ screen' = [screen EXCEPT !.loading = TRUE, !.failed = FALSE]
    /\ widget' = NoWidget
    /\ calls' = calls \cup {Sent("page", address, screen.id)}
    /\ UNCHANGED rowVars

\* The wallet is switched on a page that depends on it.  The data stay, hidden
\* while the page loads, and what was shown of them is unmounted.
SwitchOnPage(address) ==
    /\ CanCall
    /\ screen.page # "chat" /\ address # wallet
    /\ wallet' = address
    /\ screen' = [screen EXCEPT !.loading = TRUE, !.failed = FALSE]
    /\ widget' = NoWidget
    /\ calls' = Cancelled(calls, CallKinds) \cup {Sent("page", address, screen.id)}
    /\ UNCHANGED rowVars

\* In the chat only the widget depends on it; a save under way goes on.
SwitchInChat(address) ==
    /\ CanCall
    /\ screen.page = "chat" /\ address # wallet
    /\ wallet' = address
    /\ calls' = Cancelled(calls, {"check"}) \cup
          (IF widget.saved THEN {} ELSE Check(address, widget.id))
    /\ UNCHANGED <<rowVars, screen, widget>>

\* A tool of the chat stores its report, or fails to, and its widget appears.
\* The report is of the wallet the message was sent with.
ToolAnswers(address, stored) ==
    /\ CanCall
    /\ screen.page = "chat" /\ ~widget.shown
    /\ \E id \in MaybeSnapshot :
          /\ IF stored
             THEN /\ id # NoSnapshot /\ holder[id] = NoSnapshot
                  /\ holder' = [holder EXCEPT ![id] = address]
             ELSE id = NoSnapshot /\ UNCHANGED holder
          /\ widget' = [NoWidget EXCEPT !.shown = TRUE, !.id = id]
          /\ calls' = calls \cup Check(wallet, id)
    /\ UNCHANGED <<kept, wallet, screen>>

\* onSave.
OnSave ==
    /\ CanCall
    /\ widget.shown /\ ~widget.saving /\ ~widget.saved
    /\ widget' = [widget EXCEPT !.saving = TRUE]
    /\ calls' = calls \cup
          {Sent(IF widget.id = NoSnapshot THEN "create" ELSE "save", wallet, widget.id)}
    /\ UNCHANGED <<rowVars, wallet, screen>>

--------------------------------------------------------------------------------
(* The routes *)

Reply(c, answer, items, saved) ==
    calls' = (calls \ {c}) \cup
        {[c EXCEPT !.answer = answer, !.items = items, !.saved = saved]}

\* The rows are found by their id and the user of the wallet that asks.
IsFound(c) == holder[c.id] = c.wallet
SavedOf(address) == {id \in kept : holder[id] = address}

\* loadStrategySnapshotForUser: the report, of this user, or 404.
GetReport(c) ==
    /\ c.answer = "none" /\ c.kind \in {"page", "check"} /\ c.id # NoSnapshot
    /\ IF IsFound(c) THEN Reply(c, "ok", {c.id}, c.id \in kept)
       ELSE Reply(c, "error", {}, FALSE)
    /\ UNCHANGED <<rowVars, wallet, screen, widget>>

\* listSavedStrategySnapshots.
GetLibrary(c) ==
    /\ c.answer = "none" /\ c.kind = "page" /\ c.id = NoSnapshot
    /\ Reply(c, "ok", SavedOf(c.wallet), FALSE)
    /\ UNCHANGED <<rowVars, wallet, screen, widget>>

\* markStrategySnapshotSaved: the rows of this id and this user, or 404.
MarkSaved(c) ==
    /\ c.answer = "none" /\ c.kind = "save"
    /\ IF IsFound(c)
       THEN kept' = kept \cup {c.id} /\ Reply(c, "ok", {c.id}, TRUE)
       ELSE Reply(c, "error", {}, FALSE) /\ UNCHANGED kept
    /\ UNCHANGED <<holder, wallet, screen, widget>>

\* POST /api/analysis/snapshots with saved: a row in the library from the start.
CreateReport(c) ==
    /\ c.answer = "none" /\ c.kind = "create"
    /\ \E id \in Snapshots :
          /\ holder[id] = NoSnapshot
          /\ holder' = [holder EXCEPT ![id] = c.wallet]
          /\ kept' = kept \cup {id}
          /\ Reply(c, "ok", {id}, TRUE)
    /\ UNCHANGED <<wallet, screen, widget>>

\* A 503, or an answer that is lost after the route did its work.
CallFails(c) ==
    /\ c.answer # "error"
    /\ Reply(c, "error", {}, FALSE)
    /\ UNCHANGED <<rowVars, wallet, screen, widget>>

--------------------------------------------------------------------------------
(* The answers *)

Ignore(c) ==
    /\ c.answer # "none" /\ ~c.live
    /\ calls' = calls \ {c}
    /\ UNCHANGED <<rowVars, wallet, screen, widget>>

\* The page shows what came; a report comes with its widget.
ReceivePage(c) ==
    /\ c.answer = "ok" /\ c.live /\ c.kind = "page"
    /\ screen' = [screen EXCEPT !.loading = FALSE, !.items = c.items]
    /\ widget' = IF c.id = NoSnapshot THEN NoWidget
                 ELSE [NoWidget EXCEPT !.shown = TRUE, !.id = c.id, !.saved = c.saved]
    /\ calls' = (calls \ {c}) \cup Check(wallet, c.id)
    /\ UNCHANGED <<rowVars, wallet>>

ReceivePageError(c) ==
    /\ c.answer = "error" /\ c.live /\ c.kind = "page"
    /\ screen' = [screen EXCEPT !.loading = FALSE, !.failed = TRUE]
    /\ calls' = calls \ {c}
    /\ UNCHANGED <<rowVars, wallet, widget>>

ReceiveCheck(c) ==
    /\ c.answer # "none" /\ c.live /\ c.kind = "check"
    /\ widget' = [widget EXCEPT !.saved = widget.saved \/ c.saved]
    /\ calls' = calls \ {c}
    /\ UNCHANGED <<rowVars, wallet, screen>>

\* The end of onSave; a created report becomes the widget's.
ReceiveSave(c) ==
    /\ c.answer = "ok" /\ c.live /\ c.kind \in {"save", "create"}
    /\ \E id \in c.items :
          widget' = [widget EXCEPT !.id = id, !.saved = TRUE, !.saving = FALSE]
    /\ calls' = calls \ {c}
    /\ UNCHANGED <<rowVars, wallet, screen>>

ReceiveSaveError(c) ==
    /\ c.answer = "error" /\ c.live /\ c.kind \in {"save", "create"}
    /\ widget' = [widget EXCEPT !.saving = FALSE]
    /\ calls' = calls \ {c}
    /\ UNCHANGED <<rowVars, wallet, screen>>

--------------------------------------------------------------------------------

RouteAnswers(c) ==
    GetReport(c) \/ GetLibrary(c) \/ MarkSaved(c) \/ CreateReport(c) \/ CallFails(c)

ReceiveAnswer(c) ==
    \/ Ignore(c) \/ ReceivePage(c) \/ ReceivePageError(c)
    \/ ReceiveCheck(c) \/ ReceiveSave(c) \/ ReceiveSaveError(c)

LibraryNext ==
    \/ \E page \in Pages, id \in MaybeSnapshot : Open(page, id)
    \/ \E address \in Holders : SwitchOnPage(address) \/ SwitchInChat(address)
    \/ \E address \in Holders, stored \in BOOLEAN : ToolAnswers(address, stored)
    \/ OnSave
    \/ \E c \in calls : RouteAnswers(c) \/ ReceiveAnswer(c)

LibrarySpec == LibraryInit /\ [][LibraryNext]_libraryVars

--------------------------------------------------------------------------------
(* Properties *)

\* Rows, page, widget and fetches have the shapes of the code's data.
LibraryTypeOK ==
    /\ holder \in [Snapshots -> Holders \cup {NoSnapshot}]
    /\ kept \subseteq Snapshots
    /\ wallet \in Holders
    /\ screen \in Screen
    /\ widget \in Widget
    /\ calls \subseteq Call

PageIsShown == screen.page # "chat" /\ ~screen.loading /\ ~screen.failed

\* However late answers come, a report page shows the report of its address
\* and nothing of another wallet's, the library shows saved reports of this
\* wallet only, and a widget that says "Salvata in libreria" has a report that
\* is there.
ShownIsCurrent ==
    /\ PageIsShown =>
          /\ screen.page = "report" => screen.items = {screen.id}
          /\ screen.page = "library" => screen.items \subseteq kept
          /\ \A id \in screen.items : holder[id] = wallet
    /\ widget.saved => widget.id \in kept
================================================================================
