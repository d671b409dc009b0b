------------------------------ MODULE IntentIntake ------------------------------
(***************************************************************************)
(* The road of an executable intent from the LPFT API to execution_logs:   *)
(* intent_publisher.py publishes it on a Redis channel, intent-listener.ts *)
(* receives it and inserts a row.                                          *)
(*                                                                         *)
(* Redis pub/sub keeps nothing: a message reaches the listeners subscribed *)
(* at that moment.  A listener starts a handler per message and does not   *)
(* wait for it, so handlers interleave at every await on the database.     *)
(***************************************************************************)
EXTENDS Naturals, FiniteSets

CONSTANTS
    Keys,          \* idempotency keys
    Wallets,       \* wallet addresses
    KnownWallets,  \* wallets that have a users row from the start
    Listeners,     \* listener processes
    MaxPublished,  \* bound on the messages published
    MaxCrashes     \* bound on listener crashes

Routes == {"none", "listed", "unlisted"}   \* router_address and chain_id

Message == [n : Nat, key : Keys, wallet : Wallets, route : Routes]

ASSUME IntakeAssumption ==
    /\ KnownWallets \subseteq Wallets
    /\ MaxPublished \in Nat /\ MaxCrashes \in Nat

VARIABLES
    published,  \* messages publish() accepted, in any order
    subscribed, \* listeners with a subscription
    handlers,   \* running handlers
    users,      \* wallets with a users row
    rows,       \* rows of execution_logs these messages made
    crashes,    \* crashes so far
    done        \* history: [l, m] of the handlers that ran to their end

intakeVars == <<published, subscribed, handlers, users, rows, crashes, done>>

\* What a handler does next, in the order of its awaits.
Steps == {"findDuplicate", "checkRouter", "findUser", "createUser", "createLog"}

Handler == [l : Listeners, m : Message, pc : Steps]

RowStatus(route) == IF route = "listed" THEN "PENDING" ELSE "LOGGED_PROPOSAL"

HasRow(key) == \E row \in rows : row.key = key

IntakeInit ==
    /\ published = {}
    /\ subscribed \in SUBSET Listeners
    /\ handlers = {}
    /\ users = KnownWallets
    /\ rows = {}
    /\ crashes = 0
    /\ done = {}

--------------------------------------------------------------------------------
(* Publisher and channel *)

\* publish_executable_intent returns True however many listeners there are.
\* (When Redis is down it returns False and nothing happens.)
Publish(key, wallet, route) ==
    LET m == [n |-> Cardinality(published), key |-> key, wallet |-> wallet,
              route |-> route]
    IN  /\ Cardinality(published) < MaxPublished
        /\ published' = published \cup {m}
        /\ handlers' = handlers \cup
              {[l |-> l, m |-> m, pc |-> "findDuplicate"] : l \in subscribed}
        /\ UNCHANGED <<subscribed, users, rows, crashes, done>>

Subscribe(l) ==
    /\ l \notin subscribed
    /\ subscribed' = subscribed \cup {l}
    /\ UNCHANGED <<published, handlers, users, rows, crashes, done>>

\* The process ends with its handlers.
Crash(l) ==
    /\ crashes < MaxCrashes
    /\ l \in subscribed
    /\ crashes' = crashes + 1
    /\ subscribed' = subscribed \ {l}
    /\ handlers' = {h \in handlers : h.l # l}
    /\ UNCHANGED <<published, users, rows, done>>

--------------------------------------------------------------------------------
(* handleRawMessage, for a message that parses *)

GoTo(h, pc) ==
    /\ handlers' = (handlers \ {h}) \cup {[h EXCEPT !.pc = pc]}
    /\ UNCHANGED done

End(h) ==
    /\ handlers' = handlers \ {h}
    /\ done' = done \cup {[l |-> h.l, m |-> h.m]}

FindDuplicate(h) ==
    /\ h.pc = "findDuplicate"
    /\ IF HasRow(h.m.key) THEN End(h) ELSE GoTo(h, "checkRouter")
    /\ UNCHANGED <<published, subscribed, users, rows, crashes>>

\* Mutant of CheckRouter: a router off the whitelist is only logged.
CheckRouterWarns(h) ==
    /\ h.pc = "checkRouter"
    /\ GoTo(h, "findUser")
    /\ UNCHANGED <<published, subscribed, users, rows, crashes>>

\* Mutant of CheckRouter: a message that names no router is dropped too.
CheckRouterRequires(h) ==
    /\ h.pc = "checkRouter"
    /\ IF h.m.route # "listed" THEN End(h) ELSE GoTo(h, "findUser")
    /\ UNCHANGED <<published, subscribed, users, rows, crashes>>

\* A message that names a router off the whitelist is dropped.
CheckRouter(h) ==
    /\ h.pc = "checkRouter"
    /\ IF h.m.route = "unlisted" THEN End(h) ELSE GoTo(h, "findUser")
    /\ UNCHANGED <<published, subscribed, users, rows, crashes>>

FindUser(h) ==
    /\ h.pc = "findUser"
    /\ GoTo(h, IF h.m.wallet \in users THEN "createLog" ELSE "createUser")
    /\ UNCHANGED <<published, subscribed, users, rows, crashes>>

\* getOrCreateUserByWallet inserts what it did not find; a wallet somebody
\* inserted since breaks the unique constraint, and the handler ends there.
CreateUser(h) ==
    /\ h.pc = "createUser"
    /\ IF h.m.wallet \in users THEN End(h) /\ UNCHANGED users
       ELSE GoTo(h, "createLog") /\ users' = users \cup {h.m.wallet}
    /\ UNCHANGED <<published, subscribed, rows, crashes>>

\* Another route of the web application inserts the user.
UserSignsIn(wallet) ==
    /\ wallet \notin users
    /\ users' = users \cup {wallet}
    /\ UNCHANGED <<published, subscribed, handlers, rows, crashes, done>>

\* The insert, or P2002 on a key inserted since, which is a duplicate too.
CreateLog(h) ==
    /\ h.pc = "createLog"
    /\ rows' = IF HasRow(h.m.key) THEN rows
               ELSE rows \cup {[key |-> h.m.key, wallet |-> h.m.wallet,
                                status |-> RowStatus(h.m.route)]}
    /\ End(h)
    /\ UNCHANGED <<published, subscribed, users, crashes>>

--------------------------------------------------------------------------------

HandlerStep(h) ==
    FindDuplicate(h) \/ CheckRouter(h) \/ FindUser(h) \/ CreateUser(h) \/ CreateLog(h)

IntakeNext ==
    \/ \E key \in Keys, wallet \in Wallets, route \in Routes :
          Publish(key, wallet, route)
    \/ \E l \in Listeners : Subscribe(l) \/ Crash(l)
    \/ \E h \in handlers : HandlerStep(h)
    \/ \E wallet \in Wallets : UserSignsIn(wallet)

IntakeSpec == IntakeInit /\ [][IntakeNext]_intakeVars

\* The event loop runs every handler to its end; nobody has to publish,
\* subscribe or sign in.
IntakeFairness == WF_intakeVars(\E h \in handlers : HandlerStep(h))

--------------------------------------------------------------------------------
(* Properties *)

\* Messages, handlers, users and rows have the shapes of the two scripts.
IntakeTypeOK ==
    /\ published \subseteq Message
    /\ subscribed \subseteq Listeners
    /\ handlers \subseteq Handler
    /\ users \subseteq Wallets
    /\ rows \subseteq [key : Keys, wallet : Wallets,
                       status : {"PENDING", "LOGGED_PROPOSAL"}]
    /\ crashes \in Nat
    /\ done \subseteq [l : Listeners, m : Message]

\* However handlers interleave, a key has one row, the row has a user, and it
\* repeats a message that was published and not dropped for its router.
RowsAreIntents ==
    \A row \in rows :
        /\ \A other \in rows : other.key = row.key => other = row
        /\ row.wallet \in users
        /\ \E m \in published : /\ m.key = row.key /\ m.wallet = row.wallet
                                /\ m.route # "unlisted"
                                /\ row.status = RowStatus(m.route)

\* A handler that ran to its end leaves its intent recorded, unless the router
\* is off the whitelist: "Se router/chain mancanti: ExecutionLog con stato
\* LOGGED_PROPOSAL (audit)" and "Se whitelist ok: stato PENDING".
HandledIsRecorded ==
    \A d \in done : d.m.route # "unlisted" => HasRow(d.m.key)

\* What a listener received from a wallet that had its users row from the start
\* is recorded in the end, unless a listener crashes: the duplicate lookup, the
\* P2002 of another handler and the drop make no other intent disappear.
ReceivedIsRecorded ==
    \A key \in Keys :
        (\E h \in handlers : /\ h.m.key = key /\ h.m.route # "unlisted"
                            /\ h.m.wallet \in KnownWallets)
            ~> HasRow(key) \/ crashes > 0
================================================================================
