------------------------------ MODULE ChatSession ------------------------------
(***************************************************************************)
(* The chat of the web application: FiduciaryChat.tsx in the tabs of one   *)
(* browser and app/api/chat/route.ts.  A tab sends the wallet it has in    *)
(* its store and the conversation it was last told; the route finds or     *)
(* makes the user and the conversation, one await at a time, answers with  *)
(* the conversation's id in a header, and writes into that conversation.   *)
(*                                                                         *)
(* The tabs share localStorage, which a tab reads only when it is mounted. *)
(* It may hold the id of a conversation the database does not have (it was *)
(* made anew), and an older client sent one id for everybody.              *)
(***************************************************************************)
EXTENDS Naturals, FiniteSets

CONSTANTS
    Tabs,            \* tabs of one browser
    Addresses,       \* wallet addresses
    Members,         \* those with a users row from the start
    Conversations,   \* ids of conversations
    Stale,           \* ids a browser kept of a database that is gone
    Shared,          \* LEGACY_SHARED_CHAT_IDS
    NoConversation,  \* no id
    Nobody,          \* the owner of an id without a row
    MaxPosts         \* bound on the requests sent

ASSUME ChatAssumption ==
    /\ Members \subseteq Addresses
    /\ Stale \cup Shared \subseteq Conversations
    /\ NoConversation \notin Conversations
    /\ Nobody \notin Addresses
    /\ MaxPosts \in Nat

VARIABLES
    owner,    \* user of each conversation's row
    members,  \* addresses with a users row
    written,  \* rows of messages and execution_logs: conversation and sender
    posts,    \* requests under way
    tabs,     \* wallet, conversation and busy flag of each tab
    storage,  \* localStorage: wallet and conversation
    sends    \* requests sent so far

chatVars == <<owner, members, written, posts, tabs, storage, sends>>
serverVars == <<owner, members, written>>
browserVars == <<tabs, storage, sends>>

MaybeConversation == Conversations \cup {NoConversation}

\* What the route does next, in the order of its awaits.
RouteSteps == {"findUser", "createUser", "findConversation", "createAsked",
               "reread", "mint", "question", "answering", "closed"}

\* Whether the client still waits for the headers or reads the stream.
Ears == {"headers", "stream", "gone"}

ChatPost == [n : Nat, tab : Tabs, address : Addresses, asked : MaybeConversation,
         pc : RouteSteps, conversation : MaybeConversation, ear : Ears]

ChatInit ==
    /\ owner = [id \in Conversations |-> Nobody]
    /\ members = Members
    /\ written = {}
    /\ posts = {}
    /\ \E address \in Addresses, kept \in Stale \cup Shared \cup {NoConversation} :
          /\ storage = [address |-> address, conversation |-> kept]
          /\ tabs = [t \in Tabs |-> [address |-> address, conversation |-> kept,
                                     busy |-> FALSE]]
    /\ sends = 0

--------------------------------------------------------------------------------
(* The browser *)

\* The effect of a mounted FiduciaryChat: the store is read again, and the
\* conversation, unless it is the id everybody had.
Mount(t) ==
    LET kept == IF storage.conversation \in Shared THEN NoConversation
                ELSE storage.conversation
    IN  /\ ~tabs[t].busy
        /\ tabs' = [tabs EXCEPT ![t].address = storage.address,
                                ![t].conversation = kept]
        /\ storage' = [storage EXCEPT !.conversation = kept]
        /\ UNCHANGED <<serverVars, posts, sends>>

\* setWalletAddress, kept by the persisted store.
SetWalletAddress(t, address) ==
    /\ tabs' = [tabs EXCEPT ![t].address = address]
    /\ storage' = [storage EXCEPT !.address = address]
    /\ UNCHANGED <<serverVars, posts, sends>>

\* submitMessage and prepareSendMessagesRequest.
SendMessage(t) ==
    /\ sends < MaxPosts /\ ~tabs[t].busy
    /\ posts' = posts \cup
          {[n |-> sends, tab |-> t, address |-> tabs[t].address,
            asked |-> tabs[t].conversation, pc |-> "findUser",
            conversation |-> NoConversation, ear |-> "headers"]}
    /\ tabs' = [tabs EXCEPT ![t].busy = TRUE]
    /\ sends' = sends + 1
    /\ UNCHANGED <<serverVars, storage>>

\* A request is forgotten when the route and the tab are both through with it.
Becomes(p, q) ==
    posts' = (posts \ {p}) \cup
             (IF q.pc = "closed" /\ q.ear = "gone" THEN {} ELSE {q})

Freed(p) == IF p.ear = "gone" THEN tabs ELSE [tabs EXCEPT ![p.tab].busy = FALSE]

\* The headers arrive and their conversation replaces the tab's.  useChat is
\* keyed by it: another id starts an empty chat, which is ready to send while
\* the old one goes on out of sight.
Hear(p) ==
    LET same == tabs[p.tab].conversation = p.conversation
    IN  /\ p.pc \in {"answering", "closed"} /\ p.ear = "headers"
        /\ storage' = [storage EXCEPT !.conversation = p.conversation]
        /\ tabs' = [tabs EXCEPT ![p.tab].conversation = p.conversation,
                                ![p.tab].busy = same]
        /\ Becomes(p, [p EXCEPT !.ear = IF same THEN "stream" ELSE "gone"])
        /\ UNCHANGED <<serverVars, sends>>

\* The stream of a closed answer ends.
HearEnd(p) ==
    /\ p.pc = "closed" /\ p.ear = "stream"
    /\ tabs' = Freed(p)
    /\ Becomes(p, [p EXCEPT !.ear = "gone"])
    /\ UNCHANGED <<serverVars, storage, sends>>

\* stop(), a page left or a connection lost.  The route is not told.
Leave(p) ==
    /\ p.ear # "gone"
    /\ tabs' = Freed(p)
    /\ Becomes(p, [p EXCEPT !.ear = "gone"])
    /\ UNCHANGED <<serverVars, storage, sends>>

--------------------------------------------------------------------------------
(* POST /api/chat *)

GoOn(p, pc) == posts' = (posts \ {p}) \cup {[p EXCEPT !.pc = pc]}

\* resolveConversationId returns id.
Resolved(p, id) ==
    posts' = (posts \ {p}) \cup {[p EXCEPT !.pc = "question", !.conversation = id]}

\* A 503 of the database or a 400 for messages that do not convert.
Refuse(p) ==
    /\ p.pc \notin {"answering", "closed"}
    /\ posts' = posts \ {p}
    /\ tabs' = Freed(p)
    /\ UNCHANGED <<serverVars, storage, sends>>

FindMember(p) ==
    /\ p.pc = "findUser"
    /\ GoOn(p, IF p.address \in members THEN "findConversation" ELSE "createUser")
    /\ UNCHANGED <<serverVars, browserVars>>

\* A wallet inserted since breaks the unique constraint, which is a Refuse.
CreateMember(p) ==
    /\ p.pc = "createUser" /\ p.address \notin members
    /\ members' = members \cup {p.address}
    /\ GoOn(p, "findConversation")
    /\ UNCHANGED <<owner, written, browserVars>>

\* Without a usable id, or with somebody else's, a conversation is minted.
FindConversation(p) ==
    /\ p.pc = "findConversation"
    /\ IF p.asked \in Shared \cup {NoConversation} THEN GoOn(p, "mint")
       ELSE IF owner[p.asked] = Nobody THEN GoOn(p, "createAsked")
       ELSE IF owner[p.asked] = p.address THEN Resolved(p, p.asked)
       ELSE GoOn(p, "mint")
    /\ UNCHANGED <<serverVars, browserVars>>

\* The insert under the id that was asked for, or P2002 when it exists by now.
CreateAsked(p) ==
    /\ p.pc = "createAsked"
    /\ IF owner[p.asked] = Nobody
       THEN owner' = [owner EXCEPT ![p.asked] = p.address] /\ Resolved(p, p.asked)
       ELSE GoOn(p, "reread") /\ UNCHANGED owner
    /\ UNCHANGED <<members, written, browserVars>>

\* Mutant of Reread: the row that won the race is taken whoever owns it.
RereadTrusting(p) ==
    /\ p.pc = "reread"
    /\ Resolved(p, p.asked)
    /\ UNCHANGED <<serverVars, browserVars>>

Reread(p) ==
    /\ p.pc = "reread"
    /\ IF owner[p.asked] = p.address THEN Resolved(p, p.asked) ELSE GoOn(p, "mint")
    /\ UNCHANGED <<serverVars, browserVars>>

\* A random id: none that exists, none that a browser has kept.
Mint(p) ==
    /\ p.pc = "mint"
    /\ \E id \in Conversations \ (Stale \cup Shared) :
          /\ owner[id] = Nobody
          /\ owner' = [owner EXCEPT ![id] = p.address]
          /\ Resolved(p, id)
    /\ UNCHANGED <<members, written, browserVars>>

\* A row that names the conversation; the insert of a message may fail, and
\* the route goes on.
Writes(p, stored) ==
    written' = written \cup
        (IF stored THEN {[conversation |-> p.conversation, address |-> p.address]}
         ELSE {})

\* The user's text is stored, streamText is started and the headers go out.
SaveQuestion(p, stored) ==
    /\ p.pc = "question"
    /\ Writes(p, stored)
    /\ GoOn(p, "answering")
    /\ UNCHANGED <<owner, members, browserVars>>

\* The model calls proposeExecution, whose row names user and conversation.
ChatProposal(p) ==
    /\ p.pc = "answering"
    /\ Writes(p, TRUE)
    /\ UNCHANGED <<owner, members, posts, browserVars>>

\* onFinish stores the answer; a stream cut off with its reader stores none.
OnFinish(p, stored) ==
    /\ p.pc = "answering"
    /\ Writes(p, stored)
    /\ Becomes(p, [p EXCEPT !.pc = "closed"])
    /\ UNCHANGED <<owner, members, browserVars>>

--------------------------------------------------------------------------------

RouteStep(p) ==
    \/ Refuse(p) \/ FindMember(p) \/ CreateMember(p)
    \/ FindConversation(p) \/ CreateAsked(p) \/ Reread(p) \/ Mint(p)
    \/ \E stored \in BOOLEAN : SaveQuestion(p, stored) \/ OnFinish(p, stored)
    \/ ChatProposal(p)

ChatNext ==
    \/ \E t \in Tabs : Mount(t) \/ SendMessage(t)
    \/ \E t \in Tabs, address \in Addresses : SetWalletAddress(t, address)
    \/ \E p \in posts : Hear(p) \/ HearEnd(p) \/ Leave(p) \/ RouteStep(p)

ChatSpec == ChatInit /\ [][ChatNext]_chatVars

--------------------------------------------------------------------------------
(* Properties *)

\* Requests, tabs, storage and rows have the shapes of the route's and the
\* component's data.
ChatTypeOK ==
    /\ owner \in [Conversations -> Addresses \cup {Nobody}]
    /\ members \subseteq Addresses
    /\ written \subseteq [conversation : Conversations, address : Addresses]
    /\ posts \subseteq ChatPost
    /\ tabs \in [Tabs -> [address : Addresses, conversation : MaybeConversation,
                          busy : BOOLEAN]]
    /\ storage \in [address : Addresses, conversation : MaybeConversation]
    /\ sends \in Nat

\* Whatever ids browsers keep, whichever wallet a tab has changed to and
\* however requests race for one id, every message and every proposal is in a
\* conversation of the wallet it was sent with; and a wallet that asks for a
\* conversation of its own continues that one and no other.
ConversationsArePrivate ==
    /\ \A w \in written : owner[w.conversation] = w.address
    /\ \A p \in posts :
          p.conversation # NoConversation =>
             /\ owner[p.conversation] = p.address
             /\ p.asked \notin Shared \cup {NoConversation} /\ owner[p.asked] = p.address
                   => p.conversation = p.asked
================================================================================
