--------------------------- MODULE WebRecords_proofs ---------------------------
(***************************************************************************)
(* Proofs about the records the web application writes for its users, for  *)
(* any number of wallets, ids, tabs, messages and fetches:                 *)
(* - IntentIntake: the rows of the intake are published intents, one per   *)
(*   key, whatever listeners crash;                                        *)
(* - ChatSession: what is written in a chat stays with the wallet that     *)
(*   sent it;                                                              *)
(* - ReportLibrary: what the pages show is of the wallet and the report of *)
(*   now.                                                                  *)
(***************************************************************************)
EXTENDS IntentIntake, ChatSession, ReportLibrary, FiniteSetTheorems, TLAPS

--------------------------------------------------------------------------------
(* The intent intake *)

USE IntakeAssumption

\* Messages are numbered by how many there are, so there are finitely many.
IntakeTypeInv == IntakeTypeOK /\ IsFiniteSet(published)

\* What each program point of a handler knows of its message: it was published,
\* past the check its router is not off the whitelist, and where the row is
\* inserted its wallet has a user.
HandlerKnows(h) ==
    /\ h.m \in published
    /\ h.pc \in {"findUser", "createUser", "createLog"} => h.m.route # "unlisted"
    /\ h.pc = "createLog" => h.m.wallet \in users

IntakeInv == RowsAreIntents /\ \A h \in handlers : HandlerKnows(h)

LEMMA IntakeInitial == IntakeInit => IntakeTypeInv /\ IntakeInv
BY FS_EmptySet DEF IntakeInit, IntakeTypeInv, IntakeTypeOK, IntakeInv, RowsAreIntents

\* Messages and users are never taken back, so a step that keeps the rows and
\* adds only handlers that know their message keeps the invariant.
LEMMA RowsKept ==
    ASSUME IntakeInv, published \subseteq published', users \subseteq users', rows' = rows,
           \A h \in handlers' : h \in handlers \/ HandlerKnows(h)'
    PROVE  IntakeInv'
<1>1. RowsAreIntents'
  BY DEF IntakeInv, RowsAreIntents
<1>2. \A h \in handlers' : HandlerKnows(h)'
  BY DEF IntakeInv, HandlerKnows
<1> QED BY <1>1, <1>2 DEF IntakeInv

LEMMA PublishKeeps ==
    ASSUME IntakeTypeInv, IntakeInv, NEW key \in Keys, NEW address \in Wallets,
           NEW route \in Routes, Publish(key, address, route)
    PROVE  IntakeTypeInv' /\ IntakeInv'
<1> DEFINE m == [n |-> Cardinality(published), key |-> key, wallet |-> address, route |-> route]
           new == {[l |-> l, m |-> m, pc |-> "findDuplicate"] : l \in subscribed}
<1>1. m \in Message
  BY FS_CardinalityType DEF IntakeTypeInv, Message
<1>2. /\ published' = published \cup {m}
      /\ handlers' = handlers \cup new
      /\ UNCHANGED <<subscribed, users, rows, crashes, done>>
  BY DEF Publish
<1>3. new \subseteq Handler
  BY <1>1 DEF Handler, Steps, IntakeTypeInv, IntakeTypeOK
<1>4. IsFiniteSet(published')
  BY <1>2, FS_AddElement DEF IntakeTypeInv
<1>5. IntakeTypeInv'
  <2> HIDE DEF m, new
  <2> QED BY <1>1, <1>2, <1>3, <1>4 DEF IntakeTypeInv, IntakeTypeOK
<1>6. \A h \in new : HandlerKnows(h)'
  BY <1>2 DEF HandlerKnows
<1> HIDE DEF new
<1>7. IntakeInv'
  BY <1>2, <1>6, RowsKept
<1> QED BY <1>5, <1>7

\* The two ways a handler's step changes the set of handlers.
LEMMA GoToKeeps ==
    ASSUME IntakeTypeInv, NEW h \in handlers, NEW pc \in Steps, GoTo(h, pc)
    PROVE  /\ handlers' \subseteq Handler /\ done' = done
           /\ \A x \in handlers' : \/ x \in handlers
                                   \/ x.m = h.m /\ x.pc = pc
<1>1. h \in Handler
  BY DEF IntakeTypeInv, IntakeTypeOK
<1>2. [h EXCEPT !.pc = pc] \in Handler
  BY <1>1 DEF Handler
<1>3. [h EXCEPT !.pc = pc].m = h.m /\ [h EXCEPT !.pc = pc].pc = pc
  BY <1>1 DEF Handler
<1> QED BY <1>2, <1>3 DEF GoTo, IntakeTypeInv, IntakeTypeOK

LEMMA EndKeeps ==
    ASSUME IntakeTypeInv, NEW h \in handlers, End(h)
    PROVE  /\ handlers' \subseteq handlers
           /\ done' \subseteq [l : Listeners, m : Message]
BY DEF End, IntakeTypeInv, IntakeTypeOK, Handler

LEMMA StepKeepsTypes ==
    ASSUME IntakeTypeInv, NEW h \in handlers, HandlerStep(h)
    PROVE  IntakeTypeInv'
<1>h. h \in Handler /\ h.m \in Message
  BY DEF IntakeTypeInv, IntakeTypeOK, Handler
<1>1. handlers' \subseteq Handler /\ done' \subseteq [l : Listeners, m : Message]
  <2>1. ASSUME NEW pc \in Steps, GoTo(h, pc)
        PROVE  handlers' \subseteq Handler /\ done' \subseteq [l : Listeners, m : Message]
    BY <2>1, GoToKeeps DEF IntakeTypeInv, IntakeTypeOK
  <2>2. ASSUME End(h)
        PROVE  handlers' \subseteq Handler /\ done' \subseteq [l : Listeners, m : Message]
    BY <2>2, EndKeeps DEF IntakeTypeInv, IntakeTypeOK
  <2>3. End(h) \/ \E pc \in Steps : GoTo(h, pc)
    BY DEF HandlerStep, FindDuplicate, CheckRouter, FindUser, CreateUser, CreateLog, Steps
  <2> QED BY <2>1, <2>2, <2>3
<1>2. users' \subseteq Wallets
  BY <1>h DEF HandlerStep, FindDuplicate, CheckRouter, FindUser, CreateUser, CreateLog,
              IntakeTypeInv, IntakeTypeOK, Message
<1>3. rows' \subseteq [key : Keys, wallet : Wallets, status : {"PENDING", "LOGGED_PROPOSAL"}]
  <2>1. [key |-> h.m.key, wallet |-> h.m.wallet, status |-> RowStatus(h.m.route)]
          \in [key : Keys, wallet : Wallets, status : {"PENDING", "LOGGED_PROPOSAL"}]
    BY <1>h DEF Message, RowStatus
  <2>2. rows' = rows \/ rows' = rows \cup
            {[key |-> h.m.key, wallet |-> h.m.wallet, status |-> RowStatus(h.m.route)]}
    BY DEF HandlerStep, FindDuplicate, CheckRouter, FindUser, CreateUser, CreateLog
  <2> QED BY <2>1, <2>2 DEF IntakeTypeInv, IntakeTypeOK
<1>4. UNCHANGED <<published, subscribed, crashes>>
  BY DEF HandlerStep, FindDuplicate, CheckRouter, FindUser, CreateUser, CreateLog
<1> QED BY <1>1, <1>2, <1>3, <1>4 DEF IntakeTypeInv, IntakeTypeOK

\* The insert: the key was looked up in the same step, so it stays unique.
LEMMA CreateLogKeeps ==
    ASSUME IntakeTypeInv, IntakeInv, NEW h \in handlers, CreateLog(h)
    PROVE  IntakeInv'
<1> DEFINE row == [key |-> h.m.key, wallet |-> h.m.wallet, status |-> RowStatus(h.m.route)]
<1>1. UNCHANGED <<published, users>> /\ handlers' \subseteq handlers
  BY EndKeeps DEF CreateLog
<1>2. /\ h.m \in published
      /\ h.m.route # "unlisted" /\ h.m.wallet \in users
  BY DEF CreateLog, IntakeInv, HandlerKnows
<1>3. CASE HasRow(h.m.key)
  BY <1>1, <1>3, RowsKept DEF CreateLog
<1>4. CASE ~ HasRow(h.m.key)
  <2>1. rows' = rows \cup {row}
    BY <1>4 DEF CreateLog
  <2>2. /\ row.wallet = h.m.wallet /\ row.key = h.m.key
        /\ row.status = RowStatus(h.m.route)
    OBVIOUS
  <2>3. \A other \in rows : other.key # row.key
    BY <1>4 DEF HasRow
  <2> HIDE DEF row
  <2>4. RowsAreIntents'
    <3>1. ASSUME NEW x \in rows'
          PROVE  /\ \A other \in rows' : other.key = x.key => other = x
                 /\ x.wallet \in users'
                 /\ \E m \in published' : /\ m.key = x.key /\ m.wallet = x.wallet
                                          /\ m.route # "unlisted"
                                          /\ x.status = RowStatus(m.route)
      <4>1. CASE x = row
        BY <1>1, <1>2, <2>1, <2>2, <2>3, <4>1
      <4>2. CASE x \in rows
        BY <1>1, <2>1, <2>3, <4>2 DEF IntakeInv, RowsAreIntents
      <4> QED BY <2>1, <3>1, <4>1, <4>2
    <3> QED BY <3>1 DEF RowsAreIntents
  <2>5. \A x \in handlers' : HandlerKnows(x)'
    BY <1>1 DEF IntakeInv, HandlerKnows
  <2> QED BY <2>4, <2>5 DEF IntakeInv
<1> QED BY <1>3, <1>4

LEMMA StepKeeps ==
    ASSUME IntakeTypeInv, IntakeInv, NEW h \in handlers, HandlerStep(h)
    PROVE  IntakeInv'
<1>m. h.m \in published
  BY DEF IntakeInv, HandlerKnows
<1>1. ASSUME End(h), UNCHANGED <<published, users, rows>>
      PROVE  IntakeInv'
  BY <1>1, EndKeeps, RowsKept
<1>2. ASSUME NEW pc \in Steps, GoTo(h, pc), published' = published,
             users \subseteq users', rows' = rows,
             pc \in {"findUser", "createUser", "createLog"} => h.m.route # "unlisted",
             pc = "createLog" => h.m.wallet \in users'
      PROVE  IntakeInv'
  <2>1. \A x \in handlers' : x \in handlers \/ (x.m = h.m /\ x.pc = pc)
    BY <1>2, GoToKeeps
  <2>2. \A x \in handlers' : x \in handlers \/ HandlerKnows(x)'
    BY <1>2, <1>m, <2>1 DEF HandlerKnows
  <2> QED BY <1>2, <2>2, RowsKept
<1>3. CASE FindDuplicate(h)
  BY <1>1, <1>2, <1>3 DEF FindDuplicate, Steps
<1>4. CASE CheckRouter(h)
  BY <1>1, <1>2, <1>4 DEF CheckRouter, Steps
<1>5. CASE FindUser(h)
  <2>1. h.m.route # "unlisted"
    BY <1>5 DEF FindUser, IntakeInv, HandlerKnows
  <2>2. CASE h.m.wallet \in users
    BY <1>2, <1>5, <2>1, <2>2 DEF FindUser, Steps
  <2>3. CASE h.m.wallet \notin users
    BY <1>2, <1>5, <2>1, <2>3 DEF FindUser, Steps
  <2> QED BY <2>2, <2>3
<1>6. CASE CreateUser(h)
  <2>1. h.m.route # "unlisted"
    BY <1>6 DEF CreateUser, IntakeInv, HandlerKnows
  <2>2. CASE h.m.wallet \in users
    BY <1>1, <1>6, <2>2 DEF CreateUser
  <2>3. CASE h.m.wallet \notin users
    BY <1>2, <1>6, <2>1, <2>3 DEF CreateUser, Steps
  <2> QED BY <2>2, <2>3
<1>7. CASE CreateLog(h)
  BY <1>7, CreateLogKeeps
<1> QED BY <1>3, <1>4, <1>5, <1>6, <1>7 DEF HandlerStep

LEMMA IntakeInductive ==
    IntakeTypeInv /\ IntakeInv /\ [IntakeNext]_intakeVars => (IntakeTypeInv /\ IntakeInv)'
<1> SUFFICES ASSUME IntakeTypeInv, IntakeInv, [IntakeNext]_intakeVars
             PROVE  (IntakeTypeInv /\ IntakeInv)'
  OBVIOUS
<1>1. ASSUME NEW l \in Listeners, Subscribe(l)
      PROVE  (IntakeTypeInv /\ IntakeInv)'
  <2>1. IntakeInv'
    BY <1>1, RowsKept DEF Subscribe
  <2> QED BY <1>1, <2>1 DEF Subscribe, IntakeTypeInv, IntakeTypeOK
<1>2. ASSUME NEW l \in Listeners, Crash(l)
      PROVE  (IntakeTypeInv /\ IntakeInv)'
  <2>1. IntakeInv'
    BY <1>2, RowsKept DEF Crash
  <2> QED BY <1>2, <2>1 DEF Crash, IntakeTypeInv, IntakeTypeOK
<1>3. ASSUME NEW address \in Wallets, UserSignsIn(address)
      PROVE  (IntakeTypeInv /\ IntakeInv)'
  <2>1. IntakeInv'
    BY <1>3, RowsKept DEF UserSignsIn
  <2> QED BY <1>3, <2>1 DEF UserSignsIn, IntakeTypeInv, IntakeTypeOK
<1>4. CASE UNCHANGED intakeVars
  <2>1. IntakeInv'
    BY <1>4, RowsKept DEF intakeVars
  <2> QED BY <1>4, <2>1 DEF intakeVars, IntakeTypeInv, IntakeTypeOK
<1> QED
  BY <1>1, <1>2, <1>3, <1>4, PublishKeeps, StepKeepsTypes, StepKeeps DEF IntakeNext

\* Messages, handlers, users and rows keep the shapes of the two scripts.
THEOREM IntakeTypeCorrect == IntakeSpec => []IntakeTypeOK
<1>1. IntakeTypeInv => IntakeTypeOK
  BY DEF IntakeTypeInv
<1> QED BY <1>1, IntakeInitial, IntakeInductive, PTL DEF IntakeSpec

\* However the handlers of any number of listeners interleave and crash, a key
\* has one row, and the row repeats a published message whose router was not
\* refused, for a wallet with a user.
THEOREM IntakeRowsAreIntents == IntakeSpec => []RowsAreIntents
<1>1. IntakeInv => RowsAreIntents
  BY DEF IntakeInv
<1> QED BY <1>1, IntakeInitial, IntakeInductive, PTL DEF IntakeSpec

HIDE IntakeAssumption

--------------------------------------------------------------------------------
(* The chat *)

Resolution == {"question", "answering", "closed"}

\* The id asked for is nobody's to continue: everybody's, none, or another's.
Elsewhere(p) ==
    \/ p.asked \in Shared \cup {NoConversation}
    \/ p.asked \in Conversations /\ owner[p.asked] \notin {Nobody, p.address}

\* What each program point of a request knows of the conversations.
PostKnows(p) ==
    /\ p.conversation # NoConversation =>
          /\ owner[p.conversation] = p.address
          /\ p.conversation = p.asked \/ Elsewhere(p)
    /\ p.pc \in Resolution => p.conversation # NoConversation
    /\ p.pc = "mint" => Elsewhere(p)
    /\ p.pc \in {"createAsked", "reread"} => p.asked \in Conversations
    /\ p.pc = "reread" => owner[p.asked] # Nobody

WrittenInOwn == \A w \in written : owner[w.conversation] = w.address

ChatInv == WrittenInOwn /\ \A p \in posts : PostKnows(p)

\* A conversation has one owner for good.
OwnersStay == \A id \in Conversations : owner[id] = Nobody \/ owner'[id] = owner[id]

\* Who owns nothing is no wallet, and no id is no conversation.
LEMMA NobodyIsNoAddress == Nobody \notin Addresses /\ NoConversation \notin Conversations
BY ChatAssumption

\* What a request knows stays true while conversations keep their owners.
LEMMA KnowledgeStays ==
    ASSUME NEW p \in ChatPost, PostKnows(p), OwnersStay
    PROVE  PostKnows(p)'
<1>1. p.conversation # NoConversation => owner'[p.conversation] = p.address
  <2>1. p.address \in Addresses /\ p.conversation \in MaybeConversation
    BY DEF ChatPost
  <2> QED BY <2>1, NobodyIsNoAddress DEF PostKnows, OwnersStay, MaybeConversation
<1>2. Elsewhere(p) => Elsewhere(p)'
  BY DEF Elsewhere, OwnersStay
<1>3. p.pc = "reread" => owner'[p.asked] # Nobody
  BY DEF PostKnows, OwnersStay
<1> QED BY <1>1, <1>2, <1>3 DEF PostKnows

\* A step that replaces at most one request by one that knows, and writes rows
\* of their conversations' owners only, keeps the invariant.
LEMMA ChatStep ==
    ASSUME ChatTypeOK, ChatInv, OwnersStay,
           \A p \in posts' : p \in posts \/ PostKnows(p)',
           \A w \in written' : w \in written \/ owner'[w.conversation] = w.address
    PROVE  ChatInv'
<1>1. \A p \in posts' : PostKnows(p)'
  <2> SUFFICES ASSUME NEW p \in posts', p \in posts PROVE PostKnows(p)'
    OBVIOUS
  <2> QED BY KnowledgeStays DEF ChatInv, ChatTypeOK
<1>2. ASSUME NEW w \in written' PROVE owner'[w.conversation] = w.address
  <2>1. CASE w \in written
    <3>1. w.conversation \in Conversations /\ w.address \in Addresses
      BY <2>1 DEF ChatTypeOK
    <3> QED BY <2>1, <3>1, NobodyIsNoAddress DEF ChatInv, WrittenInOwn, OwnersStay
  <2> QED BY <2>1, <1>2
<1> QED BY <1>1, <1>2 DEF ChatInv, WrittenInOwn

\* Before the first request nothing is written and nobody owns a conversation.
LEMMA ChatInitial == ChatInit => ChatTypeOK /\ ChatInv
<1> SUFFICES ASSUME ChatInit PROVE ChatTypeOK /\ ChatInv
  OBVIOUS
<1>1. PICK address \in Addresses, had \in Stale \cup Shared \cup {NoConversation} :
        /\ storage = [address |-> address, conversation |-> had]
        /\ tabs = [t \in Tabs |-> [address |-> address, conversation |-> had,
                                   busy |-> FALSE]]
  BY DEF ChatInit
<1>2. had \in MaybeConversation /\ Members \subseteq Addresses
  BY ChatAssumption DEF MaybeConversation
<1>3. ChatTypeOK
  BY <1>1, <1>2 DEF ChatInit, ChatTypeOK
<1>4. ChatInv
  BY DEF ChatInit, ChatInv, WrittenInOwn
<1> QED BY <1>3, <1>4

\* The browser's own steps leave rows and requests alone, or add a request
\* that has not begun.
LEMMA BrowserKeeps ==
    ASSUME ChatTypeOK, ChatInv, NEW t \in Tabs, NEW address \in Addresses,
           Mount(t) \/ SetWalletAddress(t, address) \/ SendMessage(t)
    PROVE  ChatTypeOK' /\ ChatInv'
<1>1. CASE Mount(t)
  <2>1. storage.conversation \in MaybeConversation /\ storage.address \in Addresses
    BY DEF ChatTypeOK
  <2>2. ChatTypeOK'
    BY <1>1, <2>1 DEF Mount, serverVars, ChatTypeOK, MaybeConversation
  <2>3. OwnersStay /\ posts' = posts /\ written' = written
    BY <1>1 DEF Mount, serverVars, OwnersStay
  <2> QED BY <2>2, <2>3, ChatStep
<1>2. CASE SetWalletAddress(t, address)
  <2>1. ChatTypeOK'
    BY <1>2 DEF SetWalletAddress, serverVars, ChatTypeOK
  <2>2. OwnersStay /\ posts' = posts /\ written' = written
    BY <1>2 DEF SetWalletAddress, serverVars, OwnersStay
  <2> QED BY <2>1, <2>2, ChatStep
<1>3. CASE SendMessage(t)
  <2> PICK p : p = [n |-> sends, tab |-> t, address |-> tabs[t].address,
                    asked |-> tabs[t].conversation, pc |-> "findUser",
                    conversation |-> NoConversation, ear |-> "headers"]
    OBVIOUS
  <2>1. p \in ChatPost
    BY DEF ChatTypeOK, ChatPost, MaybeConversation, RouteSteps, Ears
  <2>2. PostKnows(p)'
    BY DEF PostKnows, Resolution
  <2>3. posts' = posts \cup {p} /\ sends' = sends + 1 /\ UNCHANGED <<serverVars, storage>>
    BY <1>3 DEF SendMessage
  <2>4. tabs' = [tabs EXCEPT ![t].busy = TRUE]
    BY <1>3 DEF SendMessage
  <2>5. tabs' \in [Tabs -> [address : Addresses, conversation : MaybeConversation,
                            busy : BOOLEAN]]
    BY <2>4 DEF ChatTypeOK
  <2>6. posts' \subseteq ChatPost /\ sends' \in Nat
    BY <2>1, <2>3 DEF ChatTypeOK
  <2>7. ChatTypeOK'
    BY <2>3, <2>5, <2>6 DEF ChatTypeOK, serverVars
  <2>8. OwnersStay /\ written' = written
    BY <2>3 DEF serverVars, OwnersStay
  <2> QED BY <2>2, <2>3, <2>7, <2>8, ChatStep
<1> QED BY <1>1, <1>2, <1>3

\* A request replaced, or forgotten once both sides are through with it.
LEMMA BecomesOf ==
    ASSUME ChatTypeOK, NEW p \in posts, NEW q \in ChatPost, Becomes(p, q)
    PROVE  posts' \subseteq ChatPost /\ \A x \in posts' : x \in posts \/ x = q
BY DEF Becomes, ChatTypeOK

\* Freeing a tab touches its busy flag only.
LEMMA FreedTyped ==
    ASSUME ChatTypeOK, NEW p \in posts, tabs' = Freed(p)
    PROVE  tabs' \in [Tabs -> [address : Addresses, conversation : MaybeConversation,
                               busy : BOOLEAN]]
<1>1. p \in ChatPost
  BY DEF ChatTypeOK
<1>2. p.tab \in Tabs
  BY <1>1 DEF ChatPost
<1> QED BY <1>2 DEF Freed, ChatTypeOK

\* The client's half of a request changes what it listens to and nothing that
\* the route knows.
LEMMA EarIrrelevant ==
    ASSUME NEW p \in ChatPost, PostKnows(p), NEW ear \in Ears
    PROVE  [p EXCEPT !.ear = ear] \in ChatPost /\ PostKnows([p EXCEPT !.ear = ear])
<1>1. /\ [p EXCEPT !.ear = ear] \in ChatPost
      /\ [p EXCEPT !.ear = ear].pc = p.pc
      /\ [p EXCEPT !.ear = ear].asked = p.asked
      /\ [p EXCEPT !.ear = ear].address = p.address
      /\ [p EXCEPT !.ear = ear].conversation = p.conversation
  BY DEF ChatPost
<1> QED BY <1>1 DEF PostKnows, Elsewhere

\* Hearing the headers, hearing the end and leaving keep the invariant.
LEMMA ClientKeeps ==
    ASSUME ChatTypeOK, ChatInv, NEW p \in posts, Hear(p) \/ HearEnd(p) \/ Leave(p)
    PROVE  ChatTypeOK' /\ ChatInv'
<1>1. p \in ChatPost /\ PostKnows(p)
  BY DEF ChatTypeOK, ChatInv
<1>2. PICK ear \in Ears : Becomes(p, [p EXCEPT !.ear = ear])
  <2>1. CASE Hear(p)
    <3>1. CASE tabs[p.tab].conversation = p.conversation
      BY <2>1, <3>1 DEF Hear, Ears
    <3>2. CASE tabs[p.tab].conversation # p.conversation
      BY <2>1, <3>2 DEF Hear, Ears
    <3> QED BY <3>1, <3>2
  <2>2. CASE HearEnd(p) \/ Leave(p)
    BY <2>2 DEF HearEnd, Leave, Ears
  <2> QED BY <2>1, <2>2
<1> PICK q : q = [p EXCEPT !.ear = ear]
  OBVIOUS
<1>3. q \in ChatPost /\ PostKnows(q)
  BY <1>1, EarIrrelevant
<1>4. posts' \subseteq ChatPost /\ \A x \in posts' : x \in posts \/ x = q
  BY <1>2, <1>3, BecomesOf
<1>5. UNCHANGED serverVars /\ sends' = sends
  BY DEF Hear, HearEnd, Leave
<1>6. OwnersStay /\ written' = written
  BY <1>5 DEF serverVars, OwnersStay
<1>7. PostKnows(q)'
  BY <1>3, <1>6, KnowledgeStays
<1>8. ChatInv'
  BY <1>4, <1>6, <1>7, ChatStep
<1>9. /\ tabs' \in [Tabs -> [address : Addresses, conversation : MaybeConversation,
                             busy : BOOLEAN]]
      /\ storage' \in [address : Addresses, conversation : MaybeConversation]
  <2>1. CASE Hear(p)
    <3>1. p.tab \in Tabs /\ p.conversation \in MaybeConversation
      BY <1>1 DEF ChatPost
    <3> DEFINE same == tabs[p.tab].conversation = p.conversation
    <3>2. same \in BOOLEAN
      OBVIOUS
    <3>3. /\ storage' = [storage EXCEPT !.conversation = p.conversation]
          /\ tabs' = [tabs EXCEPT ![p.tab].conversation = p.conversation,
                                  ![p.tab].busy = same]
      BY <2>1 DEF Hear
    <3> HIDE DEF same
    <3> QED BY <3>1, <3>2, <3>3 DEF ChatTypeOK
  <2>2. CASE HearEnd(p) \/ Leave(p)
    BY <2>2, FreedTyped DEF HearEnd, Leave, ChatTypeOK
  <2> QED BY <2>1, <2>2
<1> QED BY <1>4, <1>5, <1>8, <1>9 DEF ChatTypeOK, serverVars

--------------------------------------------------------------------------------
\* A step of the route in which p goes on as q, with nothing of the browser's
\* changed.
LEMMA GoesOn ==
    ASSUME ChatTypeOK, ChatInv, NEW p \in posts, NEW q \in ChatPost, PostKnows(q)',
           posts' = (posts \ {p}) \cup {q}, OwnersStay, UNCHANGED <<written, browserVars>>,
           members' \subseteq Addresses, owner' \in [Conversations -> Addresses \cup {Nobody}]
    PROVE  ChatTypeOK' /\ ChatInv'
<1>1. ChatInv'
  BY ChatStep
<1>2. ChatTypeOK'
  BY DEF ChatTypeOK, browserVars
<1> QED BY <1>1, <1>2

\* So do the lookups of the route, which decide where the request goes on.
LEMMA LookupKeeps ==
    ASSUME ChatTypeOK, ChatInv, NEW p \in posts,
           FindMember(p) \/ CreateMember(p) \/ FindConversation(p) \/ Reread(p)
    PROVE  ChatTypeOK' /\ ChatInv'
<1>1. p \in ChatPost /\ PostKnows(p)
  BY DEF ChatTypeOK, ChatInv
<1>2. /\ p.address \in Addresses /\ p.asked \in MaybeConversation
      /\ p.conversation \in MaybeConversation
  BY <1>1 DEF ChatPost
<1>3. owner' = owner /\ UNCHANGED <<written, browserVars>> /\ members' \subseteq Addresses
  BY <1>2 DEF FindMember, CreateMember, FindConversation, Reread, serverVars, ChatTypeOK
<1>4. OwnersStay /\ owner' \in [Conversations -> Addresses \cup {Nobody}]
  BY <1>3 DEF OwnersStay, ChatTypeOK
<1>5. ASSUME NEW pc \in RouteSteps \ (Resolution \cup {"mint", "createAsked", "reread"}),
             GoOn(p, pc)
      PROVE  ChatTypeOK' /\ ChatInv'
  <2> PICK q : q = [p EXCEPT !.pc = pc]
    OBVIOUS
  <2>1. q \in ChatPost /\ q.pc = pc /\ q.conversation = p.conversation /\ q.asked = p.asked /\ q.address = p.address
    BY <1>1 DEF ChatPost
  <2>2. PostKnows(q)
    BY <1>1, <2>1 DEF PostKnows, Elsewhere
  <2>3. PostKnows(q)'
    BY <1>4, <2>1, <2>2, KnowledgeStays
  <2> QED BY <1>3, <1>4, <1>5, <2>1, <2>3, GoesOn DEF GoOn
<1>6. ASSUME GoOn(p, "mint"), Elsewhere(p)
      PROVE  ChatTypeOK' /\ ChatInv'
  <2> PICK q : q = [p EXCEPT !.pc = "mint"]
    OBVIOUS
  <2>1. q \in ChatPost /\ q.pc = "mint" /\ q.conversation = p.conversation /\ q.asked = p.asked /\ q.address = p.address
    BY <1>1 DEF ChatPost, RouteSteps
  <2>2. PostKnows(q)
    BY <1>1, <1>6, <2>1 DEF PostKnows, Elsewhere, Resolution
  <2>3. PostKnows(q)'
    BY <1>4, <2>1, <2>2, KnowledgeStays
  <2> QED BY <1>3, <1>4, <1>6, <2>1, <2>3, GoesOn DEF GoOn
<1>7. ASSUME GoOn(p, "createAsked"), p.asked \in Conversations
      PROVE  ChatTypeOK' /\ ChatInv'
  <2> PICK q : q = [p EXCEPT !.pc = "createAsked"]
    OBVIOUS
  <2>1. q \in ChatPost /\ q.pc = "createAsked" /\ q.conversation = p.conversation /\ q.asked = p.asked /\ q.address = p.address
    BY <1>1 DEF ChatPost, RouteSteps
  <2>2. PostKnows(q)
    BY <1>1, <1>7, <2>1 DEF PostKnows, Elsewhere, Resolution
  <2>3. PostKnows(q)'
    BY <1>4, <2>1, <2>2, KnowledgeStays
  <2> QED BY <1>3, <1>4, <1>7, <2>1, <2>3, GoesOn DEF GoOn
<1>8. ASSUME Resolved(p, p.asked), p.asked \in Conversations, owner[p.asked] = p.address
      PROVE  ChatTypeOK' /\ ChatInv'
  <2> PICK q : q = [p EXCEPT !.pc = "question", !.conversation = p.asked]
    OBVIOUS
  <2>1. q \in ChatPost /\ q.pc = "question" /\ q.conversation = p.asked /\ q.asked = p.asked /\ q.address = p.address
    BY <1>1 DEF ChatPost, RouteSteps
  <2>2. PostKnows(q)
    BY <1>8, <2>1, NobodyIsNoAddress DEF PostKnows, Resolution
  <2>3. PostKnows(q)'
    BY <1>4, <2>1, <2>2, KnowledgeStays
  <2> QED BY <1>3, <1>4, <1>8, <2>1, <2>3, GoesOn DEF Resolved
<1>9. CASE FindMember(p)
  <2>1. CASE p.address \in members
    BY <1>5, <1>9, <2>1 DEF FindMember, RouteSteps, Resolution
  <2>2. CASE p.address \notin members
    BY <1>5, <1>9, <2>2 DEF FindMember, RouteSteps, Resolution
  <2> QED BY <2>1, <2>2
<1>10. CASE CreateMember(p)
  BY <1>5, <1>10 DEF CreateMember, RouteSteps, Resolution
<1>11. CASE FindConversation(p)
  <2>1. CASE p.asked \in Shared \cup {NoConversation}
    BY <1>6, <1>11, <2>1 DEF FindConversation, Elsewhere
  <2>2. CASE p.asked \notin Shared \cup {NoConversation}
    <3>1. p.asked \in Conversations
      BY <1>2, <2>2 DEF MaybeConversation
    <3>2. CASE owner[p.asked] = Nobody
      BY <1>7, <1>11, <2>2, <3>1, <3>2 DEF FindConversation
    <3>3. CASE owner[p.asked] # Nobody /\ owner[p.asked] = p.address
      BY <1>8, <1>11, <2>2, <3>1, <3>3 DEF FindConversation
    <3>4. CASE owner[p.asked] # Nobody /\ owner[p.asked] # p.address
      BY <1>6, <1>11, <2>2, <3>1, <3>4 DEF FindConversation, Elsewhere
    <3> QED BY <3>2, <3>3, <3>4
  <2> QED BY <2>1, <2>2
<1>12. CASE Reread(p)
  <2>1. p.asked \in Conversations /\ owner[p.asked] # Nobody
    BY <1>1, <1>12 DEF Reread, PostKnows
  <2>2. CASE owner[p.asked] = p.address
    BY <1>8, <1>12, <2>1, <2>2 DEF Reread
  <2>3. CASE owner[p.asked] # p.address
    BY <1>6, <1>12, <2>1, <2>3 DEF Reread, Elsewhere
  <2> QED BY <2>2, <2>3
<1> QED BY <1>9, <1>10, <1>11, <1>12

\* The insert of a conversation under an id that has no row yet.
LEMMA InsertKeeps ==
    ASSUME ChatTypeOK, ChatInv, NEW p \in posts, CreateAsked(p) \/ Mint(p)
    PROVE  ChatTypeOK' /\ ChatInv'
<1>1. p \in ChatPost /\ PostKnows(p)
  BY DEF ChatTypeOK, ChatInv
<1>2. p.address \in Addresses /\ p.asked \in MaybeConversation
  BY <1>1 DEF ChatPost
<1>3. UNCHANGED <<members, written, browserVars>> /\ members' \subseteq Addresses
  BY DEF CreateAsked, Mint, ChatTypeOK
<1>4. ASSUME NEW id \in Conversations, owner[id] = Nobody,
             owner' = [owner EXCEPT ![id] = p.address], Resolved(p, id),
             id = p.asked \/ Elsewhere(p)
      PROVE  ChatTypeOK' /\ ChatInv'
  <2>1. OwnersStay /\ owner' \in [Conversations -> Addresses \cup {Nobody}] /\ owner'[id] = p.address
    BY <1>2, <1>4 DEF OwnersStay, ChatTypeOK
  <2> PICK q : q = [p EXCEPT !.pc = "question", !.conversation = id]
    OBVIOUS
  <2>2. q \in ChatPost /\ q.pc = "question" /\ q.conversation = id /\ q.asked = p.asked /\ q.address = p.address
    BY <1>1 DEF ChatPost, RouteSteps, MaybeConversation
  <2>3. Elsewhere(p) => Elsewhere(p)'
    BY <2>1 DEF Elsewhere, OwnersStay
  <2>4. PostKnows(q)'
    BY <1>4, <2>1, <2>2, <2>3, NobodyIsNoAddress DEF PostKnows, Resolution, Elsewhere
  <2> QED BY <1>3, <1>4, <2>1, <2>2, <2>4, GoesOn DEF Resolved
<1>5. CASE CreateAsked(p)
  <2>1. p.asked \in Conversations
    BY <1>1, <1>5 DEF CreateAsked, PostKnows
  <2>2. CASE owner[p.asked] = Nobody
    BY <1>4, <1>5, <2>1, <2>2 DEF CreateAsked
  <2>3. CASE owner[p.asked] # Nobody
    <3>1. owner' = owner /\ GoOn(p, "reread")
      BY <1>5, <2>3 DEF CreateAsked
    <3>2. OwnersStay /\ owner' \in [Conversations -> Addresses \cup {Nobody}]
      BY <3>1 DEF OwnersStay, ChatTypeOK
    <3> PICK q : q = [p EXCEPT !.pc = "reread"]
      OBVIOUS
    <3>3. q \in ChatPost /\ q.pc = "reread" /\ q.conversation = p.conversation /\ q.asked = p.asked /\ q.address = p.address
      BY <1>1 DEF ChatPost, RouteSteps
    <3>4. PostKnows(q)
      BY <1>1, <2>1, <2>3, <3>3 DEF PostKnows, Elsewhere, Resolution
    <3>5. PostKnows(q)'
      BY <3>2, <3>3, <3>4, KnowledgeStays
    <3> QED BY <1>3, <3>1, <3>2, <3>3, <3>5, GoesOn DEF GoOn
  <2> QED BY <2>2, <2>3
<1>6. CASE Mint(p)
  <2>1. Elsewhere(p)
    BY <1>1, <1>6 DEF Mint, PostKnows
  <2>2. PICK id \in Conversations \ (Stale \cup Shared) :
          /\ owner[id] = Nobody
          /\ owner' = [owner EXCEPT ![id] = p.address]
          /\ Resolved(p, id)
    BY <1>6 DEF Mint
  <2> QED BY <1>4, <2>1, <2>2
<1> QED BY <1>5, <1>6

\* Rows are written by a request that has its conversation.
LEMMA WriteKeeps ==
    ASSUME ChatTypeOK, ChatInv, NEW p \in posts, NEW stored \in BOOLEAN,
           SaveQuestion(p, stored) \/ OnFinish(p, stored) \/ ChatProposal(p)
    PROVE  ChatTypeOK' /\ ChatInv'
<1>1. p \in ChatPost /\ PostKnows(p)
  BY DEF ChatTypeOK, ChatInv
<1>2. p.pc \in Resolution
  BY DEF SaveQuestion, OnFinish, ChatProposal, Resolution
<1>3. /\ p.conversation \in Conversations /\ p.address \in Addresses
      /\ owner[p.conversation] = p.address
  BY <1>1, <1>2 DEF PostKnows, ChatPost, MaybeConversation
<1>4. UNCHANGED <<owner, members, browserVars>>
  BY DEF SaveQuestion, OnFinish, ChatProposal
<1> PICK row : row = [conversation |-> p.conversation, address |-> p.address]
  OBVIOUS
<1>5. /\ row \in [conversation : Conversations, address : Addresses]
      /\ row.conversation = p.conversation /\ row.address = p.address
  BY <1>3
<1>6. written' \subseteq written \cup {row}
  <2>1. PICK s \in BOOLEAN : Writes(p, s)
    BY DEF SaveQuestion, OnFinish, ChatProposal
  <2> QED BY <2>1 DEF Writes
<1>7. OwnersStay
  BY <1>4 DEF OwnersStay
<1>8. posts' \subseteq ChatPost /\ \A x \in posts' : x \in posts \/ PostKnows(x)'
  <2>1. CASE ChatProposal(p)
    BY <2>1 DEF ChatProposal, ChatTypeOK
  <2>2. CASE SaveQuestion(p, stored) \/ OnFinish(p, stored)
    <3>1. PICK pc \in {"answering", "closed"} :
            GoOn(p, pc) \/ Becomes(p, [p EXCEPT !.pc = pc])
      BY <2>2 DEF SaveQuestion, OnFinish
    <3> PICK q : q = [p EXCEPT !.pc = pc]
      OBVIOUS
    <3>2. q \in ChatPost /\ q.pc = pc /\ q.conversation = p.conversation /\ q.asked = p.asked /\ q.address = p.address
      BY <1>1 DEF ChatPost, RouteSteps
    <3>3. PostKnows(q)
      BY <1>1, <1>2, <3>2 DEF PostKnows, Elsewhere, Resolution
    <3>4. PostKnows(q)'
      BY <1>7, <3>2, <3>3, KnowledgeStays
    <3> QED BY <3>1, <3>2, <3>4, BecomesOf DEF GoOn, ChatTypeOK
  <2> QED BY <2>1, <2>2
<1>9. ChatInv'
  BY <1>3, <1>4, <1>5, <1>6, <1>7, <1>8, ChatStep
<1>10. ChatTypeOK'
  BY <1>4, <1>5, <1>6, <1>8 DEF ChatTypeOK, browserVars
<1> QED BY <1>9, <1>10

\* A refused request is forgotten, with what it knew.
LEMMA RefuseKeeps ==
    ASSUME ChatTypeOK, ChatInv, NEW p \in posts, Refuse(p)
    PROVE  ChatTypeOK' /\ ChatInv'
<1>1. OwnersStay /\ written' = written /\ posts' \subseteq posts
  BY DEF Refuse, serverVars, OwnersStay
<1>2. tabs' \in [Tabs -> [address : Addresses, conversation : MaybeConversation,
                          busy : BOOLEAN]]
  BY FreedTyped DEF Refuse
<1>3. ChatInv'
  BY <1>1, ChatStep
<1>4. ChatTypeOK'
  BY <1>1, <1>2 DEF Refuse, serverVars, ChatTypeOK
<1> QED BY <1>3, <1>4

\* Types and conversations: however many tabs, wallets, conversations and
\* requests there are, what is written stays with the wallet that sent it, and
\* a wallet that asks for its own conversation gets it.
THEOREM ChatsStayPrivate == ChatSpec => [](ChatTypeOK /\ ConversationsArePrivate)
<1>1. ASSUME ChatTypeOK, ChatInv, [ChatNext]_chatVars
      PROVE  ChatTypeOK' /\ ChatInv'
  <2>1. CASE UNCHANGED chatVars
    <3>1. OwnersStay /\ written' = written /\ posts' = posts
      BY <2>1 DEF chatVars, OwnersStay
    <3> QED BY <1>1, <2>1, <3>1, ChatStep DEF chatVars, ChatTypeOK
  <2>2. ASSUME NEW t \in Tabs, Mount(t) \/ SendMessage(t)
        PROVE  ChatTypeOK' /\ ChatInv'
    <3>1. storage.address \in Addresses
      BY <1>1 DEF ChatTypeOK
    <3> QED BY <1>1, <2>2, <3>1, BrowserKeeps
  <2>3. ASSUME NEW t \in Tabs, NEW address \in Addresses, SetWalletAddress(t, address)
        PROVE  ChatTypeOK' /\ ChatInv'
    BY <1>1, <2>3, BrowserKeeps
  <2>4. ASSUME NEW p \in posts, Hear(p) \/ HearEnd(p) \/ Leave(p) \/ RouteStep(p)
        PROVE  ChatTypeOK' /\ ChatInv'
    <3>1. CASE Hear(p) \/ HearEnd(p) \/ Leave(p)
      BY <1>1, <3>1, ClientKeeps
    <3>2. CASE Refuse(p)
      BY <1>1, <3>2, RefuseKeeps
    <3>3. CASE FindMember(p) \/ CreateMember(p) \/ FindConversation(p) \/ Reread(p)
      BY <1>1, <3>3, LookupKeeps
    <3>4. CASE CreateAsked(p) \/ Mint(p)
      BY <1>1, <3>4, InsertKeeps
    <3>5. CASE \E stored \in BOOLEAN : SaveQuestion(p, stored) \/ OnFinish(p, stored)
      BY <1>1, <3>5, WriteKeeps
    <3>6. CASE ChatProposal(p)
      BY <1>1, <3>6, WriteKeeps
    <3> QED BY <2>4, <3>1, <3>2, <3>3, <3>4, <3>5, <3>6 DEF RouteStep
  <2> QED BY <1>1, <2>1, <2>2, <2>3, <2>4 DEF ChatNext
<1>2. ChatTypeOK /\ ChatInv => ConversationsArePrivate
  <2> SUFFICES ASSUME ChatTypeOK, ChatInv PROVE ConversationsArePrivate
    OBVIOUS
  <2>1. ASSUME NEW p \in posts, p.conversation # NoConversation
        PROVE  /\ owner[p.conversation] = p.address
               /\ p.asked \notin Shared \cup {NoConversation} /\ owner[p.asked] = p.address
                     => p.conversation = p.asked
    BY <2>1 DEF ChatInv, PostKnows, Elsewhere
  <2> QED BY <2>1 DEF ConversationsArePrivate, ChatInv, WrittenInOwn
<1> QED BY <1>1, <1>2, ChatInitial, PTL DEF ChatSpec

--------------------------------------------------------------------------------
(* Reports and the library *)

\* The fetches of onSave.
Saving == {"save", "create"}

\* What an answer says was true of the rows when it was given, and rows stay.
AnswerTrue(c) ==
    /\ c.kind \in {"check", "save"} => c.id \in Snapshots
    /\ c.kind = "create" => c.id = NoSnapshot
    /\ c.saved /\ c.kind \in {"page", "check"} => c.id \in kept
    /\ c.answer = "ok" /\ c.kind = "page" =>
          /\ \A id \in c.items : holder[id] = c.wallet
          /\ IF c.id = NoSnapshot THEN c.items \subseteq kept ELSE c.items = {c.id}
    /\ c.answer = "ok" /\ c.kind \in Saving => c.items \subseteq kept
    /\ c.answer = "ok" /\ c.kind = "save" => c.items = {c.id}

\* A fetch that is not cancelled is for what the page or the widget is now.
StillWanted(c) ==
    c.live =>
       /\ c.kind = "page" => /\ screen.page # "chat" /\ screen.loading
                             /\ c.wallet = wallet /\ c.id = screen.id
       /\ c.kind # "page" => widget.shown /\ widget.id = c.id
       /\ c.kind \in Saving => widget.saving

SameJob(c, d) == \/ c.kind = "page" /\ d.kind = "page"
                 \/ c.kind \in Saving /\ d.kind \in Saving

\* One load of the page at a time, and one save of the widget.
OneOfEach == \A c, d \in calls : c.live /\ d.live /\ SameJob(c, d) => c = d

ScreenInv ==
    /\ screen.page = "report" <=> screen.id # NoSnapshot
    /\ screen.page # "chat" /\ screen.loading => ~widget.shown
    /\ widget.shown \/ widget = NoWidget

CallsInv == \A c \in calls : AnswerTrue(c) /\ StillWanted(c)

LibraryInv == ShownIsCurrent /\ ScreenInv /\ OneOfEach /\ CallsInv

\* Snapshots keep their user and are not taken out of the library.
RowsStay ==
    /\ kept \subseteq kept'
    /\ \A id \in Snapshots : holder[id] = NoSnapshot \/ holder'[id] = holder[id]

\* No id is no snapshot, and no wallet.
LEMMA NoSnapshotIsNone == NoSnapshot \notin Snapshots /\ NoSnapshot \notin Holders
BY LibraryAssumption

\* In the first state nothing is shown, asked or saved.
LEMMA LibraryInitial == LibraryInit => LibraryTypeOK /\ LibraryInv
<1> SUFFICES ASSUME LibraryInit PROVE LibraryTypeOK /\ LibraryInv
  OBVIOUS
<1>1. LibraryTypeOK
  BY DEF LibraryInit, LibraryTypeOK, Screen, Widget, NoWidget, Pages, MaybeSnapshot
<1>2. LibraryInv
  BY NoSnapshotIsNone DEF LibraryInit, LibraryInv, ShownIsCurrent, PageIsShown, ScreenInv, OneOfEach, CallsInv, NoWidget
<1> QED BY <1>1, <1>2

\* An answer stays true, because rows do.
LEMMA TruthStays ==
    ASSUME NEW c \in Call, AnswerTrue(c), RowsStay
    PROVE  AnswerTrue(c)'
<1>1. c.wallet \in Holders /\ c.items \subseteq Snapshots
  BY DEF Call
<1>2. \A id \in c.items : holder[id] = c.wallet => holder'[id] = c.wallet
  BY <1>1, NoSnapshotIsNone DEF RowsStay
<1>3. kept \subseteq kept'
  BY DEF RowsStay
<1> QED BY <1>2, <1>3 DEF AnswerTrue

\* So does what is shown, in a step of the routes.
LEMMA ShownStays ==
    ASSUME LibraryTypeOK, ShownIsCurrent, RowsStay, UNCHANGED <<wallet, screen, widget>>
    PROVE  ShownIsCurrent'
<1>1. screen.items \subseteq Snapshots /\ wallet \in Holders
  BY DEF LibraryTypeOK, Screen
<1>2. \A id \in screen.items : holder[id] = wallet => holder'[id] = wallet
  BY <1>1, NoSnapshotIsNone DEF RowsStay
<1> QED BY <1>1, <1>2 DEF ShownIsCurrent, PageIsShown, RowsStay

\* What the cleanup of an effect leaves.
LEMMA CancelledOf ==
    ASSUME LibraryTypeOK, LibraryInv, NEW kinds, NEW d \in Cancelled(calls, kinds)
    PROVE  d \in Call /\ AnswerTrue(d) /\ (d.live => d \in calls /\ d.kind \notin kinds)
<1>1. PICK c \in calls : d = [c EXCEPT !.live = c.live /\ c.kind \notin kinds]
  BY DEF Cancelled
<1>2. c \in Call /\ AnswerTrue(c)
  BY DEF LibraryTypeOK, LibraryInv, CallsInv
<1> DEFINE on == c.live /\ c.kind \notin kinds
<1>3. on \in BOOLEAN
  OBVIOUS
<1>4. d = [c EXCEPT !.live = on]
  BY <1>1
<1>5. on => c.live /\ c.kind \notin kinds
  OBVIOUS
<1> HIDE DEF on
<1>6. /\ d \in Call /\ d.live = on /\ d.kind = c.kind /\ d.wallet = c.wallet /\ d.id = c.id
      /\ d.answer = c.answer /\ d.items = c.items /\ d.saved = c.saved
  BY <1>2, <1>3, <1>4 DEF Call
<1>7. AnswerTrue(d)
  BY <1>2, <1>6 DEF AnswerTrue
<1>8. ASSUME on PROVE d = c
  <2>1. on = TRUE /\ c.live = TRUE
    BY <1>2, <1>3, <1>5, <1>8 DEF Call
  <2> QED BY <1>2, <1>4, <2>1 DEF Call
<1> QED BY <1>5, <1>6, <1>7, <1>8

\* A fetch that has just been sent claims nothing.
LEMMA SentOf ==
    ASSUME NEW kind \in CallKinds, NEW address \in Holders, NEW id \in MaybeSnapshot,
           kind \in {"check", "save"} => id \in Snapshots,
           kind = "create" => id = NoSnapshot,
           NEW c, c = Sent(kind, address, id)
    PROVE  /\ c \in Call /\ AnswerTrue(c) /\ AnswerTrue(c)'
           /\ c.kind = kind /\ c.wallet = address /\ c.id = id /\ c.live
BY DEF Sent, Call, AnswerTrue, Outcomes, Saving

\* And the check of a widget asks for the report the widget has.
LEMMA CheckOf ==
    ASSUME NEW address \in Holders, NEW id \in MaybeSnapshot, NEW c \in Check(address, id)
    PROVE  /\ c \in Call /\ AnswerTrue(c) /\ AnswerTrue(c)'
           /\ c.kind = "check" /\ c.id = id
<1>1. c = Sent("check", address, id) /\ id \in Snapshots
  BY DEF Check, MaybeSnapshot
<1> QED BY <1>1, SentOf DEF CallKinds

--------------------------------------------------------------------------------
\* The page starts to load for a wallet and a report, or the chat is opened.
LoadBegun ==
    /\ wallet' \in Holders /\ screen' \in Screen /\ widget' = NoWidget /\ UNCHANGED rowVars
    /\ screen'.page = "report" <=> screen'.id # NoSnapshot
    /\ screen'.page # "chat" => screen'.loading

\* Nothing but that load is wanted any more.
LEMMA LoadKeeps ==
    ASSUME LibraryTypeOK, LibraryInv,
           \/ \E page \in Pages, id \in MaybeSnapshot : Open(page, id)
           \/ \E address \in Holders : SwitchOnPage(address)
    PROVE  LibraryTypeOK' /\ LibraryInv'
<1>1. LoadBegun
  <2>1. ASSUME NEW page \in Pages, NEW id \in MaybeSnapshot, Open(page, id)
        PROVE  LoadBegun
    BY <2>1 DEF Open, LoadBegun, LibraryTypeOK, Screen
  <2>2. ASSUME NEW address \in Holders, SwitchOnPage(address)
        PROVE  LoadBegun
    BY <2>2 DEF SwitchOnPage, LoadBegun, LibraryTypeOK, Screen, LibraryInv, ScreenInv
  <2> QED BY <2>1, <2>2
<1>2. ASSUME NEW c \in calls'
      PROVE  \/ c \in Cancelled(calls, CallKinds)
             \/ screen'.page # "chat" /\ c = Sent("page", wallet', screen'.id)
  <2>1. ASSUME NEW page \in Pages, NEW id \in MaybeSnapshot, Open(page, id)
        PROVE  \/ c \in Cancelled(calls, CallKinds)
               \/ screen'.page # "chat" /\ c = Sent("page", wallet', screen'.id)
    BY <2>1 DEF Open
  <2>2. ASSUME NEW address \in Holders, SwitchOnPage(address)
        PROVE  \/ c \in Cancelled(calls, CallKinds)
               \/ screen'.page # "chat" /\ c = Sent("page", wallet', screen'.id)
    <3>1. screen'.page = screen.page /\ screen'.id = screen.id /\ wallet' = address
      BY <2>2 DEF SwitchOnPage, LibraryTypeOK, Screen
    <3> QED BY <2>2, <3>1 DEF SwitchOnPage
  <2> QED BY <2>1, <2>2
<1>3. RowsStay
  BY <1>1 DEF LoadBegun, RowsStay, rowVars
<1>4. screen'.id \in MaybeSnapshot
  BY <1>1 DEF LoadBegun, Screen
<1>5. ASSUME NEW c \in calls'
      PROVE  /\ c \in Call /\ AnswerTrue(c)'
             /\ c.live => /\ screen'.page # "chat" /\ c = Sent("page", wallet', screen'.id)
                          /\ c.kind = "page" /\ c.wallet = wallet' /\ c.id = screen'.id
  <2>1. CASE c \in Cancelled(calls, CallKinds)
    <3>1. c \in Call /\ AnswerTrue(c) /\ ~c.live
      BY <2>1, CancelledOf DEF Call
    <3> QED BY <1>3, <3>1, TruthStays
  <2>2. CASE screen'.page # "chat" /\ c = Sent("page", wallet', screen'.id)
    BY <1>1, <1>4, <2>2, SentOf DEF LoadBegun, CallKinds
  <2> QED BY <1>2, <2>1, <2>2
<1>6. LibraryTypeOK'
  BY <1>1, <1>5 DEF LoadBegun, LibraryTypeOK, rowVars, NoWidget, Widget, MaybeSnapshot
<1>7. OneOfEach'
  BY <1>5 DEF OneOfEach
<1>8. CallsInv'
  BY <1>1, <1>5 DEF LoadBegun, CallsInv, StillWanted, Saving
<1>9. ShownIsCurrent' /\ ScreenInv'
  <2>1. ~PageIsShown' /\ ~widget'.saved /\ ~widget'.shown
    BY <1>1 DEF LoadBegun, PageIsShown, NoWidget
  <2> QED BY <1>1, <2>1 DEF LoadBegun, ShownIsCurrent, ScreenInv
<1> QED BY <1>6, <1>7, <1>8, <1>9 DEF LibraryInv

\* In the chat no page loads, and without a widget nothing is wanted.
LEMMA WantedInChat ==
    ASSUME LibraryTypeOK, LibraryInv, screen.page = "chat", NEW c \in calls, c.live
    PROVE  c.kind \in Saving \cup {"check"} /\ widget.shown
<1>1. c \in Call /\ StillWanted(c)
  BY DEF LibraryTypeOK, LibraryInv, CallsInv
<1> QED BY <1>1 DEF StillWanted, Call, CallKinds, Saving

\* In the chat a switch of the wallet cancels the check and leaves a save alone.
LEMMA SwitchInChatKeeps ==
    ASSUME LibraryTypeOK, LibraryInv, NEW address \in Holders, SwitchInChat(address)
    PROVE  LibraryTypeOK' /\ LibraryInv'
<1>1. screen.page = "chat" /\ wallet' = address /\ UNCHANGED <<rowVars, screen, widget>>
  BY DEF SwitchInChat
<1>2. RowsStay /\ widget.id \in MaybeSnapshot
  BY <1>1 DEF RowsStay, rowVars, LibraryTypeOK, Widget
<1>3. ASSUME NEW c \in calls'
      PROVE  /\ c \in Call /\ AnswerTrue(c)'
             /\ c.live => \/ c \in calls /\ c.kind \in Saving
                          \/ c.kind = "check" /\ widget.shown /\ c.id = widget.id
  <2>1. CASE c \in Cancelled(calls, {"check"})
    <3>1. c \in Call /\ AnswerTrue(c) /\ (c.live => c \in calls /\ c.kind # "check")
      BY <2>1, CancelledOf
    <3> QED BY <1>1, <1>2, <3>1, TruthStays, WantedInChat
  <2>2. CASE c \in Check(address, widget.id)
    <3>1. widget.id # NoSnapshot
      BY <2>2 DEF Check
    <3>2. widget.shown
      BY <3>1 DEF LibraryInv, ScreenInv, NoWidget
    <3> QED BY <1>2, <2>2, <3>2, CheckOf
  <2>3. c \in Cancelled(calls, {"check"}) \/ c \in Check(address, widget.id)
    BY DEF SwitchInChat
  <2> QED BY <2>1, <2>2, <2>3
<1>4. LibraryTypeOK'
  BY <1>1, <1>3 DEF LibraryTypeOK, rowVars
<1>5. OneOfEach'
  BY <1>3 DEF OneOfEach, LibraryInv, SameJob, Saving
<1>6. CallsInv'
  <2> SUFFICES ASSUME NEW c \in calls' PROVE StillWanted(c)'
    BY <1>3 DEF CallsInv
  <2>1. CASE c \in calls /\ c.kind \in Saving
    BY <1>1, <2>1 DEF LibraryInv, CallsInv, StillWanted, Saving
  <2>2. CASE c.kind = "check" /\ widget.shown /\ c.id = widget.id
    BY <1>1, <2>2 DEF StillWanted, Saving
  <2> QED BY <1>3, <2>1, <2>2 DEF StillWanted
<1>7. ShownIsCurrent' /\ ScreenInv'
  BY <1>1 DEF ShownIsCurrent, ScreenInv, LibraryInv, PageIsShown, rowVars
<1> QED BY <1>4, <1>5, <1>6, <1>7 DEF LibraryInv

\* The report of a tool brings a widget where there was none.
LEMMA ToolAnswersKeeps ==
    ASSUME LibraryTypeOK, LibraryInv, NEW address \in Holders, NEW stored \in BOOLEAN,
           ToolAnswers(address, stored)
    PROVE  LibraryTypeOK' /\ LibraryInv'
<1>1. screen.page = "chat" /\ ~widget.shown /\ UNCHANGED <<kept, wallet, screen>>
  BY DEF ToolAnswers
<1>2. PICK id \in MaybeSnapshot :
        /\ \/ id \in Snapshots /\ holder[id] = NoSnapshot
              /\ holder' = [holder EXCEPT ![id] = address]
           \/ UNCHANGED holder
        /\ widget' = [NoWidget EXCEPT !.shown = TRUE, !.id = id]
        /\ calls' = calls \cup Check(wallet, id)
  BY DEF ToolAnswers, MaybeSnapshot
<1>3. RowsStay /\ holder' \in [Snapshots -> Holders \cup {NoSnapshot}] /\ wallet \in Holders
  BY <1>1, <1>2 DEF RowsStay, LibraryTypeOK
<1>4. /\ widget' \in Widget /\ widget'.shown /\ widget'.id = id /\ ~widget'.saved
      /\ screen' = screen
  BY <1>1, <1>2 DEF NoWidget, Widget
<1>5. ASSUME NEW c \in calls'
      PROVE  /\ c \in Call /\ AnswerTrue(c)'
             /\ c.live => c.kind = "check" /\ c.id = id
  <2>1. CASE c \in calls
    <3>1. c \in Call /\ AnswerTrue(c)
      BY <2>1 DEF LibraryTypeOK, LibraryInv, CallsInv
    <3>2. ~c.live
      BY <1>1, <2>1, WantedInChat
    <3> QED BY <1>3, <3>1, <3>2, TruthStays
  <2>2. CASE c \in Check(wallet, id)
    BY <1>3, <2>2, CheckOf
  <2> QED BY <1>2, <2>1, <2>2
<1>6. LibraryTypeOK'
  BY <1>1, <1>3, <1>4, <1>5 DEF LibraryTypeOK
<1>7. OneOfEach'
  BY <1>5 DEF OneOfEach, SameJob, Saving
<1>8. CallsInv'
  BY <1>4, <1>5 DEF CallsInv, StillWanted, Saving
<1>9. ShownIsCurrent' /\ ScreenInv'
  BY <1>1, <1>4 DEF ShownIsCurrent, ScreenInv, LibraryInv, PageIsShown
<1> QED BY <1>6, <1>7, <1>8, <1>9 DEF LibraryInv

\* A click sends a save when none is under way.
LEMMA OnSaveKeeps ==
    ASSUME LibraryTypeOK, LibraryInv, OnSave
    PROVE  LibraryTypeOK' /\ LibraryInv'
<1>1. /\ widget.shown /\ ~widget.saving /\ ~widget.saved /\ widget \in Widget
      /\ widget' = [widget EXCEPT !.saving = TRUE]
      /\ UNCHANGED <<rowVars, wallet, screen>>
  BY DEF OnSave, LibraryTypeOK
<1>2. PICK new : new = Sent(IF widget.id = NoSnapshot THEN "create" ELSE "save", wallet, widget.id)
  OBVIOUS
<1>3. wallet \in Holders /\ widget.id \in MaybeSnapshot
  BY <1>1 DEF LibraryTypeOK, Widget
<1>4. /\ new \in Call /\ AnswerTrue(new)'
      /\ new.kind \in Saving /\ new.id = widget.id /\ new.live
  <2>1. CASE widget.id = NoSnapshot
    BY <1>2, <1>3, <2>1, SentOf DEF Saving, CallKinds
  <2>2. CASE widget.id # NoSnapshot
    BY <1>2, <1>3, <2>2, SentOf DEF Saving, CallKinds, MaybeSnapshot
  <2> QED BY <2>1, <2>2
<1>5. /\ widget' \in Widget /\ widget'.shown /\ widget'.saving /\ ~widget'.saved
      /\ widget'.id = widget.id
  BY <1>1 DEF Widget
<1>6. calls' = calls \cup {new}
  BY <1>2 DEF OnSave
<1>7. RowsStay
  BY <1>1 DEF RowsStay, rowVars
<1>8. ASSUME NEW c \in calls
      PROVE  c \in Call /\ AnswerTrue(c)' /\ StillWanted(c)' /\ (c.live => c.kind \notin Saving)
  <2>1. c \in Call /\ AnswerTrue(c) /\ StillWanted(c)
    BY DEF LibraryTypeOK, LibraryInv, CallsInv
  <2>2. c.live => c.kind \notin Saving
    BY <1>1, <2>1 DEF StillWanted
  <2>3. StillWanted(c)'
    BY <1>1, <1>5, <2>1 DEF StillWanted
  <2> QED BY <1>7, <2>1, <2>2, <2>3, TruthStays
<1>9. LibraryTypeOK'
  BY <1>1, <1>4, <1>5, <1>6 DEF LibraryTypeOK, rowVars
<1>10. OneOfEach'
  BY <1>4, <1>6, <1>8 DEF OneOfEach, LibraryInv, SameJob, Saving
<1>11. CallsInv'
  <2>1. StillWanted(new)'
    BY <1>1, <1>4, <1>5 DEF StillWanted, Saving
  <2> QED BY <1>4, <1>6, <1>8, <2>1 DEF CallsInv
<1>12. ShownIsCurrent' /\ ScreenInv'
  <2>1. screen.page # "chat" => ~screen.loading
    BY <1>1 DEF LibraryInv, ScreenInv
  <2> QED BY <1>1, <1>5, <2>1 DEF ShownIsCurrent, ScreenInv, LibraryInv, PageIsShown, rowVars
<1> QED BY <1>9, <1>10, <1>11, <1>12 DEF LibraryInv

--------------------------------------------------------------------------------
\* A route answers: the same fetch, with an answer that is true.
LEMMA ReplyKeeps ==
    ASSUME LibraryTypeOK, LibraryInv, NEW c \in calls, NEW answer \in Outcomes,
           NEW items \in SUBSET Snapshots, NEW saved \in BOOLEAN, Reply(c, answer, items, saved),
           RowsStay, UNCHANGED <<wallet, screen, widget>>,
           holder' \in [Snapshots -> Holders \cup {NoSnapshot}], kept' \subseteq Snapshots,
           NEW d, d = [c EXCEPT !.answer = answer, !.items = items, !.saved = saved],
           AnswerTrue(d)'
    PROVE  LibraryTypeOK' /\ LibraryInv'
<1>1. c \in Call /\ StillWanted(c)
  BY DEF LibraryTypeOK, LibraryInv, CallsInv
<1>2. d \in Call /\ d.kind = c.kind /\ d.wallet = c.wallet /\ d.id = c.id /\ d.live = c.live
  BY <1>1 DEF Call
<1>3. calls' = (calls \ {c}) \cup {d}
  BY DEF Reply
<1>4. ASSUME NEW x \in calls PROVE x \in Call /\ AnswerTrue(x)' /\ StillWanted(x)'
  <2>1. x \in Call /\ AnswerTrue(x) /\ StillWanted(x)
    BY DEF LibraryTypeOK, LibraryInv, CallsInv
  <2> QED BY <2>1, TruthStays DEF StillWanted
<1>5. StillWanted(d)'
  BY <1>1, <1>2 DEF StillWanted
<1>6. OneOfEach'
  <2>1. ASSUME NEW x \in calls \ {c}, x.live, d.live, SameJob(x, d) \/ SameJob(d, x) PROVE FALSE
    <3>1. SameJob(x, c)
      BY <1>2, <2>1 DEF SameJob
    <3> QED BY <1>2, <2>1, <3>1 DEF LibraryInv, OneOfEach
  <2>2. ASSUME NEW x \in calls', NEW y \in calls', x.live, y.live, SameJob(x, y), x # y
        PROVE  FALSE
    <3>1. CASE x = d \/ y = d
      BY <1>3, <2>1, <2>2, <3>1
    <3>2. CASE x # d /\ y # d
      BY <1>3, <2>2, <3>2 DEF LibraryInv, OneOfEach
    <3> QED BY <3>1, <3>2
  <2> QED BY <2>2 DEF OneOfEach
<1>7. CallsInv' /\ LibraryTypeOK'
  BY <1>2, <1>3, <1>4, <1>5 DEF CallsInv, LibraryTypeOK
<1>8. ShownIsCurrent' /\ ScreenInv'
  BY ShownStays DEF LibraryInv, ScreenInv
<1> QED BY <1>6, <1>7, <1>8 DEF LibraryInv

\* Whatever the route answers is true of the rows it leaves.
LEMMA RouteKeeps ==
    ASSUME LibraryTypeOK, LibraryInv, NEW c \in calls, RouteAnswers(c)
    PROVE  LibraryTypeOK' /\ LibraryInv'
<1>1. c \in Call /\ AnswerTrue(c)
  BY DEF LibraryTypeOK, LibraryInv, CallsInv
<1>2. c.id \in MaybeSnapshot /\ c.wallet \in Holders /\ c.kind \in CallKinds
  BY <1>1 DEF Call
<1>3. UNCHANGED <<wallet, screen, widget>>
  BY DEF RouteAnswers, GetReport, GetLibrary, MarkSaved, CreateReport, CallFails
\* It is enough to find the answer, and that it is true of the rows it leaves.
<1>4. ASSUME NEW answer \in Outcomes, NEW items \in SUBSET Snapshots, NEW saved \in BOOLEAN,
             Reply(c, answer, items, saved), RowsStay,
             holder' \in [Snapshots -> Holders \cup {NoSnapshot}], kept' \subseteq Snapshots,
             saved /\ c.kind \in {"page", "check"} => c.id \in kept',
             answer = "ok" /\ c.kind = "page" =>
                /\ \A id \in items : holder'[id] = c.wallet
                /\ IF c.id = NoSnapshot THEN items \subseteq kept' ELSE items = {c.id},
             answer = "ok" /\ c.kind \in Saving => items \subseteq kept',
             answer = "ok" /\ c.kind = "save" => items = {c.id}
      PROVE  LibraryTypeOK' /\ LibraryInv'
  <2> PICK d : d = [c EXCEPT !.answer = answer, !.items = items, !.saved = saved]
    OBVIOUS
  <2>1. /\ d.kind = c.kind /\ d.wallet = c.wallet /\ d.id = c.id
        /\ d.answer = answer /\ d.items = items /\ d.saved = saved
    BY <1>1 DEF Call
  <2>2. AnswerTrue(d)'
    BY <1>1, <1>4, <2>1 DEF AnswerTrue
  <2> QED BY <1>3, <1>4, <2>2, ReplyKeeps
<1>5. ASSUME Reply(c, "error", {}, FALSE), UNCHANGED rowVars
      PROVE  LibraryTypeOK' /\ LibraryInv'
  <2>1. /\ RowsStay /\ holder' \in [Snapshots -> Holders \cup {NoSnapshot}]
        /\ kept' \subseteq Snapshots
    BY <1>5 DEF RowsStay, rowVars, LibraryTypeOK
  <2> QED BY <1>4, <1>5, <2>1 DEF Outcomes
<1>6. CASE GetReport(c)
  <2>1. c.id \in Snapshots /\ UNCHANGED rowVars /\ c.kind \notin Saving /\ c.id # NoSnapshot
    BY <1>2, <1>6 DEF GetReport, MaybeSnapshot, Saving
  <2>2. CASE holder[c.id] = c.wallet
    <3>1. Reply(c, "ok", {c.id}, c.id \in kept)
      BY <1>6, <2>2 DEF GetReport, IsFound
    <3> DEFINE saved == c.id \in kept
    <3>2. saved \in BOOLEAN /\ (saved => c.id \in kept) /\ Reply(c, "ok", {c.id}, saved)
      BY <3>1
    <3> HIDE DEF saved
    <3>3. /\ RowsStay /\ holder' \in [Snapshots -> Holders \cup {NoSnapshot}]
          /\ kept' \subseteq Snapshots /\ holder' = holder /\ kept' = kept
      BY <2>1 DEF RowsStay, rowVars, LibraryTypeOK
    <3>4. saved => c.id \in kept'
      BY <3>2, <3>3
    <3> QED BY <1>4, <2>1, <2>2, <3>1, <3>2, <3>3, <3>4 DEF Outcomes, Saving
  <2>3. CASE holder[c.id] # c.wallet
    BY <1>5, <1>6, <2>1, <2>3 DEF GetReport, IsFound
  <2> QED BY <2>2, <2>3
<1>7. CASE GetLibrary(c)
  <2> PICK items : items = SavedOf(c.wallet)
    OBVIOUS
  <2>1. Reply(c, "ok", items, FALSE) /\ UNCHANGED rowVars /\ c.kind = "page" /\ c.id = NoSnapshot
    BY <1>7 DEF GetLibrary
  <2>2. /\ RowsStay /\ holder' \in [Snapshots -> Holders \cup {NoSnapshot}]
        /\ kept' \subseteq Snapshots /\ holder' = holder /\ kept' = kept
    BY <2>1 DEF RowsStay, rowVars, LibraryTypeOK
  <2>3. items \in SUBSET Snapshots /\ items \subseteq kept' /\ \A id \in items : holder'[id] = c.wallet
    BY <2>2 DEF SavedOf
  <2> QED BY <1>4, <2>1, <2>2, <2>3 DEF Outcomes, Saving
<1>8. CASE MarkSaved(c)
  <2>1. c.id \in Snapshots /\ c.kind = "save" /\ holder' = holder
    BY <1>1, <1>8 DEF MarkSaved, AnswerTrue
  <2>2. CASE holder[c.id] = c.wallet
    <3>1. kept' = kept \cup {c.id} /\ Reply(c, "ok", {c.id}, TRUE)
      BY <1>8, <2>2 DEF MarkSaved, IsFound
    <3>2. /\ RowsStay /\ holder' \in [Snapshots -> Holders \cup {NoSnapshot}]
          /\ kept' \subseteq Snapshots /\ {c.id} \in SUBSET Snapshots /\ {c.id} \subseteq kept'
      BY <2>1, <3>1 DEF RowsStay, LibraryTypeOK
    <3> QED BY <1>4, <2>1, <3>1, <3>2 DEF Outcomes
  <2>3. CASE holder[c.id] # c.wallet
    BY <1>5, <1>8, <2>1, <2>3 DEF MarkSaved, IsFound, rowVars
  <2> QED BY <2>2, <2>3
<1>9. CASE CreateReport(c)
  <2>1. PICK id \in Snapshots :
          /\ holder[id] = NoSnapshot
          /\ holder' = [holder EXCEPT ![id] = c.wallet]
          /\ kept' = kept \cup {id}
          /\ Reply(c, "ok", {id}, TRUE)
    BY <1>9 DEF CreateReport
  <2>2. c.kind = "create"
    BY <1>9 DEF CreateReport
  <2>3. /\ RowsStay /\ holder' \in [Snapshots -> Holders \cup {NoSnapshot}]
        /\ kept' \subseteq Snapshots /\ {id} \in SUBSET Snapshots /\ {id} \subseteq kept'
    BY <1>2, <2>1 DEF RowsStay, LibraryTypeOK
  <2> QED BY <1>4, <2>1, <2>2, <2>3 DEF Outcomes
<1>10. CASE CallFails(c)
  BY <1>5, <1>10 DEF CallFails
<1> QED BY <1>6, <1>7, <1>8, <1>9, <1>10 DEF RouteAnswers

--------------------------------------------------------------------------------
\* An answer is taken, and perhaps a check is sent.
LEMMA TakenKeeps ==
    ASSUME LibraryTypeOK, LibraryInv, NEW c \in calls, NEW added,
           calls' = (calls \ {c}) \cup added,
           \A a \in added : a \in Call /\ AnswerTrue(a)' /\ a.kind = "check" /\ StillWanted(a)',
           \A d \in calls \ {c} : StillWanted(d)',
           UNCHANGED <<rowVars, wallet>>, screen' \in Screen, widget' \in Widget,
           ShownIsCurrent', ScreenInv'
    PROVE  LibraryTypeOK' /\ LibraryInv'
<1>1. RowsStay
  BY DEF RowsStay, rowVars
<1>2. \A d \in calls : d \in Call /\ AnswerTrue(d)
  BY DEF LibraryTypeOK, LibraryInv, CallsInv
<1>3. \A d \in calls : AnswerTrue(d)'
  BY <1>1, <1>2, TruthStays
<1>4. LibraryTypeOK' /\ CallsInv'
  BY <1>2, <1>3 DEF LibraryTypeOK, CallsInv, rowVars
<1>5. OneOfEach'
  BY DEF OneOfEach, LibraryInv, SameJob, Saving
<1> QED BY <1>4, <1>5 DEF LibraryInv

\* While a page loads, no other fetch is wanted.
LEMMA PageAlone ==
    ASSUME LibraryTypeOK, LibraryInv, NEW c \in calls, c.live, c.kind = "page"
    PROVE  /\ screen.page # "chat" /\ screen.loading /\ c.wallet = wallet /\ c.id = screen.id
           /\ widget = NoWidget /\ \A d \in calls \ {c} : ~d.live
<1>1. \A d \in calls : d \in Call /\ StillWanted(d)
  BY DEF LibraryTypeOK, LibraryInv, CallsInv
<1>2. screen.page # "chat" /\ screen.loading /\ c.wallet = wallet /\ c.id = screen.id
  BY <1>1 DEF StillWanted
<1>3. ~widget.shown /\ widget = NoWidget
  BY <1>2 DEF LibraryInv, ScreenInv
<1>4. ASSUME NEW d \in calls \ {c}, d.live PROVE FALSE
  <2>1. d.kind = "page"
    BY <1>1, <1>3, <1>4 DEF StillWanted
  <2> QED BY <1>4, <2>1 DEF LibraryInv, OneOfEach, SameJob
<1> QED BY <1>2, <1>3, <1>4

\* The answer of the only load there is replaces what the page shows.
LEMMA ReceivePageKeeps ==
    ASSUME LibraryTypeOK, LibraryInv, NEW c \in calls, ReceivePage(c) \/ ReceivePageError(c)
    PROVE  LibraryTypeOK' /\ LibraryInv'
<1> PICK none : none = {}
  OBVIOUS
<1>1. c \in Call /\ AnswerTrue(c) /\ c.live /\ c.kind = "page"
  BY DEF LibraryTypeOK, LibraryInv, CallsInv, ReceivePage, ReceivePageError
<1>2. /\ screen.page # "chat" /\ c.wallet = wallet /\ c.id = screen.id
      /\ widget = NoWidget /\ \A d \in calls \ {c} : ~d.live
  BY <1>1, PageAlone
<1>3. \A d \in calls \ {c} : StillWanted(d)'
  BY <1>2 DEF StillWanted
<1>4. screen \in Screen /\ wallet \in Holders
  BY DEF LibraryTypeOK
<1>5. CASE ReceivePageError(c)
  <2>1. /\ UNCHANGED <<rowVars, wallet, widget>> /\ calls' = (calls \ {c}) \cup none
        /\ screen' \in Screen /\ screen'.failed /\ ~screen'.loading
        /\ screen'.page = screen.page /\ screen'.id = screen.id
    BY <1>4, <1>5 DEF ReceivePageError, Screen
  <2>2. widget' \in Widget /\ ~widget'.saved
    BY <1>2, <2>1 DEF NoWidget, Widget, MaybeSnapshot
  <2>3. ShownIsCurrent' /\ ScreenInv'
    BY <1>2, <2>1, <2>2 DEF ShownIsCurrent, ScreenInv, PageIsShown, LibraryInv
  <2> QED BY <1>3, <2>1, <2>2, <2>3, TakenKeeps
<1>6. CASE ReceivePage(c)
  <2> PICK added : added = Check(wallet, c.id)
    OBVIOUS
  <2>1. /\ UNCHANGED <<rowVars, wallet>> /\ calls' = (calls \ {c}) \cup added
        /\ screen' = [screen EXCEPT !.loading = FALSE, !.items = c.items] /\ c.answer = "ok"
        /\ widget' = IF c.id = NoSnapshot THEN NoWidget
                     ELSE [NoWidget EXCEPT !.shown = TRUE, !.id = c.id, !.saved = c.saved]
    BY <1>6 DEF ReceivePage
  <2>2. /\ screen' \in Screen /\ ~screen'.loading /\ screen'.items = c.items
        /\ screen'.page = screen.page /\ screen'.id = c.id
    BY <1>1, <1>2, <1>4, <2>1 DEF Screen, Call
  <2>3. /\ widget' \in Widget /\ (widget'.shown \/ widget' = NoWidget)
        /\ c.id # NoSnapshot => widget'.shown /\ widget'.id = c.id
        /\ widget'.saved => c.saved /\ widget'.id = c.id
    BY <1>1, <2>1 DEF NoWidget, Widget, MaybeSnapshot, Call
  <2>4. \A a \in added : a \in Call /\ AnswerTrue(a)' /\ a.kind = "check" /\ a.id = c.id /\ c.id # NoSnapshot
    <3>1. c.id \in MaybeSnapshot
      BY <1>1 DEF Call
    <3>2. c.id = NoSnapshot => added = {}
      BY DEF Check
    <3> QED BY <1>4, <3>1, <3>2, CheckOf
  <2>5. \A a \in added : StillWanted(a)'
    BY <2>3, <2>4 DEF StillWanted, Saving
  <2>6. ScreenInv'
    BY <1>2, <2>2, <2>3 DEF ScreenInv, LibraryInv
  <2>7. ShownIsCurrent'
    <3>1. /\ \A id \in c.items : holder[id] = wallet
          /\ IF c.id = NoSnapshot THEN c.items \subseteq kept ELSE c.items = {c.id}
      BY <1>1, <1>2, <2>1 DEF AnswerTrue
    <3>2. c.saved => c.id \in kept
      BY <1>1 DEF AnswerTrue
    <3>3. screen.page = "report" <=> c.id # NoSnapshot
      BY <1>2 DEF LibraryInv, ScreenInv
    <3>4. UNCHANGED <<holder, kept, wallet>>
      BY <2>1 DEF rowVars
    <3> QED BY <2>2, <2>3, <3>1, <3>2, <3>3, <3>4 DEF ShownIsCurrent
  <2> QED BY <1>3, <2>1, <2>2, <2>3, <2>4, <2>5, <2>6, <2>7, TakenKeeps
<1> QED BY <1>5, <1>6

\* An answer for a widget that is there: nothing loads.
LEMMA WidgetThere ==
    ASSUME LibraryTypeOK, LibraryInv, NEW c \in calls, c.live, c.kind # "page"
    PROVE  /\ widget.shown /\ widget.id = c.id /\ widget \in Widget
           /\ screen.page # "chat" => ~screen.loading
           /\ \A d \in calls : d.live => d.kind # "page" /\ d.id = c.id
<1>1. \A d \in calls : d \in Call /\ StillWanted(d)
  BY DEF LibraryTypeOK, LibraryInv, CallsInv
<1>2. widget.shown /\ widget.id = c.id
  BY <1>1 DEF StillWanted
<1>3. screen.page # "chat" => ~screen.loading
  BY <1>2 DEF LibraryInv, ScreenInv
<1>4. \A d \in calls : d.live => d.kind # "page" /\ d.id = c.id
  BY <1>1, <1>2, <1>3 DEF StillWanted
<1> QED BY <1>2, <1>3, <1>4 DEF LibraryTypeOK

\* A check tells of the report the widget still has.
LEMMA ReceiveCheckKeeps ==
    ASSUME LibraryTypeOK, LibraryInv, NEW c \in calls, ReceiveCheck(c)
    PROVE  LibraryTypeOK' /\ LibraryInv'
<1> PICK none : none = {}
  OBVIOUS
<1>1. /\ c \in Call /\ AnswerTrue(c) /\ c.live /\ c.kind = "check"
      /\ \A d \in calls : StillWanted(d)
  BY DEF LibraryTypeOK, LibraryInv, CallsInv, ReceiveCheck
<1>2. widget.shown /\ widget.id = c.id /\ widget \in Widget
  BY <1>1, WidgetThere
<1>3. /\ UNCHANGED <<rowVars, wallet, screen>> /\ calls' = (calls \ {c}) \cup none
      /\ widget' = [widget EXCEPT !.saved = widget.saved \/ c.saved]
  BY DEF ReceiveCheck
<1> DEFINE saved == widget.saved \/ c.saved
<1>4. saved \in BOOLEAN /\ widget' = [widget EXCEPT !.saved = saved] /\ (saved => widget.id \in kept)
  <2>1. c.saved => c.id \in kept
    BY <1>1 DEF AnswerTrue
  <2>2. widget.saved => widget.id \in kept
    BY DEF LibraryInv, ShownIsCurrent
  <2> QED BY <1>2, <1>3, <2>1, <2>2
<1> HIDE DEF saved
<1>5. /\ widget' \in Widget /\ widget'.shown /\ widget'.id = widget.id
      /\ widget'.saving = widget.saving /\ widget'.saved = saved
  BY <1>2, <1>4 DEF Widget
<1>6. \A d \in calls \ {c} : StillWanted(d)'
  BY <1>1, <1>2, <1>3, <1>5 DEF StillWanted
<1>7. ScreenInv' /\ ShownIsCurrent'
  BY <1>2, <1>3, <1>4, <1>5 DEF ScreenInv, ShownIsCurrent, LibraryInv, PageIsShown, rowVars
<1>8. screen' \in Screen
  BY <1>3 DEF LibraryTypeOK
<1> QED BY <1>3, <1>5, <1>6, <1>7, <1>8, TakenKeeps

\* The id a save leaves is the one the checks under way ask for.
LEMMA ReceiveSaveKeeps ==
    ASSUME LibraryTypeOK, LibraryInv, NEW c \in calls, ReceiveSave(c) \/ ReceiveSaveError(c)
    PROVE  LibraryTypeOK' /\ LibraryInv'
<1> PICK none : none = {}
  OBVIOUS
<1>1. /\ c \in Call /\ AnswerTrue(c) /\ c.live /\ c.kind \in Saving
      /\ \A d \in calls : d \in Call /\ AnswerTrue(d) /\ StillWanted(d)
  BY DEF LibraryTypeOK, LibraryInv, CallsInv, ReceiveSave, ReceiveSaveError, Saving
<1>2. /\ widget.shown /\ widget.id = c.id /\ widget \in Widget
      /\ screen.page # "chat" => ~screen.loading
      /\ \A d \in calls : d.live => d.kind # "page" /\ d.id = c.id
  BY <1>1, WidgetThere DEF Saving
<1>3. ASSUME NEW d \in calls \ {c}, d.live PROVE d.kind = "check" /\ c.kind = "save"
  <2>1. d.kind \notin Saving
    BY <1>1, <1>3 DEF LibraryInv, OneOfEach, SameJob
  <2>2. d.kind = "check"
    BY <1>1, <1>2, <1>3, <2>1 DEF Call, CallKinds, Saving
  <2> QED BY <1>1, <1>2, <1>3, <2>2, NoSnapshotIsNone DEF AnswerTrue, Saving
<1>4. /\ UNCHANGED <<rowVars, wallet, screen>> /\ calls' = (calls \ {c}) \cup none
  BY DEF ReceiveSave, ReceiveSaveError
<1>5. PICK id \in MaybeSnapshot, saved \in BOOLEAN :
        /\ widget' = [widget EXCEPT !.id = id, !.saved = saved, !.saving = FALSE]
        /\ saved => id \in kept
        /\ c.kind = "save" => id = c.id
  <2>1. CASE ReceiveSave(c)
    <3>1. PICK id \in c.items :
            widget' = [widget EXCEPT !.id = id, !.saved = TRUE, !.saving = FALSE]
      BY <2>1 DEF ReceiveSave
    <3>2. id \in kept /\ id \in MaybeSnapshot /\ (c.kind = "save" => id = c.id)
      BY <1>1, <2>1 DEF ReceiveSave, AnswerTrue, Saving, Call, MaybeSnapshot
    <3> QED BY <3>1, <3>2
  <2>2. CASE ReceiveSaveError(c)
    <3>1. widget' = [widget EXCEPT !.id = widget.id, !.saved = widget.saved, !.saving = FALSE]
      BY <1>2, <2>2 DEF ReceiveSaveError, Widget
    <3>2. widget.saved \in BOOLEAN /\ widget.id \in MaybeSnapshot
      BY <1>2 DEF Widget
    <3>3. widget.saved => widget.id \in kept
      BY DEF LibraryInv, ShownIsCurrent
    <3> QED BY <1>2, <3>1, <3>2, <3>3
  <2> QED BY <2>1, <2>2
<1>6. /\ widget' \in Widget /\ widget'.shown /\ widget'.id = id /\ widget'.saved = saved
  BY <1>2, <1>5 DEF Widget
<1>7. \A d \in calls \ {c} : StillWanted(d)'
  <2>1. ASSUME NEW d \in calls \ {c}, d.live PROVE d.kind = "check" /\ widget'.id = d.id
    BY <1>2, <1>3, <1>5, <1>6, <2>1
  <2> QED BY <1>6, <2>1 DEF StillWanted, Saving
<1>8. ScreenInv' /\ ShownIsCurrent'
  BY <1>2, <1>4, <1>5, <1>6 DEF ScreenInv, ShownIsCurrent, LibraryInv, PageIsShown, rowVars
<1>9. screen' \in Screen
  BY <1>4 DEF LibraryTypeOK
<1> QED BY <1>4, <1>6, <1>7, <1>8, <1>9, TakenKeeps

\* A cancelled answer changes nothing.
LEMMA IgnoreKeeps ==
    ASSUME LibraryTypeOK, LibraryInv, NEW c \in calls, Ignore(c)
    PROVE  LibraryTypeOK' /\ LibraryInv'
<1> PICK none : none = {}
  OBVIOUS
<1>1. UNCHANGED <<rowVars, wallet, screen, widget>> /\ calls' = (calls \ {c}) \cup none
  BY DEF Ignore
<1>2. \A d \in calls \ {c} : StillWanted(d)'
  BY <1>1 DEF LibraryInv, CallsInv, StillWanted
<1>3. ShownIsCurrent' /\ ScreenInv' /\ screen' \in Screen /\ widget' \in Widget
  BY <1>1 DEF LibraryInv, ScreenInv, ShownIsCurrent, PageIsShown, LibraryTypeOK, rowVars
<1> QED BY <1>1, <1>2, <1>3, TakenKeeps

\* Pages and widget: whatever rows, wallets and fetches there are and in whatever
\* order answers come, what is shown is of the wallet and the report of now, and a
\* report that is said to be saved is.
THEOREM LibraryIsCurrent == LibrarySpec => [](LibraryTypeOK /\ ShownIsCurrent)
<1>1. LibraryTypeOK /\ LibraryInv /\ [LibraryNext]_libraryVars => (LibraryTypeOK /\ LibraryInv)'
  <2> SUFFICES ASSUME LibraryTypeOK, LibraryInv, [LibraryNext]_libraryVars
               PROVE  LibraryTypeOK' /\ LibraryInv'
    OBVIOUS
  <2>1. ASSUME NEW page \in Pages, NEW id \in MaybeSnapshot, Open(page, id)
        PROVE  LibraryTypeOK' /\ LibraryInv'
    BY <2>1, LoadKeeps
  <2>2. ASSUME NEW address \in Holders, SwitchOnPage(address) \/ SwitchInChat(address)
        PROVE  LibraryTypeOK' /\ LibraryInv'
    BY <2>2, LoadKeeps, SwitchInChatKeeps
  <2>3. ASSUME NEW address \in Holders, NEW stored \in BOOLEAN, ToolAnswers(address, stored)
        PROVE  LibraryTypeOK' /\ LibraryInv'
    BY <2>3, ToolAnswersKeeps
  <2>4. CASE OnSave
    BY <2>4, OnSaveKeeps
  <2>5. ASSUME NEW c \in calls, RouteAnswers(c)
        PROVE  LibraryTypeOK' /\ LibraryInv'
    BY <2>5, RouteKeeps
  <2>6. ASSUME NEW c \in calls, ReceiveAnswer(c)
        PROVE  LibraryTypeOK' /\ LibraryInv'
    BY <2>6, IgnoreKeeps, ReceivePageKeeps, ReceiveCheckKeeps, ReceiveSaveKeeps DEF ReceiveAnswer
  <2>7. CASE UNCHANGED libraryVars
    <3>1. UNCHANGED <<holder, kept, wallet, screen, widget, calls>>
      BY <2>7 DEF libraryVars
    <3> QED BY <3>1 DEF LibraryTypeOK, LibraryInv, ShownIsCurrent, PageIsShown, ScreenInv, OneOfEach,
                        CallsInv, AnswerTrue, StillWanted
  <2> QED BY <2>1, <2>2, <2>3, <2>4, <2>5, <2>6, <2>7 DEF LibraryNext
<1>2. LibraryTypeOK /\ LibraryInv => ShownIsCurrent
  BY DEF LibraryInv
<1> QED BY LibraryInitial, <1>1, <1>2, PTL DEF LibrarySpec
================================================================================
