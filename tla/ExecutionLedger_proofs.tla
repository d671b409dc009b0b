------------------------- MODULE ExecutionLedger_proofs -------------------------
(***************************************************************************)
(* Proofs about ExecutionLedger: the types, the accounting of trades, and  *)
(* the origin of what is traded and of what is recorded as CONFIRMED, for  *)
(* any number of rows, users, requests, keepers and crashes.               *)
(***************************************************************************)
EXTENDS ExecutionLedger, FiniteSetTheorems, TLAPS

--------------------------------------------------------------------------------
(* Type correctness.  TypeOK is not inductive: a broadcast names the row the *)
(* keeper works on, so that row must be known to exist.                      *)

\* What each program point of a keeper says of its other fields.
KeeperShape ==
    \A k \in Keepers :
        /\ kp[k].pc \in {"idle", "loop"} => kp[k].row = Null /\ kp[k].tx = Null
        /\ kp[k].pc \in {"resolved", "sent", "settle"} => kp[k].row \in kp[k].batch
        /\ kp[k].pc = "idle" => kp[k].batch = {}
        /\ kp[k].pc = "resolved" => kp[k].tx = Null

\* A request that has read a row knows it.
RequestShape ==
    \A c \in Requests : req[c].pc = "building" => req[c].row \in Rows

TypeInv == TypeOK /\ KeeperShape /\ RequestShape

USE ConstantsAssumption

\* Inserting a row gives it a natural creation time.
LEMMA NowIsNat == Now \in Nat
BY FS_Subset, FS_CardinalityType DEF Now

LEMMA TxNotNull == Null \notin Tx
OBVIOUS

LEMMA TypeInit == Init => TypeInv
BY DEF Init, TypeInv, TypeOK, KeeperShape, RequestShape, Row, Status, AbsentRow,
       Request, Keeper, IdleRequest, IdleKeeper

LEMMA TypeCreate ==
    ASSUME TypeInv, Create
    PROVE  TypeInv'
<1> USE DEF TypeInv
<1>1. PICK u \in Users, r \in Rows :
          \/ \E a \in Amounts : ProposeExecution(u, r, a)
          \/ \E s \in {"PENDING", "LOGGED_PROPOSAL"} : InsertIntent(u, r, s)
  BY DEF Create
<1>2. \E row \in Row : log' = [log EXCEPT ![r] = row]
  <2>1. CASE \E a \in Amounts : ProposeExecution(u, r, a)
    BY <2>1, NowIsNat DEF ProposeExecution, Row, Status, AbsentRow
  <2>2. CASE \E s \in {"PENDING", "LOGGED_PROPOSAL"} : InsertIntent(u, r, s)
    BY <2>2, NowIsNat DEF InsertIntent, Row, Status, AbsentRow
  <2> QED BY <1>1, <2>1, <2>2
<1>3. UNCHANGED <<vaults, req, kp, chainVars, sent, crashes, history>>
  BY <1>1 DEF ProposeExecution, InsertIntent
<1> QED
  BY <1>2, <1>3 DEF TypeOK, KeeperShape, RequestShape, chainVars, history

LEMMA TypeRequest ==
    ASSUME TypeInv, NEW c \in Requests, RequestStep(c)
    PROVE  TypeInv'
<1> USE DEF TypeInv
<1>1. ASSUME NEW u \in Users, NEW r \in Rows, NEW a \in Nat, NEW b \in BOOLEAN,
             ConfirmRead(c, u, r, a, b)
      PROVE  TypeInv'
  <2>1. req' \in [Requests -> Request] /\ RequestShape'
    BY <1>1 DEF ConfirmRead, TypeOK, Request, RequestShape
  <2> QED BY <1>1, <2>1 DEF ConfirmRead, TypeOK, KeeperShape, chainVars, history
<1>2. ASSUME NEW u \in Users, NEW r \in Rows, NEW a \in Amounts,
             ConfirmRoute(c, u, r, a)
      PROVE  TypeInv'
  BY <1>1, <1>2 DEF ConfirmRoute
<1>3. ASSUME NEW u \in Users, NEW r \in Rows, ConfirmTool(c, u, r)
      PROVE  TypeInv'
  <2>1. log[r].amount \in Nat /\ log[r].userConfirmed \in BOOLEAN
    BY DEF TypeOK, Row
  <2> QED BY <1>1, <1>3, <2>1 DEF ConfirmTool
<1>4. CASE ConfirmWrite(c)
  <2>1. req[c] \in Request /\ req[c].row \in Rows
    BY <1>4 DEF ConfirmWrite, TypeOK, RequestShape
  <2>2. log' \in [Rows -> Row]
    <3> DEFINE r == req[c].row
               new == [log[r] EXCEPT
                         !.status = "SUBMITTED",
                         !.amount = req[c].amount,
                         !.userConfirmed = req[c].userConfirmed,
                         !.hash = IF c \in MockProcesses THEN MockHash ELSE Null]
    <3>1. log[r] \in Row
      BY <2>1 DEF TypeOK
    <3>2. new \in Row
      BY <2>1, <3>1 DEF Row, Status, Request
    <3>3. log' = [log EXCEPT ![r] = new]
      BY <1>4 DEF ConfirmWrite
    <3> QED BY <3>2, <3>3 DEF TypeOK
  <2>3. req' \in [Requests -> Request] /\ RequestShape'
    BY <1>4 DEF ConfirmWrite, TypeOK, Request, RequestShape, IdleRequest
  <2>4. arms' \in [Rows -> Nat] /\ confirmed' \in [Rows -> SUBSET Nat]
    BY <1>4, <2>1 DEF ConfirmWrite, TypeOK, Request
  <2> QED
    BY <1>4, <2>2, <2>3, <2>4 DEF ConfirmWrite, TypeOK, KeeperShape, chainVars
<1>5. CASE ConfirmAbort(c)
  BY <1>5 DEF ConfirmAbort, TypeOK, KeeperShape, RequestShape, Request,
              IdleRequest, chainVars, history
<1> QED BY <1>2, <1>3, <1>4, <1>5 DEF RequestStep

\* What a keeper's new local state must satisfy for its type and shape.
GoodKeeper(s) ==
    /\ s \in Keeper
    /\ s.pc \in {"idle", "loop"} => s.row = Null /\ s.tx = Null
    /\ s.pc \in {"resolved", "sent", "settle"} => s.row \in s.batch
    /\ s.pc = "idle" => s.batch = {}
    /\ s.pc = "resolved" => s.tx = Null

\* A keeper's step that leaves it in a good state keeps every keeper good.
LEMMA KeeperUpdate ==
    ASSUME TypeInv, NEW k \in Keepers, NEW s, GoodKeeper(s),
           kp' = [kp EXCEPT ![k] = s]
    PROVE  kp' \in [Keepers -> Keeper] /\ KeeperShape'
BY DEF TypeInv, TypeOK, KeeperShape, GoodKeeper

\* The keeper's steps that change nothing but its own state.
LEMMA TypeKeeperLocal ==
    ASSUME TypeInv, NEW k \in Keepers, NEW s, GoodKeeper(s),
           kp' = [kp EXCEPT ![k] = s],
           UNCHANGED <<log, vaults, req, chainVars, sent, crashes, history>>
    PROVE  TypeInv'
<1>1. kp' \in [Keepers -> Keeper] /\ KeeperShape'
  BY KeeperUpdate
<1> QED BY <1>1 DEF TypeInv, TypeOK, RequestShape, chainVars, history

LEMMA TypeKeeper ==
    ASSUME TypeInv, NEW k \in Keepers, KeeperStep(k)
    PROVE  TypeInv'
<1>k. GoodKeeper(kp[k])
  BY DEF TypeInv, TypeOK, KeeperShape, GoodKeeper
<1>1. CASE SweepRead(k)
  <2>1. PICK b \in SUBSET LiveRows :
            kp' = [kp EXCEPT ![k] = [@ EXCEPT !.pc = "loop", !.batch = b]]
    BY <1>1 DEF SweepRead
  <2>2. GoodKeeper([kp[k] EXCEPT !.pc = "loop", !.batch = b])
    BY <1>1, <1>k, <2>1 DEF SweepRead, LiveRows, GoodKeeper, Keeper
  <2> QED BY <1>1, <2>1, <2>2, TypeKeeperLocal DEF SweepRead
<1>2. ASSUME NEW r \in Rows, NEW result \in Errors \cup {"ok"},
             Settle(k, r, result), r \in kp[k].batch,
             UNCHANGED <<log, vaults, req, chainVars, sent, crashes, history>>
      PROVE  TypeInv'
  <2>1. GoodKeeper([kp[k] EXCEPT !.pc = "settle", !.row = r, !.result = result])
    BY <1>2, <1>k DEF GoodKeeper, Keeper
  <2> QED BY <1>2, <2>1, TypeKeeperLocal DEF Settle
<1>3. ASSUME NEW r \in Rows, KeeperMock(k, r)
      PROVE  TypeInv'
  BY <1>2, <1>3 DEF KeeperMock, IsNext, Errors
<1>4. ASSUME NEW r \in Rows, KeeperResolve(k, r)
      PROVE  TypeInv'
  <2>1. log[r].amount \in Nat
    BY DEF TypeInv, TypeOK, Row
  <2>2. GoodKeeper([kp[k] EXCEPT !.pc = "resolved", !.row = r,
                                 !.amount = log[r].amount])
    BY <1>4, <1>k, <2>1 DEF KeeperResolve, IsNext, GoodKeeper, Keeper
  <2> QED BY <1>4, <2>2, TypeKeeperLocal DEF KeeperResolve
<1>5. ASSUME NEW r \in Rows, KeeperRefuse(k, r)
      PROVE  TypeInv'
  BY <1>2, <1>5 DEF KeeperRefuse, IsNext, Errors
<1>6. CASE KeeperSend(k)
  <2> DEFINE r == kp[k].row
             t == [keeper |-> k, row |-> r, seq |-> sent[k][r] + 1,
                   amount |-> kp[k].amount]
  <2>1. r \in Rows /\ r \in kp[k].batch
    BY <1>6, <1>k DEF KeeperSend, GoodKeeper, Keeper
  <2>2. t \in Tx
    BY <1>k, <2>1 DEF Tx, TypeInv, TypeOK, GoodKeeper, Keeper
  <2>3. /\ mempool' = mempool \cup {t}
        /\ sent' = [sent EXCEPT ![k][r] = @ + 1]
        /\ \/ kp' = [kp EXCEPT ![k] = [@ EXCEPT !.pc = "sent", !.tx = t]]
           \/ kp' = [kp EXCEPT ![k] = [@ EXCEPT !.pc = "settle", !.tx = t,
                                                !.result = "chain"]]
    BY <1>6 DEF KeeperSend, Broadcast
  <2> HIDE DEF t
  <2>4. /\ GoodKeeper([kp[k] EXCEPT !.pc = "sent", !.tx = t])
        /\ GoodKeeper([kp[k] EXCEPT !.pc = "settle", !.tx = t,
                                    !.result = "chain"])
    BY <1>k, <2>1, <2>2 DEF GoodKeeper, Keeper, Errors
  <2>5. kp' \in [Keepers -> Keeper] /\ KeeperShape'
    BY <2>3, <2>4, KeeperUpdate
  <2>6. mempool' \subseteq Tx /\ sent' \in [Keepers -> [Rows -> Nat]]
    BY <2>1, <2>2, <2>3 DEF TypeInv, TypeOK
  <2> QED
    BY <1>6, <2>5, <2>6 DEF KeeperSend, Broadcast, TypeInv, TypeOK,
                            RequestShape, history
<1>7. CASE KeeperSendFails(k)
  BY <1>2, <1>7, <1>k DEF KeeperSendFails, GoodKeeper, Keeper, Errors
<1>8. CASE KeeperReceipt(k)
  BY <1>2, <1>8, <1>k DEF KeeperReceipt, GoodKeeper, Keeper, Errors
<1>9. CASE KeeperRecord(k)
  <2>1. kp[k] \in Keeper /\ kp[k].row \in Rows
    BY <1>9, <1>k DEF KeeperRecord, GoodKeeper, Keeper
  <2>2. log' \in [Rows -> Row]
    <3>1. log[kp[k].row] \in Row
      BY <2>1 DEF TypeInv, TypeOK
    <3>2. CASE kp[k].result = "ok"
      <4> DEFINE new == [log[kp[k].row] EXCEPT
                           !.status = "CONFIRMED",
                           !.hash = IF k \in MockProcesses THEN MockHash
                                                               ELSE kp[k].tx]
      <4>1. new \in Row
        BY <2>1, <3>1 DEF Row, Status, Keeper
      <4>2. log' = [log EXCEPT ![kp[k].row] = new]
        BY <1>9, <3>2 DEF KeeperRecord
      <4> QED BY <4>1, <4>2 DEF TypeInv, TypeOK
    <3>3. CASE kp[k].result # "ok"
      <4> DEFINE new == [log[kp[k].row] EXCEPT !.status = "FAILED",
                                               !.error = kp[k].result]
      <4>1. new \in Row
        BY <2>1, <3>1, <3>3 DEF Row, Status, Keeper
      <4>2. log' = [log EXCEPT ![kp[k].row] = new]
        BY <1>9, <3>3 DEF KeeperRecord
      <4> QED BY <4>1, <4>2 DEF TypeInv, TypeOK
    <3> QED BY <3>2, <3>3
  <2>3. GoodKeeper(AfterRecord(k))
    BY <2>1 DEF AfterRecord, IdleKeeper, GoodKeeper, Keeper
  <2>4. kp' \in [Keepers -> Keeper] /\ KeeperShape'
    BY <1>9, <2>3, KeeperUpdate DEF KeeperRecord
  <2> QED
    BY <1>9, <2>2, <2>4 DEF KeeperRecord, TypeInv, TypeOK, RequestShape,
                            chainVars, history
<1> QED
  BY <1>1, <1>3, <1>4, <1>5, <1>6, <1>7, <1>8, <1>9 DEF KeeperStep

LEMMA TypeCrash ==
    ASSUME TypeInv, NEW k \in Keepers, KeeperCrash(k)
    PROVE  TypeInv'
<1> USE DEF TypeInv
<1>1. kp' \in [Keepers -> Keeper] /\ KeeperShape'
  <2>1. GoodKeeper(IdleKeeper)
    BY DEF IdleKeeper, GoodKeeper, Keeper
  <2> QED BY <2>1, KeeperUpdate DEF KeeperCrash
<1>2. lost' \in [Keepers -> [Rows -> Nat]]
  <2>1. CASE kp[k].tx = Null
    BY <2>1 DEF KeeperCrash, TypeOK
  <2>2. CASE kp[k].tx # Null
    <3>1. kp[k].row \in Rows
      BY <2>2 DEF TypeOK, Keeper, KeeperShape
    <3>2. lost' = [lost EXCEPT ![k][kp[k].row] = @ + 1]
      BY <2>2 DEF KeeperCrash
    <3> QED BY <3>1, <3>2 DEF TypeOK
  <2> QED BY <2>1, <2>2
<1>3. crashes' \in Nat
  BY DEF KeeperCrash, TypeOK
<1> QED BY <1>1, <1>2, <1>3 DEF KeeperCrash, TypeOK, RequestShape, chainVars

LEMMA TypeMine ==
    ASSUME TypeInv, NEW t \in mempool, Mine(t)
    PROVE  TypeInv'
BY DEF TypeInv, Mine, TypeOK, KeeperShape, RequestShape, history

LEMMA TypeNext == TypeInv /\ [Next]_vars => TypeInv'
<1> SUFFICES ASSUME TypeInv, [Next]_vars PROVE TypeInv'
  OBVIOUS
<1>1. ASSUME NEW u \in Users, SyncVault(u) PROVE TypeInv'
  BY <1>1 DEF SyncVault, TypeInv, TypeOK, KeeperShape, RequestShape, chainVars,
              history
<1>2. CASE UNCHANGED vars
  BY <1>2 DEF vars, TypeInv, TypeOK, KeeperShape, RequestShape, chainVars, history
<1> QED
  BY <1>1, <1>2, TypeCreate, TypeRequest, TypeKeeper, TypeCrash, TypeMine DEF Next

\* Every reachable state is well typed, whatever the interleaving of requests,
\* keepers and crashes.
THEOREM TypeCorrect == Spec => []TypeOK
<1>1. Spec => []TypeInv
  BY TypeInit, TypeNext, PTL DEF Spec
<1>2. TypeInv => TypeOK
  BY DEF TypeInv
<1> QED BY <1>1, <1>2, PTL

--------------------------------------------------------------------------------
(* The accounting of trades.  TradesAccounted is not inductive: a keeper may *)
(* broadcast for a row it read long ago, so the invariant says who still has *)
(* a broadcast to spend ("slack"): whoever can see the row as SUBMITTED, or  *)
(* holds it in a batch, and has not broadcast for it since.                  *)

\* Keeper k has broadcast for row r and has not recorded the outcome.
InFlight(k, r) == kp[k].row = r /\ kp[k].tx # Null

Slack(k, r) == sent[k][r] < arms[r] + lost[k][r]

LiveSlack ==
    \A k \in Keepers, r \in Rows :
        log[r].status = "SUBMITTED" /\ ~InFlight(k, r) => Slack(k, r)

BatchSlack ==
    \A k \in Keepers, r \in Rows :
        r \in kp[k].batch /\ log[r].amount > 0 /\ ~InFlight(k, r) => Slack(k, r)

ResolvedSlack ==
    \A k \in Keepers : kp[k].pc = "resolved" => Slack(k, kp[k].row)

\* The listener's rows have no sizing, and a batch holds rows that exist.
RowShape ==
    /\ \A r \in Rows : log[r].status = "PENDING" => log[r].amount = 0
    /\ \A k \in Keepers, r \in Rows :
          r \in kp[k].batch => log[r].status # "ABSENT"

AccountInv ==
    /\ TradesAccounted
    /\ LiveSlack
    /\ BatchSlack
    /\ ResolvedSlack
    /\ RowShape

LEMMA AccountInit == Init => AccountInv
BY DEF Init, AccountInv, TradesAccounted, LiveSlack, BatchSlack, ResolvedSlack,
       RowShape, AbsentRow, IdleKeeper

\* Steps that touch none of the variables the accounting reads.
LEMMA AccountUnchanged ==
    ASSUME AccountInv, UNCHANGED <<log, kp, sent, arms, lost>>
    PROVE  AccountInv'
BY DEF AccountInv, TradesAccounted, LiveSlack, BatchSlack, ResolvedSlack,
       RowShape, Slack, InFlight

LEMMA AccountCreate ==
    ASSUME TypeInv, AccountInv, Create
    PROVE  AccountInv'
<1>1. PICK u \in Users, r \in Rows :
          \/ \E a \in Amounts : ProposeExecution(u, r, a)
          \/ \E s \in {"PENDING", "LOGGED_PROPOSAL"} : InsertIntent(u, r, s)
  BY DEF Create
<1>2. /\ log[r].status = "ABSENT"
      /\ UNCHANGED <<kp, sent, arms, lost>>
  BY <1>1 DEF ProposeExecution, InsertIntent, history
<1>3. PICK row : /\ log' = [log EXCEPT ![r] = row]
                 /\ row.status \notin {"SUBMITTED", "ABSENT"}
                 /\ row.status = "PENDING" => row.amount = 0
  <2>1. ASSUME NEW a \in Amounts, ProposeExecution(u, r, a)
        PROVE  \E row : /\ log' = [log EXCEPT ![r] = row]
                        /\ row.status \notin {"SUBMITTED", "ABSENT"}
                        /\ row.status = "PENDING" => row.amount = 0
    <3> DEFINE new == [AbsentRow EXCEPT !.status = "DRAFT", !.user = u,
                                        !.amount = a, !.createdAt = Now]
    <3>1. log' = [log EXCEPT ![r] = new]
      BY <2>1 DEF ProposeExecution
    <3>2. new.status = "DRAFT"
      BY DEF AbsentRow
    <3> QED BY <3>1, <3>2
  <2>2. ASSUME NEW s \in {"PENDING", "LOGGED_PROPOSAL"}, InsertIntent(u, r, s)
        PROVE  \E row : /\ log' = [log EXCEPT ![r] = row]
                        /\ row.status \notin {"SUBMITTED", "ABSENT"}
                        /\ row.status = "PENDING" => row.amount = 0
    <3> DEFINE new == [AbsentRow EXCEPT !.status = s, !.user = u,
                                        !.createdAt = Now]
    <3>1. log' = [log EXCEPT ![r] = new]
      BY <2>2 DEF InsertIntent
    <3>2. new.status = s /\ new.amount = 0
      BY DEF AbsentRow
    <3> QED BY <3>1, <3>2
  <2> QED BY <1>1, <2>1, <2>2
<1>4. /\ \A x \in Rows \ {r} : log'[x] = log[x]
      /\ log'[r] = row
  BY <1>3 DEF TypeInv, TypeOK
<1>5. \A k \in Keepers : r \notin kp[k].batch
  BY <1>2 DEF AccountInv, RowShape
<1> QED
  BY <1>2, <1>3, <1>4, <1>5 DEF AccountInv, TradesAccounted, LiveSlack,
     BatchSlack, ResolvedSlack, RowShape, Slack, InFlight

LEMMA AccountConfirmWrite ==
    ASSUME TypeInv, AccountInv, NEW c \in Requests, ConfirmWrite(c)
    PROVE  AccountInv'
<1>1. PICK r \in Rows : r = req[c].row
  BY DEF ConfirmWrite, TypeInv, RequestShape
<1>2. /\ arms' = [arms EXCEPT ![r] = @ + 1]
      /\ UNCHANGED <<kp, sent, lost>>
  BY <1>1 DEF ConfirmWrite
<1>3. /\ \A x \in Rows \ {r} : log'[x] = log[x]
      /\ log'[r].status = "SUBMITTED"
  BY <1>1 DEF ConfirmWrite, TypeInv, TypeOK, Row
<1>4. /\ \A x \in Rows \ {r} : arms'[x] = arms[x]
      /\ arms'[r] = arms[r] + 1
      /\ \A x \in Rows : arms[x] \in Nat
      /\ \A k \in Keepers, x \in Rows : sent[k][x] \in Nat /\ lost[k][x] \in Nat
  BY <1>1, <1>2 DEF TypeInv, TypeOK
<1>5. \A k \in Keepers : Slack(k, r)'
  BY <1>1, <1>2, <1>4 DEF AccountInv, TradesAccounted, Slack
<1>6. \A k \in Keepers, x \in Rows : Slack(k, x) => Slack(k, x)'
  BY <1>1, <1>2, <1>4 DEF Slack
<1>7. TradesAccounted'
  BY <1>1, <1>2, <1>4 DEF AccountInv, TradesAccounted
<1>8. \A k \in Keepers : kp[k].pc = "resolved" => kp[k].row \in Rows
  BY DEF TypeInv, TypeOK, KeeperShape, Keeper
<1> QED
  BY <1>1, <1>2, <1>3, <1>5, <1>6, <1>7, <1>8 DEF AccountInv, LiveSlack,
     BatchSlack, ResolvedSlack, RowShape, InFlight

\* A keeper that keeps its batch, and what it has in flight, without entering
\* the point of broadcast.
LEMMA AccountLocal ==
    ASSUME TypeInv, AccountInv, NEW k \in Keepers, NEW s,
           kp' = [kp EXCEPT ![k] = s],
           s.batch = kp[k].batch, s.tx = kp[k].tx,
           kp[k].tx # Null => s.row = kp[k].row,
           s.pc # "resolved",
           UNCHANGED <<log, sent, arms, lost>>
    PROVE  AccountInv'
<1>1. /\ kp'[k] = s
      /\ \A x \in Keepers \ {k} : kp'[x] = kp[x]
  BY DEF TypeInv, TypeOK
<1>2. \A x \in Keepers, r \in Rows : InFlight(x, r)' <=> InFlight(x, r)
  BY <1>1 DEF InFlight
<1>3. \A x \in Keepers : kp'[x].batch = kp[x].batch
  BY <1>1
<1>4. \A x \in Keepers, r \in Rows : Slack(x, r)' <=> Slack(x, r)
  BY DEF Slack
<1>5. ResolvedSlack'
  BY <1>1 DEF AccountInv, ResolvedSlack, Slack
<1>6. TradesAccounted'
  BY DEF AccountInv, TradesAccounted
<1> QED
  BY <1>2, <1>3, <1>4, <1>5, <1>6 DEF AccountInv, LiveSlack, BatchSlack, RowShape

\* Settling takes a row of the batch, or the one in flight, to its outcome.
LEMMA AccountSettle ==
    ASSUME TypeInv, AccountInv, NEW k \in Keepers, NEW r, NEW result,
           Settle(k, r, result), kp[k].tx # Null => r = kp[k].row,
           UNCHANGED <<log, sent, arms, lost>>
    PROVE  AccountInv'
<1> DEFINE s == [kp[k] EXCEPT !.pc = "settle", !.row = r, !.result = result]
<1>1. kp' = [kp EXCEPT ![k] = s]
  BY DEF Settle
<1>2. /\ s.batch = kp[k].batch
      /\ s.tx = kp[k].tx
      /\ s.row = r
      /\ s.pc # "resolved"
  BY DEF TypeInv, TypeOK, Keeper
<1> HIDE DEF s
<1> QED BY <1>1, <1>2, AccountLocal

LEMMA AccountKeeper ==
    ASSUME TypeInv, AccountInv, NEW k \in Keepers, KeeperStep(k)
    PROVE  AccountInv'
<1>t. /\ kp \in [Keepers -> Keeper]
      /\ \A x \in Rows : arms[x] \in Nat
      /\ \A x \in Keepers, y \in Rows : sent[x][y] \in Nat /\ lost[x][y] \in Nat
  BY DEF TypeInv, TypeOK
<1>1. CASE SweepRead(k)
  <2>1. PICK b \in SUBSET LiveRows :
            kp' = [kp EXCEPT ![k] = [@ EXCEPT !.pc = "loop", !.batch = b]]
    BY <1>1 DEF SweepRead
  <2>2. /\ UNCHANGED <<log, sent, arms, lost>>
        /\ kp[k].tx = Null /\ kp[k].row = Null
    BY <1>1 DEF SweepRead, TypeInv, KeeperShape, history
  <2>3. /\ kp'[k].pc = "loop" /\ kp'[k].batch = b
        /\ kp'[k].tx = Null /\ kp'[k].row = Null
        /\ \A x \in Keepers \ {k} : kp'[x] = kp[x]
    BY <1>t, <2>1, <2>2 DEF Keeper
  <2>4. \A x \in Keepers, r \in Rows : InFlight(x, r)' <=> InFlight(x, r)
    BY <2>2, <2>3 DEF InFlight
  <2>5. \A x \in Keepers, r \in Rows : Slack(x, r)' <=> Slack(x, r)
    BY <2>2 DEF Slack
  <2>6. \A r \in b : r \in Rows /\ (log[r].amount > 0 => Slack(k, r))
                     /\ log[r].status # "ABSENT"
    <3>1. \A r \in b : r \in Rows /\ log[r].status \in {"SUBMITTED", "PENDING"}
      BY DEF LiveRows, Sweepable
    <3>2. \A r \in Rows : log[r].amount \in Nat
      BY DEF TypeInv, TypeOK, Row
    <3>3. \A r \in Rows : ~InFlight(k, r)
      BY <2>2 DEF InFlight
    <3> QED BY <3>1, <3>2, <3>3 DEF AccountInv, LiveSlack, RowShape
  <2>7. ResolvedSlack'
    BY <2>2, <2>3 DEF AccountInv, ResolvedSlack, Slack
  <2>8. TradesAccounted'
    BY <2>2 DEF AccountInv, TradesAccounted
  <2>9. LiveSlack'
    BY <2>2, <2>4, <2>5 DEF AccountInv, LiveSlack
  <2>10. BatchSlack'
    BY <2>2, <2>3, <2>4, <2>5, <2>6 DEF AccountInv, BatchSlack
  <2>11. RowShape'
    BY <2>2, <2>3, <2>6 DEF AccountInv, RowShape
  <2> QED BY <2>7, <2>8, <2>9, <2>10, <2>11 DEF AccountInv
<1>2. ASSUME NEW r \in Rows, KeeperMock(k, r)
      PROVE  AccountInv'
  BY <1>2, AccountSettle DEF KeeperMock, IsNext, TypeInv, KeeperShape, history
<1>3. ASSUME NEW r \in Rows, KeeperRefuse(k, r)
      PROVE  AccountInv'
  BY <1>3, AccountSettle DEF KeeperRefuse, IsNext, TypeInv, KeeperShape, history
<1>4. ASSUME NEW r \in Rows, KeeperResolve(k, r)
      PROVE  AccountInv'
  <2>1. /\ kp' = [kp EXCEPT ![k] = [@ EXCEPT !.pc = "resolved", !.row = r,
                                             !.amount = log[r].amount]]
        /\ UNCHANGED <<log, sent, arms, lost>>
        /\ kp[k].tx = Null /\ kp[k].row = Null
        /\ r \in kp[k].batch /\ log[r].amount > 0
    BY <1>4 DEF KeeperResolve, IsNext, CanBuild, TypeInv, KeeperShape, history
  <2>2. /\ kp'[k].pc = "resolved" /\ kp'[k].batch = kp[k].batch
        /\ kp'[k].tx = Null /\ kp'[k].row = r
        /\ \A x \in Keepers \ {k} : kp'[x] = kp[x]
    BY <1>t, <2>1 DEF Keeper
  <2>3. \A x \in Keepers, y \in Rows : InFlight(x, y)' <=> InFlight(x, y)
    BY <2>1, <2>2 DEF InFlight
  <2>4. \A x \in Keepers, y \in Rows : Slack(x, y)' <=> Slack(x, y)
    BY <2>1 DEF Slack
  <2>5. Slack(k, r)
    BY <2>1 DEF AccountInv, BatchSlack, InFlight
  <2>6. ResolvedSlack'
    BY <2>1, <2>2, <2>5 DEF AccountInv, ResolvedSlack, Slack
  <2>7. TradesAccounted' /\ LiveSlack'
    BY <2>1, <2>3, <2>4 DEF AccountInv, TradesAccounted, LiveSlack
  <2>8. BatchSlack' /\ RowShape'
    BY <2>1, <2>2, <2>3, <2>4 DEF AccountInv, BatchSlack, RowShape
  <2> QED BY <2>6, <2>7, <2>8 DEF AccountInv
<1>5. CASE KeeperSend(k)
  <2>r. PICK r \in Rows : r = kp[k].row
    BY <1>5, <1>t DEF KeeperSend, TypeInv, KeeperShape, Keeper
  <2>1. PICK t \in Tx :
            /\ sent' = [sent EXCEPT ![k][r] = @ + 1]
            /\ \/ kp' = [kp EXCEPT ![k] = [@ EXCEPT !.pc = "sent", !.tx = t]]
               \/ kp' = [kp EXCEPT ![k] = [@ EXCEPT !.pc = "settle", !.tx = t,
                                                    !.result = "chain"]]
    <3>1. sent[k][r] + 1 \in Nat /\ kp[k].amount \in Nat
      BY <1>t DEF Keeper
    <3>2. [keeper |-> k, row |-> r, seq |-> sent[k][r] + 1,
           amount |-> kp[k].amount] \in Tx
      BY <3>1 DEF Tx
    <3> QED BY <1>5, <2>r, <3>2 DEF KeeperSend, Broadcast
  <2>2. /\ UNCHANGED <<log, arms, lost>>
        /\ kp[k].pc = "resolved" /\ kp[k].tx = Null
    BY <1>5 DEF KeeperSend, TypeInv, KeeperShape, history
  <2>3. /\ kp'[k].pc # "resolved" /\ kp'[k].batch = kp[k].batch
        /\ kp'[k].tx # Null /\ kp'[k].row = r
        /\ \A x \in Keepers \ {k} : kp'[x] = kp[x]
    <3>1. t # Null /\ kp[k] \in Keeper
      BY <1>t, TxNotNull
    <3>2. CASE kp' = [kp EXCEPT ![k] = [@ EXCEPT !.pc = "sent", !.tx = t]]
      BY <1>t, <2>r, <3>1, <3>2 DEF Keeper
    <3>3. CASE kp' = [kp EXCEPT ![k] = [@ EXCEPT !.pc = "settle", !.tx = t,
                                                 !.result = "chain"]]
      BY <1>t, <2>r, <3>1, <3>3 DEF Keeper
    <3> QED BY <2>1, <3>2, <3>3
  <2>4. /\ sent'[k][r] = sent[k][r] + 1
        /\ \A x \in Keepers, y \in Rows : x # k \/ y # r => sent'[x][y] = sent[x][y]
    BY <2>1 DEF TypeInv, TypeOK
  <2>5. Slack(k, r)
    BY <2>r, <2>2 DEF AccountInv, ResolvedSlack
  <2>6. InFlight(k, r)'
    BY <2>3 DEF InFlight
  <2>7. \A x \in Keepers, y \in Rows : x # k \/ y # r =>
            /\ InFlight(x, y)' <=> InFlight(x, y)
            /\ Slack(x, y)' <=> Slack(x, y)
    BY <2>r, <2>2, <2>3, <2>4 DEF InFlight, Slack
  <2>8. TradesAccounted'
    BY <1>t, <2>2, <2>4, <2>5 DEF AccountInv, TradesAccounted, Slack
  <2>9. LiveSlack'
    BY <2>2, <2>6, <2>7 DEF AccountInv, LiveSlack
  <2>10. BatchSlack' /\ RowShape'
    BY <2>2, <2>3, <2>6, <2>7 DEF AccountInv, BatchSlack, RowShape
  <2>11. ResolvedSlack'
    <3>1. \A x \in Keepers : kp[x].pc = "resolved" => kp[x].row \in Rows
      BY DEF TypeInv, TypeOK, KeeperShape, Keeper
    <3> QED BY <2>3, <2>7, <3>1 DEF AccountInv, ResolvedSlack
  <2> QED BY <2>8, <2>9, <2>10, <2>11 DEF AccountInv
<1>6. CASE KeeperSendFails(k)
  BY <1>6, AccountSettle DEF KeeperSendFails, history
<1>7. CASE KeeperReceipt(k)
  BY <1>7, AccountSettle DEF KeeperReceipt, history
<1>8. CASE KeeperRecord(k)
  <2>r. PICK r \in Rows : r = kp[k].row
    BY <1>8, <1>t DEF KeeperRecord, TypeInv, KeeperShape, Keeper
  <2>1. /\ kp' = [kp EXCEPT ![k] = AfterRecord(k)]
        /\ UNCHANGED <<sent, arms, lost>>
    BY <1>8 DEF KeeperRecord, history
  <2>2. /\ kp'[k].pc # "resolved" /\ kp'[k].batch = kp[k].batch \ {r}
        /\ kp'[k].tx = Null /\ kp'[k].row = Null
        /\ \A x \in Keepers \ {k} : kp'[x] = kp[x]
    BY <1>t, <2>r, <2>1 DEF AfterRecord, IdleKeeper
  <2>3. /\ \A x \in Rows \ {r} : log'[x] = log[x]
        /\ log'[r].status \in {"CONFIRMED", "FAILED"}
        /\ log'[r].amount = log[r].amount
    <3>1. log \in [Rows -> Row]
      BY DEF TypeInv, TypeOK
    <3>2. CASE kp[k].result = "ok"
      BY <1>8, <2>r, <3>1, <3>2 DEF KeeperRecord, Row
    <3>3. CASE kp[k].result # "ok"
      BY <1>8, <2>r, <3>1, <3>3 DEF KeeperRecord, Row
    <3> QED BY <3>2, <3>3
  <2>4. \A x \in Keepers, y \in Rows : Slack(x, y)' <=> Slack(x, y)
    BY <2>1 DEF Slack
  <2>5. \A x \in Keepers, y \in Rows :
            x # k \/ y # r => (InFlight(x, y)' <=> InFlight(x, y))
    BY <2>r, <2>2 DEF InFlight
  <2>6. TradesAccounted'
    BY <2>1 DEF AccountInv, TradesAccounted
  <2>7. LiveSlack'
    BY <2>3, <2>4, <2>5 DEF AccountInv, LiveSlack
  <2>8. BatchSlack'
    BY <2>2, <2>3, <2>4, <2>5 DEF AccountInv, BatchSlack
  <2>9. ResolvedSlack'
    BY <2>1, <2>2 DEF AccountInv, ResolvedSlack, Slack
  <2>10. RowShape'
    BY <2>2, <2>3 DEF AccountInv, RowShape
  <2> QED BY <2>6, <2>7, <2>8, <2>9, <2>10 DEF AccountInv
<1> QED
  BY <1>1, <1>2, <1>3, <1>4, <1>5, <1>6, <1>7, <1>8 DEF KeeperStep

LEMMA AccountCrash ==
    ASSUME TypeInv, AccountInv, NEW k \in Keepers, KeeperCrash(k)
    PROVE  AccountInv'
<1>1. /\ kp' = [kp EXCEPT ![k] = IdleKeeper]
      /\ UNCHANGED <<log, sent, arms>>
  BY DEF KeeperCrash
<1>2. /\ kp'[k].pc = "idle" /\ kp'[k].batch = {}
      /\ kp'[k].tx = Null /\ kp'[k].row = Null
      /\ \A x \in Keepers \ {k} : kp'[x] = kp[x]
  BY <1>1 DEF TypeInv, TypeOK, IdleKeeper
<1>3. /\ \A x \in Rows : arms[x] \in Nat
      /\ \A x \in Keepers, y \in Rows :
            sent[x][y] \in Nat /\ lost[x][y] \in Nat /\ lost'[x][y] \in Nat
  BY TypeCrash DEF TypeInv, TypeOK
<1>4. \A x \in Keepers, y \in Rows :
          IF InFlight(x, y) /\ x = k THEN lost'[x][y] = lost[x][y] + 1
                                     ELSE lost'[x][y] = lost[x][y]
  <2>1. CASE kp[k].tx = Null
    BY <2>1 DEF KeeperCrash, InFlight
  <2>2. CASE kp[k].tx # Null
    <3>1. lost' = [lost EXCEPT ![k][kp[k].row] = @ + 1]
      BY <2>2 DEF KeeperCrash
    <3> QED BY <2>2, <3>1 DEF InFlight, TypeInv, TypeOK
  <2> QED BY <2>1, <2>2
<1>5. TradesAccounted'
  BY <1>1, <1>3, <1>4 DEF AccountInv, TradesAccounted
<1>6. \A x \in Keepers, y \in Rows : Slack(x, y) => Slack(x, y)'
  BY <1>1, <1>3, <1>4 DEF Slack
<1>7. \A y \in Rows : InFlight(k, y) => Slack(k, y)'
  BY <1>1, <1>3, <1>4 DEF Slack, AccountInv, TradesAccounted
<1>8. \A x \in Keepers, y \in Rows :
          InFlight(x, y)' <=> (InFlight(x, y) /\ x # k)
  BY <1>2 DEF InFlight
<1>9. LiveSlack'
  BY <1>1, <1>6, <1>7, <1>8 DEF AccountInv, LiveSlack
<1>10. BatchSlack' /\ RowShape'
  BY <1>1, <1>2, <1>6, <1>8 DEF AccountInv, BatchSlack, RowShape
<1>11. ResolvedSlack'
  <2>1. \A x \in Keepers : kp[x].pc = "resolved" => kp[x].row \in Rows
    BY DEF TypeInv, TypeOK, KeeperShape, Keeper
  <2> QED BY <1>2, <1>6, <2>1 DEF AccountInv, ResolvedSlack
<1> QED BY <1>5, <1>9, <1>10, <1>11 DEF AccountInv

LEMMA AccountNext == TypeInv /\ AccountInv /\ [Next]_vars => AccountInv'
<1> SUFFICES ASSUME TypeInv, AccountInv, [Next]_vars PROVE AccountInv'
  OBVIOUS
<1>1. ASSUME NEW u \in Users, SyncVault(u) PROVE AccountInv'
  BY <1>1, AccountUnchanged DEF SyncVault, history
<1>2. ASSUME NEW c \in Requests, RequestStep(c) PROVE AccountInv'
  <2>1. CASE ConfirmWrite(c)
    BY <2>1, AccountConfirmWrite
  <2>2. CASE ConfirmAbort(c)
    BY <2>2, AccountUnchanged DEF ConfirmAbort, history
  <2>3. ASSUME NEW u \in Users, NEW r \in Rows, NEW a, NEW b,
               ConfirmRead(c, u, r, a, b)
        PROVE  AccountInv'
    BY <2>3, AccountUnchanged DEF ConfirmRead, history
  <2> QED BY <1>2, <2>1, <2>2, <2>3 DEF RequestStep, ConfirmRoute, ConfirmTool
<1>3. ASSUME NEW t \in mempool, Mine(t) PROVE AccountInv'
  BY <1>3, AccountUnchanged DEF Mine, history
<1>4. CASE UNCHANGED vars
  BY <1>4, AccountUnchanged DEF vars, history
<1> QED
  BY <1>1, <1>2, <1>3, <1>4, AccountCreate, AccountKeeper, AccountCrash DEF Next

\* However confirmations, stale batches, keepers and crashes interleave, each
\* keeper's broadcasts for a row are covered by SUBMITTED writes to the row and
\* by its own crashes after a broadcast.
THEOREM EveryTradeAccounted == Spec => []TradesAccounted
<1>1. Init => TypeInv /\ AccountInv
  BY TypeInit, AccountInit
<1>2. TypeInv /\ AccountInv /\ [Next]_vars => (TypeInv /\ AccountInv)'
  BY TypeNext, AccountNext
<1>3. TypeInv /\ AccountInv => TradesAccounted
  BY DEF AccountInv
<1> QED BY <1>1, <1>2, <1>3, PTL DEF Spec

--------------------------------------------------------------------------------
(* Where a trade comes from.  A keeper reads the amount long after the row   *)
(* entered its batch and broadcasts it later still, so the invariant follows *)
(* the amount from the row to the keeper and from there to the transaction.  *)

Submitted == {"SUBMITTED", "CONFIRMED", "FAILED"}

RowOrigin ==
    \A r \in Rows :
        log[r].status \in Submitted /\ log[r].amount > 0 => log[r].amount \in confirmed[r]

BatchOrigin ==
    \A k \in Keepers, r \in Rows :
        r \in kp[k].batch => log[r].status \in Submitted \cup {"PENDING"}

ResolvedOrigin ==
    \A k \in Keepers : kp[k].pc = "resolved" =>
        /\ kp[k].amount \in confirmed[kp[k].row]
        /\ log[kp[k].row].user \in vaults

TradesOrigin ==
    \A t \in Txs : /\ t.amount \in confirmed[t.row]
                   /\ log[t.row].user \in vaults
                   /\ log[t.row].status # "ABSENT"

OriginInv ==
    /\ RowOrigin
    /\ BatchOrigin
    /\ ResolvedOrigin
    /\ TradesOrigin

LEMMA OriginInit == Init => OriginInv
BY DEF Init, OriginInv, RowOrigin, BatchOrigin, ResolvedOrigin, TradesOrigin, Txs,
       AbsentRow, IdleKeeper, Submitted

\* A step that keeps the ledger and broadcasts nothing: what is left to show is
\* that the keeper it moves, if any, keeps to its batch.
LEMMA OriginLocal ==
    ASSUME OriginInv, UNCHANGED <<log, confirmed>>, vaults \subseteq vaults',
           Txs' \subseteq Txs, BatchOrigin', ResolvedOrigin'
    PROVE  OriginInv'
BY DEF OriginInv, RowOrigin, TradesOrigin

LEMMA OriginCreate ==
    ASSUME TypeInv, AccountInv, OriginInv, Create
    PROVE  OriginInv'
<1>1. PICK u \in Users, r \in Rows :
          \/ \E a \in Amounts : ProposeExecution(u, r, a)
          \/ \E s \in {"PENDING", "LOGGED_PROPOSAL"} : InsertIntent(u, r, s)
  BY DEF Create
<1>2. log[r].status = "ABSENT" /\ UNCHANGED <<vaults, kp, chainVars, confirmed>>
  BY <1>1 DEF ProposeExecution, InsertIntent, history
<1>3. PICK row : /\ log' = [log EXCEPT ![r] = row]
                 /\ row.status \in {"DRAFT", "PENDING", "LOGGED_PROPOSAL"}
  <2>1. ASSUME NEW a \in Amounts, ProposeExecution(u, r, a)
        PROVE  \E row : /\ log' = [log EXCEPT ![r] = row]
                        /\ row.status \in {"DRAFT", "PENDING", "LOGGED_PROPOSAL"}
    <3> DEFINE new == [AbsentRow EXCEPT !.status = "DRAFT", !.user = u,
                                        !.amount = a, !.createdAt = Now]
    <3>1. log' = [log EXCEPT ![r] = new] /\ new.status = "DRAFT"
      BY <2>1 DEF ProposeExecution, AbsentRow
    <3> QED BY <3>1
  <2>2. ASSUME NEW s \in {"PENDING", "LOGGED_PROPOSAL"}, InsertIntent(u, r, s)
        PROVE  \E row : /\ log' = [log EXCEPT ![r] = row]
                        /\ row.status \in {"DRAFT", "PENDING", "LOGGED_PROPOSAL"}
    <3> DEFINE new == [AbsentRow EXCEPT !.status = s, !.user = u, !.createdAt = Now]
    <3>1. log' = [log EXCEPT ![r] = new] /\ new.status = s
      BY <2>2 DEF InsertIntent, AbsentRow
    <3> QED BY <3>1
  <2> QED BY <1>1, <2>1, <2>2
<1>4. /\ \A x \in Rows \ {r} : log'[x] = log[x]
      /\ log'[r] = row
  BY <1>3 DEF TypeInv, TypeOK
<1>5. /\ \A k \in Keepers : r \notin kp[k].batch
      /\ \A k \in Keepers : kp[k].pc = "resolved" => kp[k].row \in Rows \ {r}
      /\ \A t \in Txs : t.row \in Rows \ {r}
  BY <1>2 DEF OriginInv, BatchOrigin, Submitted, TradesOrigin, TypeInv, TypeOK,
              KeeperShape, Keeper, Txs, Tx
<1>6. Txs' = Txs
  BY <1>2 DEF Txs, chainVars
<1>7. RowOrigin'
  BY <1>2, <1>3, <1>4 DEF OriginInv, RowOrigin, Submitted
<1>8. BatchOrigin'
  BY <1>2, <1>4, <1>5 DEF OriginInv, BatchOrigin
<1>9. ResolvedOrigin'
  BY <1>2, <1>4, <1>5 DEF OriginInv, ResolvedOrigin
<1>10. TradesOrigin'
  BY <1>2, <1>4, <1>5, <1>6 DEF OriginInv, TradesOrigin
<1> QED BY <1>7, <1>8, <1>9, <1>10 DEF OriginInv

LEMMA OriginConfirmWrite ==
    ASSUME TypeInv, OriginInv, NEW c \in Requests, ConfirmWrite(c)
    PROVE  OriginInv'
<1>1. PICK r \in Rows : r = req[c].row
  BY DEF ConfirmWrite, TypeInv, RequestShape
<1>2. /\ confirmed' = [confirmed EXCEPT ![r] = @ \cup {req[c].amount}]
      /\ UNCHANGED <<vaults, kp, chainVars>>
  BY <1>1 DEF ConfirmWrite
<1>3. /\ \A x \in Rows \ {r} : log'[x] = log[x]
      /\ log'[r].status = "SUBMITTED"
      /\ log'[r].amount = req[c].amount
      /\ log'[r].user = log[r].user
  BY <1>1 DEF ConfirmWrite, TypeInv, TypeOK, Row
<1>4. /\ \A x \in Rows \ {r} : confirmed'[x] = confirmed[x]
      /\ confirmed'[r] = confirmed[r] \cup {req[c].amount}
  BY <1>2 DEF TypeInv, TypeOK
<1>5. Txs' = Txs
  BY <1>2 DEF Txs, chainVars
<1>6. /\ \A k \in Keepers : kp[k].pc = "resolved" => kp[k].row \in Rows
      /\ \A t \in Txs : t.row \in Rows
  BY DEF TypeInv, TypeOK, KeeperShape, Keeper, Txs, Tx
<1>7. RowOrigin'
  BY <1>3, <1>4 DEF OriginInv, RowOrigin
<1>8. BatchOrigin'
  BY <1>2, <1>3 DEF OriginInv, BatchOrigin, Submitted
<1>9. ResolvedOrigin'
  BY <1>2, <1>3, <1>4, <1>6 DEF OriginInv, ResolvedOrigin
<1>10. TradesOrigin'
  BY <1>2, <1>3, <1>4, <1>5, <1>6 DEF OriginInv, TradesOrigin
<1> QED BY <1>7, <1>8, <1>9, <1>10 DEF OriginInv

LEMMA OriginSettle ==
    ASSUME TypeInv, OriginInv, NEW k \in Keepers, NEW r, NEW result,
           Settle(k, r, result), UNCHANGED <<log, vaults, chainVars, confirmed>>
    PROVE  OriginInv'
<1>1. /\ kp'[k].batch = kp[k].batch /\ kp'[k].pc = "settle"
      /\ \A x \in Keepers \ {k} : kp'[x] = kp[x]
  BY DEF Settle, TypeInv, TypeOK, Keeper
<1>2. BatchOrigin' /\ ResolvedOrigin'
  BY <1>1 DEF OriginInv, BatchOrigin, ResolvedOrigin
<1> QED BY <1>2, OriginLocal DEF Txs, chainVars

LEMMA OriginKeeper ==
    ASSUME TypeInv, AccountInv, OriginInv, NEW k \in Keepers, KeeperStep(k)
    PROVE  OriginInv'
<1>t. kp \in [Keepers -> Keeper]
  BY DEF TypeInv, TypeOK
<1>1. CASE SweepRead(k)
  <2>1. PICK b \in SUBSET LiveRows :
            kp' = [kp EXCEPT ![k] = [@ EXCEPT !.pc = "loop", !.batch = b]]
    BY <1>1 DEF SweepRead
  <2>2. /\ kp'[k].pc = "loop" /\ kp'[k].batch = b
        /\ \A x \in Keepers \ {k} : kp'[x] = kp[x]
    BY <1>t, <2>1 DEF Keeper
  <2>3. UNCHANGED <<log, vaults, chainVars, confirmed>>
    BY <1>1 DEF SweepRead, history
  <2>4. BatchOrigin' /\ ResolvedOrigin'
    BY <2>2, <2>3 DEF OriginInv, BatchOrigin, ResolvedOrigin, LiveRows, Sweepable, Submitted
  <2> QED BY <2>3, <2>4, OriginLocal DEF Txs, chainVars
<1>2. ASSUME NEW r \in Rows, KeeperMock(k, r)
      PROVE  OriginInv'
  BY <1>2, OriginSettle DEF KeeperMock, history
<1>3. ASSUME NEW r \in Rows, KeeperRefuse(k, r)
      PROVE  OriginInv'
  BY <1>3, OriginSettle DEF KeeperRefuse, history
<1>4. ASSUME NEW r \in Rows, KeeperResolve(k, r)
      PROVE  OriginInv'
  <2>1. /\ kp' = [kp EXCEPT ![k] = [@ EXCEPT !.pc = "resolved", !.row = r,
                                             !.amount = log[r].amount]]
        /\ UNCHANGED <<log, vaults, chainVars, confirmed>>
        /\ r \in kp[k].batch /\ log[r].amount > 0 /\ log[r].user \in vaults
    BY <1>4 DEF KeeperResolve, IsNext, CanBuild, history
  <2>2. /\ kp'[k].row = r /\ kp'[k].amount = log[r].amount
        /\ kp'[k].batch = kp[k].batch
        /\ \A x \in Keepers \ {k} : kp'[x] = kp[x]
    BY <1>t, <2>1 DEF Keeper
  <2>3. log[r].status \in Submitted
    BY <2>1 DEF OriginInv, BatchOrigin, AccountInv, RowShape
  <2>4. ResolvedOrigin'
    BY <2>1, <2>2, <2>3 DEF OriginInv, RowOrigin, ResolvedOrigin
  <2>5. BatchOrigin'
    BY <2>1, <2>2 DEF OriginInv, BatchOrigin
  <2> QED BY <2>1, <2>4, <2>5, OriginLocal DEF Txs, chainVars
<1>5. CASE KeeperSend(k)
  <2> DEFINE t == [keeper |-> k, row |-> kp[k].row, seq |-> sent[k][kp[k].row] + 1,
                   amount |-> kp[k].amount]
  <2>1. /\ UNCHANGED <<log, vaults, confirmed>>
        /\ kp[k].pc = "resolved"
        /\ Txs' = Txs \cup {t}
    BY <1>5 DEF KeeperSend, Broadcast, Txs, history
  <2>b. \/ kp' = [kp EXCEPT ![k] = [@ EXCEPT !.pc = "sent", !.tx = t]]
        \/ kp' = [kp EXCEPT ![k] = [@ EXCEPT !.pc = "settle", !.tx = t,
                                             !.result = "chain"]]
    BY <1>5 DEF KeeperSend, Broadcast
  <2>3. /\ t.amount \in confirmed[t.row]
        /\ log[t.row].user \in vaults
        /\ log[t.row].status # "ABSENT"
    BY <2>1 DEF OriginInv, ResolvedOrigin, BatchOrigin, Submitted, TypeInv, TypeOK,
                KeeperShape, Keeper
  <2> HIDE DEF t
  <2>2. /\ kp'[k].pc # "resolved" /\ kp'[k].batch = kp[k].batch
        /\ \A x \in Keepers \ {k} : kp'[x] = kp[x]
    <3>1. CASE kp' = [kp EXCEPT ![k] = [@ EXCEPT !.pc = "sent", !.tx = t]]
      BY <1>t, <3>1 DEF Keeper
    <3>2. CASE kp' = [kp EXCEPT ![k] = [@ EXCEPT !.pc = "settle", !.tx = t,
                                                 !.result = "chain"]]
      BY <1>t, <3>2 DEF Keeper
    <3> QED BY <2>b, <3>1, <3>2
  <2>4. TradesOrigin'
    BY <2>1, <2>3 DEF OriginInv, TradesOrigin
  <2>5. RowOrigin' /\ BatchOrigin' /\ ResolvedOrigin'
    BY <2>1, <2>2 DEF OriginInv, RowOrigin, BatchOrigin, ResolvedOrigin
  <2> QED BY <2>4, <2>5 DEF OriginInv
<1>6. CASE KeeperSendFails(k)
  BY <1>6, OriginSettle DEF KeeperSendFails, history
<1>7. CASE KeeperReceipt(k)
  BY <1>7, OriginSettle DEF KeeperReceipt, history
<1>8. CASE KeeperRecord(k)
  <2>r. PICK r \in Rows : r = kp[k].row /\ r \in kp[k].batch
    BY <1>8, <1>t DEF KeeperRecord, TypeInv, KeeperShape, Keeper
  <2>1. UNCHANGED <<vaults, chainVars, confirmed>>
    BY <1>8 DEF KeeperRecord, history
  <2>2. /\ kp'[k].pc # "resolved" /\ kp'[k].batch = kp[k].batch \ {r}
        /\ \A x \in Keepers \ {k} : kp'[x] = kp[x]
    BY <1>8, <1>t, <2>r DEF KeeperRecord, AfterRecord, IdleKeeper
  <2>3. /\ \A x \in Rows \ {r} : log'[x] = log[x]
        /\ log'[r].status \in {"CONFIRMED", "FAILED"}
        /\ log'[r].amount = log[r].amount
        /\ log'[r].user = log[r].user
    <3>1. log \in [Rows -> Row]
      BY DEF TypeInv, TypeOK
    <3>2. CASE kp[k].result = "ok"
      BY <1>8, <2>r, <3>1, <3>2 DEF KeeperRecord, Row
    <3>3. CASE kp[k].result # "ok"
      BY <1>8, <2>r, <3>1, <3>3 DEF KeeperRecord, Row
    <3> QED BY <3>2, <3>3
  <2>4. log[r].status \in Submitted \/ log[r].amount = 0
    BY <2>r DEF OriginInv, BatchOrigin, AccountInv, RowShape
  <2>5. RowOrigin'
    BY <2>1, <2>3, <2>4 DEF OriginInv, RowOrigin
  <2>6. BatchOrigin'
    BY <2>2, <2>3 DEF OriginInv, BatchOrigin, Submitted
  <2>7. ResolvedOrigin'
    <3>1. \A x \in Keepers : kp[x].pc = "resolved" => kp[x].row \in Rows
      BY <1>t DEF TypeInv, KeeperShape, Keeper
    <3>2. \A x \in Rows : log'[x].user = log[x].user
      BY <2>3
    <3> QED BY <2>1, <2>2, <3>1, <3>2 DEF OriginInv, ResolvedOrigin
  <2>8. TradesOrigin'
    <3>1. Txs' = Txs /\ \A t \in Txs : t.row \in Rows
      BY <2>1 DEF Txs, Tx, chainVars, TypeInv, TypeOK
    <3> QED BY <2>1, <2>3, <3>1 DEF OriginInv, TradesOrigin
  <2> QED BY <2>5, <2>6, <2>7, <2>8 DEF OriginInv
<1> QED
  BY <1>1, <1>2, <1>3, <1>4, <1>5, <1>6, <1>7, <1>8 DEF KeeperStep

LEMMA OriginCrash ==
    ASSUME TypeInv, OriginInv, NEW k \in Keepers, KeeperCrash(k)
    PROVE  OriginInv'
<1>1. /\ kp'[k].pc = "idle" /\ kp'[k].batch = {}
      /\ \A x \in Keepers \ {k} : kp'[x] = kp[x]
      /\ UNCHANGED <<log, vaults, chainVars, confirmed>>
  BY DEF KeeperCrash, TypeInv, TypeOK, IdleKeeper
<1>2. BatchOrigin' /\ ResolvedOrigin'
  BY <1>1 DEF OriginInv, BatchOrigin, ResolvedOrigin
<1> QED BY <1>1, <1>2, OriginLocal DEF Txs, chainVars

LEMMA OriginNext == TypeInv /\ AccountInv /\ OriginInv /\ [Next]_vars => OriginInv'
<1> SUFFICES ASSUME TypeInv, AccountInv, OriginInv, [Next]_vars PROVE OriginInv'
  OBVIOUS
<1>1. ASSUME UNCHANGED <<log, kp, confirmed>>, vaults \subseteq vaults', Txs' \subseteq Txs
      PROVE  OriginInv'
  <2>1. ResolvedOrigin'
    BY <1>1 DEF OriginInv, ResolvedOrigin
  <2>2. BatchOrigin'
    BY <1>1 DEF OriginInv, BatchOrigin
  <2> QED BY <1>1, <2>1, <2>2, OriginLocal
<1>2. ASSUME NEW u \in Users, SyncVault(u) PROVE OriginInv'
  BY <1>1, <1>2 DEF SyncVault, history, chainVars, Txs
<1>3. ASSUME NEW c \in Requests, RequestStep(c) PROVE OriginInv'
  <2>1. CASE ConfirmWrite(c)
    BY <2>1, OriginConfirmWrite
  <2>2. CASE ConfirmAbort(c)
    BY <1>1, <2>2 DEF ConfirmAbort, history, chainVars, Txs
  <2>3. ASSUME NEW u \in Users, NEW r \in Rows, NEW a, NEW b, ConfirmRead(c, u, r, a, b)
        PROVE  OriginInv'
    BY <1>1, <2>3 DEF ConfirmRead, history, chainVars, Txs
  <2> QED BY <1>3, <2>1, <2>2, <2>3 DEF RequestStep, ConfirmRoute, ConfirmTool
<1>4. ASSUME NEW t \in mempool, Mine(t) PROVE OriginInv'
  BY <1>1, <1>4 DEF Mine, history, Txs
<1>5. CASE UNCHANGED vars
  BY <1>1, <1>5 DEF vars, history, chainVars, Txs
<1> QED
  BY <1>2, <1>3, <1>4, <1>5, OriginCreate, OriginKeeper, OriginCrash DEF Next

\* No keeper trades what nobody confirmed: a transaction's amount was written by
\* a confirmation of its own row and spends from a registered vault.
THEOREM EveryTradeConfirmed == Spec => []TradesWereConfirmed
<1>1. Init => TypeInv /\ AccountInv /\ OriginInv
  BY TypeInit, AccountInit, OriginInit
<1>2. TypeInv /\ AccountInv /\ OriginInv /\ [Next]_vars => (TypeInv /\ AccountInv /\ OriginInv)'
  BY TypeNext, AccountNext, OriginNext
<1>3. OriginInv => TradesWereConfirmed
  BY DEF OriginInv, TradesOrigin, TradesWereConfirmed
<1> QED BY <1>1, <1>2, <1>3, PTL DEF Spec
--------------------------------------------------------------------------------
(* Where a CONFIRMED row comes from.  The row is written from the keeper's    *)
(* own memory, after the receipt, so the invariant follows the transaction    *)
(* from its broadcast to its receipt through the keeper that waits for it.    *)

\* What a keeper between its broadcast and its record knows of its transaction.
ReceiptShape(k) ==
    /\ kp[k].pc = "resolved" => k \notin MockProcesses
    /\ kp[k].pc = "sent" => /\ k \notin MockProcesses
                            /\ kp[k].tx \in Tx
                            /\ kp[k].tx.row = kp[k].row
    /\ kp[k].pc = "settle" /\ kp[k].result = "ok" /\ k \notin MockProcesses =>
          kp[k].tx \in mined /\ kp[k].tx.row = kp[k].row

MinedInv == ConfirmedIsMined /\ \A k \in Keepers : ReceiptShape(k)

LEMMA MinedInit == Init => MinedInv
BY DEF Init, MinedInv, ConfirmedIsMined, ReceiptShape, AbsentRow, IdleKeeper

\* The chain never takes a mined transaction back, so a row and a keeper that
\* a step leaves alone stay right.
LEMMA RowStaysMined ==
    ASSUME MinedInv, NEW r \in Rows, mined \subseteq mined',
           log'[r].status = "CONFIRMED" => log'[r].status = log[r].status
                                           /\ log'[r].hash = log[r].hash
    PROVE  log'[r].status = "CONFIRMED" =>
               \/ log'[r].hash \in mined' /\ log'[r].hash.row = r
               \/ log'[r].hash = MockHash /\ Keepers \cap MockProcesses # {}
BY DEF MinedInv, ConfirmedIsMined

LEMMA KeeperStaysMined ==
    ASSUME MinedInv, NEW k \in Keepers, mined \subseteq mined', kp'[k] = kp[k]
    PROVE  ReceiptShape(k)'
BY DEF MinedInv, ReceiptShape

LEMMA MinedCreate ==
    ASSUME TypeInv, MinedInv, Create
    PROVE  MinedInv'
<1>1. PICK u \in Users, r \in Rows :
          \/ \E a \in Amounts : ProposeExecution(u, r, a)
          \/ \E s \in {"PENDING", "LOGGED_PROPOSAL"} : InsertIntent(u, r, s)
  BY DEF Create
<1>2. UNCHANGED <<kp, mined>>
  BY <1>1 DEF ProposeExecution, InsertIntent, chainVars
<1>3. \A x \in Rows : log'[x].status = "CONFIRMED" => log'[x] = log[x]
  <2>1. ASSUME NEW a \in Amounts, ProposeExecution(u, r, a), NEW x \in Rows
        PROVE  log'[x].status = "CONFIRMED" => log'[x] = log[x]
    BY <2>1 DEF ProposeExecution, AbsentRow, TypeInv, TypeOK
  <2>2. ASSUME NEW s \in {"PENDING", "LOGGED_PROPOSAL"}, InsertIntent(u, r, s),
               NEW x \in Rows
        PROVE  log'[x].status = "CONFIRMED" => log'[x] = log[x]
    BY <2>2 DEF InsertIntent, AbsentRow, TypeInv, TypeOK
  <2> QED BY <1>1, <2>1, <2>2
<1>4. ConfirmedIsMined'
  BY <1>2, <1>3, RowStaysMined DEF ConfirmedIsMined
<1> QED BY <1>2, <1>4, KeeperStaysMined DEF MinedInv

LEMMA MinedConfirmWrite ==
    ASSUME TypeInv, MinedInv, NEW c \in Requests, ConfirmWrite(c)
    PROVE  MinedInv'
<1>1. PICK r \in Rows : r = req[c].row
  BY DEF ConfirmWrite, TypeInv, RequestShape
<1>2. UNCHANGED <<kp, mined>>
  BY DEF ConfirmWrite, chainVars
<1>3. /\ \A x \in Rows \ {r} : log'[x] = log[x]
      /\ log'[r].status = "SUBMITTED"
  BY <1>1 DEF ConfirmWrite, TypeInv, TypeOK, Row
<1>4. ConfirmedIsMined'
  BY <1>2, <1>3, RowStaysMined DEF ConfirmedIsMined
<1> QED BY <1>2, <1>4, KeeperStaysMined DEF MinedInv

\* A keeper's step that leaves the ledger and the chain's past alone.
LEMMA MinedLocal ==
    ASSUME MinedInv, NEW k \in Keepers, log' = log, mined' = mined,
           \A x \in Keepers \ {k} : kp'[x] = kp[x],
           ReceiptShape(k)'
    PROVE  MinedInv'
<1>1. ConfirmedIsMined'
  BY DEF MinedInv, ConfirmedIsMined
<1> QED BY <1>1, KeeperStaysMined DEF MinedInv

LEMMA SettledKeeper ==
    ASSUME TypeInv, NEW k \in Keepers, NEW r, NEW result, Settle(k, r, result)
    PROVE  /\ kp'[k].pc = "settle" /\ kp'[k].row = r /\ kp'[k].result = result
           /\ kp'[k].tx = kp[k].tx
           /\ \A x \in Keepers \ {k} : kp'[x] = kp[x]
BY DEF Settle, TypeInv, TypeOK, Keeper

LEMMA MinedKeeper ==
    ASSUME TypeInv, MinedInv, NEW k \in Keepers, KeeperStep(k)
    PROVE  MinedInv'
<1>t. kp \in [Keepers -> Keeper]
  BY DEF TypeInv, TypeOK
<1>1. CASE SweepRead(k)
  <2>1. PICK b \in SUBSET LiveRows :
            kp' = [kp EXCEPT ![k] = [@ EXCEPT !.pc = "loop", !.batch = b]]
    BY <1>1 DEF SweepRead
  <2>2. kp'[k].pc = "loop" /\ \A x \in Keepers \ {k} : kp'[x] = kp[x]
    BY <1>t, <2>1 DEF Keeper
  <2> QED BY <1>1, <2>2, MinedLocal DEF SweepRead, ReceiptShape, chainVars
<1>2. ASSUME NEW r \in Rows, KeeperMock(k, r)
      PROVE  MinedInv'
  <2>1. PICK result \in {"ok", "chain"} : Settle(k, r, result)
    BY <1>2 DEF KeeperMock
  <2>2. ReceiptShape(k)'
    BY <1>2, <2>1, SettledKeeper DEF KeeperMock, ReceiptShape
  <2> QED BY <1>2, <2>1, <2>2, SettledKeeper, MinedLocal DEF KeeperMock, chainVars
<1>3. ASSUME NEW r \in Rows, KeeperRefuse(k, r)
      PROVE  MinedInv'
  <2>1. PICK result \in {"sizing", "intent"} : Settle(k, r, result)
    BY <1>3 DEF KeeperRefuse
  <2>2. ReceiptShape(k)'
    BY <2>1, SettledKeeper DEF ReceiptShape
  <2> QED BY <1>3, <2>1, <2>2, SettledKeeper, MinedLocal DEF KeeperRefuse, chainVars
<1>4. ASSUME NEW r \in Rows, KeeperResolve(k, r)
      PROVE  MinedInv'
  <2>1. kp'[k].pc = "resolved" /\ \A x \in Keepers \ {k} : kp'[x] = kp[x]
    BY <1>4, <1>t DEF KeeperResolve, Keeper
  <2> QED BY <1>4, <2>1, MinedLocal DEF KeeperResolve, ReceiptShape, chainVars
<1>5. CASE KeeperSend(k)
  <2>1. PICK t \in Tx :
            /\ t.row = kp[k].row
            /\ \/ kp' = [kp EXCEPT ![k] = [@ EXCEPT !.pc = "sent", !.tx = t]]
               \/ kp' = [kp EXCEPT ![k] = [@ EXCEPT !.pc = "settle", !.tx = t,
                                                    !.result = "chain"]]
    <3>1. kp[k].row \in Rows /\ kp[k].amount \in Nat
      BY <1>5, <1>t DEF KeeperSend, TypeInv, KeeperShape, Keeper
    <3>2. sent[k][kp[k].row] + 1 \in Nat
      BY <3>1 DEF TypeInv, TypeOK
    <3>3. [keeper |-> k, row |-> kp[k].row, seq |-> sent[k][kp[k].row] + 1,
           amount |-> kp[k].amount] \in Tx
      BY <3>1, <3>2 DEF Tx
    <3> QED BY <1>5, <3>3 DEF KeeperSend, Broadcast
  <2>2. k \notin MockProcesses
    BY <1>5 DEF KeeperSend, MinedInv, ReceiptShape
  <2>3. /\ ReceiptShape(k)'
        /\ \A x \in Keepers \ {k} : kp'[x] = kp[x]
    <3>1. CASE kp' = [kp EXCEPT ![k] = [@ EXCEPT !.pc = "sent", !.tx = t]]
      BY <1>t, <2>1, <2>2, <3>1 DEF Keeper, ReceiptShape
    <3>2. CASE kp' = [kp EXCEPT ![k] = [@ EXCEPT !.pc = "settle", !.tx = t,
                                                 !.result = "chain"]]
      BY <1>t, <3>2 DEF Keeper, ReceiptShape
    <3> QED BY <2>1, <3>1, <3>2
  <2>4. log' = log /\ mined' = mined
    BY <1>5 DEF KeeperSend, Broadcast
  <2> QED BY <2>3, <2>4, MinedLocal
<1>6. CASE KeeperSendFails(k)
  <2>1. Settle(k, kp[k].row, "chain") /\ log' = log /\ mined' = mined
    BY <1>6 DEF KeeperSendFails, chainVars
  <2>2. ReceiptShape(k)'
    BY <2>1, SettledKeeper DEF ReceiptShape
  <2> QED BY <2>1, <2>2, SettledKeeper, MinedLocal
<1>7. CASE KeeperReceipt(k)
  <2> DEFINE result == IF kp[k].tx \in mined THEN "ok" ELSE "chain"
  <2>1. /\ Settle(k, kp[k].row, result)
        /\ kp[k].pc = "sent" /\ log' = log /\ mined' = mined
    BY <1>7 DEF KeeperReceipt, chainVars
  <2>2. kp[k].tx.row = kp[k].row
    BY <2>1 DEF MinedInv, ReceiptShape
  <2>3. result = "ok" => kp[k].tx \in mined
    OBVIOUS
  <2> HIDE DEF result
  <2>4. ReceiptShape(k)'
    BY <2>1, <2>2, <2>3, SettledKeeper DEF ReceiptShape
  <2> QED BY <2>1, <2>4, SettledKeeper, MinedLocal
<1>8. CASE KeeperRecord(k)
  <2>r. PICK r \in Rows : r = kp[k].row
    BY <1>8, <1>t DEF KeeperRecord, TypeInv, KeeperShape, Keeper
  <2>1. mined' = mined /\ kp[k].pc = "settle"
    BY <1>8 DEF KeeperRecord, chainVars
  <2>2. /\ kp'[k].pc \in {"idle", "loop"}
        /\ \A x \in Keepers \ {k} : kp'[x] = kp[x]
    BY <1>8, <1>t DEF KeeperRecord, AfterRecord, IdleKeeper
  <2>l. log \in [Rows -> Row]
    BY DEF TypeInv, TypeOK
  <2>3. /\ \A x \in Rows \ {r} : log'[x] = log[x]
        /\ log'[r].status = "CONFIRMED" =>
              /\ kp[k].result = "ok"
              /\ log'[r].hash = IF k \in MockProcesses THEN MockHash ELSE kp[k].tx
    <3>1. CASE kp[k].result = "ok"
      BY <1>8, <2>r, <2>l, <3>1 DEF KeeperRecord, Row
    <3>2. CASE kp[k].result # "ok"
      BY <1>8, <2>r, <2>l, <3>2 DEF KeeperRecord, Row
    <3> QED BY <3>1, <3>2
  <2>4. ConfirmedIsMined'
    <3>1. ASSUME log'[r].status = "CONFIRMED"
          PROVE  \/ log'[r].hash \in mined' /\ log'[r].hash.row = r
                 \/ log'[r].hash = MockHash /\ Keepers \cap MockProcesses # {}
      BY <2>r, <2>1, <2>3, <3>1 DEF MinedInv, ReceiptShape
    <3>2. ASSUME NEW x \in Rows \ {r}, log'[x].status = "CONFIRMED"
          PROVE  \/ log'[x].hash \in mined' /\ log'[x].hash.row = x
                 \/ log'[x].hash = MockHash /\ Keepers \cap MockProcesses # {}
      BY <2>1, <2>3, <3>2 DEF MinedInv, ConfirmedIsMined
    <3> QED BY <3>1, <3>2 DEF ConfirmedIsMined
  <2>5. \A x \in Keepers : ReceiptShape(x)'
    BY <2>1, <2>2, KeeperStaysMined DEF ReceiptShape
  <2> QED BY <2>4, <2>5 DEF MinedInv
<1> QED
  BY <1>1, <1>2, <1>3, <1>4, <1>5, <1>6, <1>7, <1>8 DEF KeeperStep

LEMMA MinedNext == TypeInv /\ MinedInv /\ [Next]_vars => MinedInv'
<1> SUFFICES ASSUME TypeInv, MinedInv, [Next]_vars PROVE MinedInv'
  OBVIOUS
<1>1. ASSUME UNCHANGED <<log, kp>>, mined \subseteq mined' PROVE MinedInv'
  BY <1>1, RowStaysMined, KeeperStaysMined DEF MinedInv, ConfirmedIsMined
<1>2. ASSUME NEW u \in Users, SyncVault(u) PROVE MinedInv'
  BY <1>1, <1>2 DEF SyncVault, chainVars
<1>3. ASSUME NEW c \in Requests, RequestStep(c) PROVE MinedInv'
  <2>1. CASE ConfirmWrite(c)
    BY <2>1, MinedConfirmWrite
  <2>2. CASE ConfirmAbort(c)
    BY <1>1, <2>2 DEF ConfirmAbort, chainVars
  <2>3. ASSUME NEW u \in Users, NEW r \in Rows, NEW a, NEW b, ConfirmRead(c, u, r, a, b)
        PROVE  MinedInv'
    BY <1>1, <2>3 DEF ConfirmRead, chainVars
  <2> QED BY <1>3, <2>1, <2>2, <2>3 DEF RequestStep, ConfirmRoute, ConfirmTool
<1>4. ASSUME NEW t \in mempool, Mine(t) PROVE MinedInv'
  BY <1>1, <1>4 DEF Mine
<1>5. ASSUME NEW k \in Keepers, KeeperCrash(k) PROVE MinedInv'
  <2>1. /\ kp'[k].pc = "idle" /\ log' = log /\ mined' = mined
        /\ \A x \in Keepers \ {k} : kp'[x] = kp[x]
    BY <1>5 DEF KeeperCrash, TypeInv, TypeOK, IdleKeeper, chainVars
  <2> QED BY <2>1, MinedLocal DEF ReceiptShape
<1>6. CASE UNCHANGED vars
  BY <1>1, <1>6 DEF vars, chainVars
<1> QED
  BY <1>2, <1>3, <1>4, <1>5, <1>6, MinedCreate, MinedKeeper DEF Next

\* A row says CONFIRMED only of a mined transaction of its own, whatever two
\* keepers, a late confirmation or a crash did to the row in between.
THEOREM ConfirmedRowsAreMined == Spec => []ConfirmedIsMined
<1>1. Init => TypeInv /\ MinedInv
  BY TypeInit, MinedInit
<1>2. TypeInv /\ MinedInv /\ [Next]_vars => (TypeInv /\ MinedInv)'
  BY TypeNext, MinedNext
<1>3. MinedInv => ConfirmedIsMined
  BY DEF MinedInv
<1> QED BY <1>1, <1>2, <1>3, PTL DEF Spec
--------------------------------------------------------------------------------
(* One confirmation and one keeper at a time, real keepers and no crash: the  *)
(* deployment in which the code keeps the strict lifecycle.                   *)

Serial ==
    /\ \A c, d \in Requests : c = d
    /\ \A j, k \in Keepers : j = k
    /\ Keepers \cap MockProcesses = {}
    /\ MaxCrashes = 0

Waiting(k) == kp[k].pc \in {"sent", "settle"}

\* A row being confirmed is still a draft, a row of the batch still unsettled.
SerialRows ==
    /\ \A c \in Requests : req[c].pc = "building" => log[req[c].row].status = "DRAFT"
    /\ \A k \in Keepers, r \in Rows :
          r \in kp[k].batch => log[r].status \in {"SUBMITTED", "PENDING"}

\* The keeper trades the amount of a submitted row that has no trade yet, and
\* the trade it waits for is the row's.
SerialKeeper ==
    \A k \in Keepers :
        /\ kp[k].pc = "resolved" =>
              /\ log[kp[k].row].status = "SUBMITTED"
              /\ kp[k].amount = log[kp[k].row].amount
              /\ \A t \in Txs : t.row # kp[k].row
        /\ kp[k].pc = "sent" \/ (kp[k].pc = "settle" /\ kp[k].result = "ok") =>
              /\ kp[k].tx \in Txs
              /\ kp[k].tx.row = kp[k].row
              /\ kp[k].tx.amount = log[kp[k].row].amount

\* A traded row is either settled or the one the keeper is about to settle.
SerialTrades ==
    /\ \A t \in Txs :
          /\ log[t.row].status \in Submitted
          /\ log[t.row].status = "SUBMITTED" =>
                \E k \in Keepers : Waiting(k) /\ kp[k].row = t.row
    /\ \A t1, t2 \in Txs : t1.row = t2.row => t1 = t2

SerialAudit ==
    \A r \in Rows : log[r].status = "CONFIRMED" =>
        log[r].hash \in Txs /\ log[r].hash.amount = log[r].amount

SerialInv == SerialRows /\ SerialKeeper /\ SerialTrades /\ SerialAudit

LEMMA SerialInit == Init => SerialInv
BY DEF Init, SerialInv, SerialRows, SerialKeeper, SerialTrades, SerialAudit, Txs,
       AbsentRow, IdleRequest, IdleKeeper

\* A new row is one nothing refers to yet.
LEMMA SerialCreate ==
    ASSUME TypeInv, SerialInv, Create
    PROVE  SerialInv'
<1>1. PICK u \in Users, r \in Rows :
          \/ \E a \in Amounts : ProposeExecution(u, r, a)
          \/ \E s \in {"PENDING", "LOGGED_PROPOSAL"} : InsertIntent(u, r, s)
  BY DEF Create
<1>2. log[r].status = "ABSENT" /\ UNCHANGED <<req, kp, chainVars>>
  BY <1>1 DEF ProposeExecution, InsertIntent
<1>3. /\ \A x \in Rows \ {r} : log'[x] = log[x]
      /\ log'[r].status \in {"DRAFT", "PENDING", "LOGGED_PROPOSAL"}
  <2>1. ASSUME NEW a \in Amounts, ProposeExecution(u, r, a)
        PROVE  /\ \A x \in Rows \ {r} : log'[x] = log[x]
               /\ log'[r].status = "DRAFT"
    BY <2>1 DEF ProposeExecution, AbsentRow, TypeInv, TypeOK
  <2>2. ASSUME NEW s \in {"PENDING", "LOGGED_PROPOSAL"}, InsertIntent(u, r, s)
        PROVE  /\ \A x \in Rows \ {r} : log'[x] = log[x]
               /\ log'[r].status = s
    BY <2>2 DEF InsertIntent, AbsentRow, TypeInv, TypeOK
  <2> QED BY <1>1, <2>1, <2>2
<1>4. Txs' = Txs /\ \A t \in Txs : t.row \in Rows \ {r}
  BY <1>2 DEF Txs, Tx, chainVars, TypeInv, TypeOK, SerialInv, SerialTrades, Submitted
<1>5. /\ \A c \in Requests : req[c].pc = "building" => req[c].row \in Rows \ {r}
      /\ \A k \in Keepers : r \notin kp[k].batch
      /\ \A k \in Keepers : kp[k].pc = "resolved" \/ Waiting(k) => kp[k].row \in Rows \ {r}
  BY <1>2 DEF SerialInv, SerialRows, TypeInv, TypeOK, RequestShape, KeeperShape, Keeper,
              Waiting
<1>6. SerialRows'
  BY <1>2, <1>3, <1>5 DEF SerialInv, SerialRows
<1>7. SerialKeeper'
  BY <1>2, <1>3, <1>4, <1>5 DEF SerialInv, SerialKeeper, Waiting
<1>8. SerialTrades'
  BY <1>2, <1>3, <1>4 DEF SerialInv, SerialTrades, Waiting
<1>9. SerialAudit'
  BY <1>3, <1>4 DEF SerialInv, SerialAudit
<1> QED BY <1>6, <1>7, <1>8, <1>9 DEF SerialInv

LEMMA SerialRequest ==
    ASSUME Serial, TypeInv, SerialInv, NEW c \in Requests, RequestStep(c)
    PROVE  SerialInv'
<1>q. req \in [Requests -> Request]
  BY DEF TypeInv, TypeOK
<1>1. ASSUME UNCHANGED <<log, kp, chainVars>>, SerialRows'
      PROVE  SerialInv'
  BY <1>1 DEF SerialInv, SerialKeeper, SerialTrades, SerialAudit, Waiting, Txs, chainVars
<1>2. ASSUME NEW u \in Users, NEW r \in Rows, NEW a, NEW b, ConfirmRead(c, u, r, a, b)
      PROVE  SerialInv'
  <2>1. UNCHANGED <<log, kp, chainVars>> /\ log[r].status = "DRAFT"
    BY <1>2 DEF ConfirmRead, Confirmable
  <2>2. \A d \in Requests : req'[d].row = r
    BY <1>2, <1>q DEF Serial, ConfirmRead
  <2>3. SerialRows'
    BY <2>1, <2>2 DEF SerialInv, SerialRows
  <2> QED BY <1>1, <2>1, <2>3
<1>3. CASE ConfirmAbort(c)
  <2>1. UNCHANGED <<log, kp, chainVars>>
    BY <1>3 DEF ConfirmAbort
  <2>2. \A d \in Requests : req'[d].pc = "idle"
    BY <1>3, <1>q DEF Serial, ConfirmAbort, IdleRequest
  <2>3. SerialRows'
    BY <2>1, <2>2 DEF SerialInv, SerialRows
  <2> QED BY <1>1, <2>1, <2>3
<1>4. CASE ConfirmWrite(c)
  <2>1. PICK r \in Rows : r = req[c].row /\ log[r].status = "DRAFT"
    BY <1>4 DEF ConfirmWrite, TypeInv, RequestShape, SerialInv, SerialRows
  <2>2. UNCHANGED <<kp, chainVars>>
    BY <1>4 DEF ConfirmWrite
  <2>3. /\ \A x \in Rows \ {r} : log'[x] = log[x]
        /\ log'[r].status = "SUBMITTED"
    BY <1>4, <2>1 DEF ConfirmWrite, TypeInv, TypeOK, Row
  <2>4. \A d \in Requests : req'[d].pc = "idle"
    BY <1>4, <1>q DEF Serial, ConfirmWrite, IdleRequest
  <2>5. Txs' = Txs /\ \A t \in Txs : t.row \in Rows \ {r}
    BY <2>1, <2>2 DEF Txs, Tx, chainVars, TypeInv, TypeOK, SerialInv, SerialTrades,
                      Submitted
  <2>6. /\ \A k \in Keepers : r \notin kp[k].batch
        /\ \A k \in Keepers : kp[k].pc = "resolved" \/ Waiting(k) =>
                                  kp[k].row \in Rows \ {r}
    <3>1. ASSUME NEW k \in Keepers PROVE r \notin kp[k].batch
      BY <2>1, <3>1 DEF SerialInv, SerialRows
    <3>2. ASSUME NEW k \in Keepers, kp[k].pc = "resolved" \/ Waiting(k)
          PROVE  kp[k].row \in Rows \ {r}
      <4>1. kp[k].row \in kp[k].batch
        BY <3>2 DEF TypeInv, KeeperShape, Waiting
      <4>2. kp[k].batch \subseteq Rows
        BY DEF TypeInv, TypeOK, Keeper
      <4> QED BY <3>1, <4>1, <4>2
    <3> QED BY <3>1, <3>2
  <2>7. SerialRows'
    BY <2>2, <2>3, <2>4, <2>6 DEF SerialInv, SerialRows
  <2>8. SerialKeeper'
    BY <2>2, <2>3, <2>5, <2>6 DEF SerialInv, SerialKeeper, Waiting
  <2>9. SerialTrades'
    BY <2>2, <2>3, <2>5 DEF SerialInv, SerialTrades, Waiting
  <2>10. SerialAudit'
    BY <2>3, <2>5 DEF SerialInv, SerialAudit
  <2> QED BY <2>7, <2>8, <2>9, <2>10 DEF SerialInv
<1> QED
  BY <1>2, <1>3, <1>4 DEF RequestStep, ConfirmRoute, ConfirmTool
\* A step of the only keeper that keeps ledger and transactions: its new batch
\* is of unsettled rows, and it waits for the row it waited for, if any.
LEMMA SerialLocal ==
    ASSUME Serial, TypeInv, SerialInv, NEW k \in Keepers, UNCHANGED <<log, req>>, Txs' = Txs,
           \A r \in Rows : r \in kp'[k].batch => log[r].status \in {"SUBMITTED", "PENDING"},
           Waiting(k) => Waiting(k)' /\ kp'[k].row = kp[k].row,
           kp'[k].pc = "resolved" =>
               /\ log[kp'[k].row].status = "SUBMITTED"
               /\ kp'[k].amount = log[kp'[k].row].amount
               /\ \A t \in Txs : t.row # kp'[k].row,
           kp'[k].pc = "sent" \/ (kp'[k].pc = "settle" /\ kp'[k].result = "ok") =>
               /\ kp'[k].tx \in Txs
               /\ kp'[k].tx.row = kp'[k].row
               /\ kp'[k].tx.amount = log[kp'[k].row].amount
    PROVE  SerialInv'
<1>1. \A x \in Keepers : x = k
  BY DEF Serial
<1>2. SerialRows'
  BY <1>1 DEF SerialInv, SerialRows
<1>3. SerialKeeper'
  BY <1>1 DEF SerialKeeper
<1>4. SerialTrades'
  BY <1>1 DEF SerialInv, SerialTrades
<1>5. SerialAudit'
  BY DEF SerialInv, SerialAudit
<1> QED BY <1>2, <1>3, <1>4, <1>5 DEF SerialInv

\* A keeper that waits for nothing has no submitted row with a trade.
LEMMA UntradedWhileIdle ==
    ASSUME Serial, SerialInv, NEW k \in Keepers, ~ Waiting(k),
           NEW t \in Txs, log[t.row].status = "SUBMITTED"
    PROVE  FALSE
BY DEF Serial, SerialInv, SerialTrades

LEMMA SerialSend ==
    ASSUME Serial, TypeInv, SerialInv, NEW k \in Keepers, KeeperSend(k)
    PROVE  /\ SerialInv'
           /\ \E t \in Tx : /\ t.row = kp[k].row /\ t.row \in Rows
                            /\ log[t.row].status = "SUBMITTED"
                            /\ \A x \in Txs : x.row # t.row
                            /\ Txs' = Txs \cup {t}
                            /\ log' = log
<1>t. kp \in [Keepers -> Keeper]
  BY DEF TypeInv, TypeOK
<1>k. \A x \in Keepers : x = k
  BY DEF Serial
<1>1. PICK t \in Tx :
          /\ t.row = kp[k].row /\ t.amount = kp[k].amount
          /\ Txs' = Txs \cup {t}
          /\ \/ kp' = [kp EXCEPT ![k] = [@ EXCEPT !.pc = "sent", !.tx = t]]
             \/ kp' = [kp EXCEPT ![k] = [@ EXCEPT !.pc = "settle", !.tx = t,
                                                  !.result = "chain"]]
  <2>1. kp[k].row \in Rows /\ kp[k].amount \in Nat
    BY <1>t DEF KeeperSend, TypeInv, KeeperShape, Keeper
  <2>2. sent[k][kp[k].row] + 1 \in Nat
    BY <2>1 DEF TypeInv, TypeOK
  <2>3. [keeper |-> k, row |-> kp[k].row, seq |-> sent[k][kp[k].row] + 1,
         amount |-> kp[k].amount] \in Tx
    BY <2>1, <2>2 DEF Tx
  <2> QED BY <2>3 DEF KeeperSend, Broadcast, Txs
<1>2. /\ log[t.row].status = "SUBMITTED" /\ t.amount = log[t.row].amount
      /\ \A x \in Txs : x.row # t.row
      /\ kp[k].pc = "resolved" /\ UNCHANGED <<log, req>>
  BY <1>1 DEF KeeperSend, SerialInv, SerialKeeper
<1>3. /\ kp'[k].batch = kp[k].batch /\ kp'[k].row = t.row /\ kp'[k].tx = t
      /\ Waiting(k)'
  <2>1. CASE kp' = [kp EXCEPT ![k] = [@ EXCEPT !.pc = "sent", !.tx = t]]
    BY <1>t, <1>1, <2>1 DEF Keeper, Waiting
  <2>2. CASE kp' = [kp EXCEPT ![k] = [@ EXCEPT !.pc = "settle", !.tx = t,
                                               !.result = "chain"]]
    BY <1>t, <1>1, <2>2 DEF Keeper, Waiting
  <2> QED BY <1>1, <2>1, <2>2
<1>4. SerialRows'
  BY <1>2, <1>3, <1>k DEF SerialInv, SerialRows
<1>5. SerialKeeper'
  BY <1>1, <1>2, <1>3, <1>k DEF SerialKeeper, Waiting
<1>6. SerialTrades'
  <2>1. ~ Waiting(k)
    BY <1>2 DEF Waiting
  <2>2. \A x \in Txs : log[x.row].status # "SUBMITTED"
    BY <2>1, UntradedWhileIdle
  <2> QED BY <1>1, <1>2, <1>3, <2>2 DEF SerialInv, SerialTrades, Submitted
<1>7. SerialAudit'
  BY <1>1, <1>2 DEF SerialInv, SerialAudit
<1>8. t.row \in Rows
  BY DEF Tx
<1> QED BY <1>1, <1>2, <1>4, <1>5, <1>6, <1>7, <1>8 DEF SerialInv

\* What the record of a result does to its row.
LEMMA RecordRow ==
    ASSUME Serial, TypeInv, NEW k \in Keepers, KeeperRecord(k)
    PROVE  /\ kp[k].row \in Rows /\ kp[k].row \in kp[k].batch
           /\ \A x \in Rows \ {kp[k].row} : log'[x] = log[x]
           /\ log'[kp[k].row].amount = log[kp[k].row].amount
           /\ kp[k].result = "ok" => /\ log'[kp[k].row].status = "CONFIRMED"
                                     /\ log'[kp[k].row].hash = kp[k].tx
           /\ kp[k].result # "ok" => log'[kp[k].row].status = "FAILED"
           /\ kp'[k].pc \in {"idle", "loop"}
           /\ kp'[k].batch = kp[k].batch \ {kp[k].row}
<1>t. kp \in [Keepers -> Keeper] /\ log \in [Rows -> Row]
  BY DEF TypeInv, TypeOK
<1>1. PICK r \in Rows : r = kp[k].row /\ r \in kp[k].batch
  BY <1>t DEF KeeperRecord, TypeInv, KeeperShape, Keeper
<1>2. k \notin MockProcesses
  BY DEF Serial
<1>3. kp'[k].pc \in {"idle", "loop"} /\ kp'[k].batch = kp[k].batch \ {r}
  BY <1>t, <1>1 DEF KeeperRecord, AfterRecord, IdleKeeper
<1>4. CASE kp[k].result = "ok"
  BY <1>t, <1>1, <1>2, <1>3, <1>4 DEF KeeperRecord, Row
<1>5. CASE kp[k].result # "ok"
  BY <1>t, <1>1, <1>2, <1>3, <1>5 DEF KeeperRecord, Row
<1> QED BY <1>4, <1>5

LEMMA SerialRecord ==
    ASSUME Serial, TypeInv, SerialInv, NEW k \in Keepers, KeeperRecord(k)
    PROVE  SerialInv'
<1>k. \A x \in Keepers : x = k
  BY DEF Serial
<1>1. PICK r \in Rows : r = kp[k].row
  BY RecordRow
<1>2. Txs' = Txs /\ req' = req /\ kp[k].pc = "settle"
  BY DEF KeeperRecord, Txs, chainVars
<1>3. log[r].status \in {"SUBMITTED", "PENDING"}
  BY <1>1, RecordRow DEF SerialInv, SerialRows
<1>4. SerialRows'
  <2>1. \A c \in Requests : req[c].pc = "building" => req[c].row \in Rows \ {r}
    BY <1>3 DEF SerialInv, SerialRows, TypeInv, RequestShape
  <2> QED BY <1>1, <1>2, <1>k, <2>1, RecordRow DEF SerialInv, SerialRows
<1>5. SerialKeeper'
  BY <1>k, RecordRow DEF SerialKeeper
<1>6. SerialTrades'
  <2>1. \A t \in Txs : t.row \in Rows
    BY DEF Txs, Tx, TypeInv, TypeOK
  <2>2. \A t \in Txs : log'[t.row].status \in {"CONFIRMED", "FAILED"}
    <3>1. ASSUME NEW t \in Txs, t.row = r
          PROVE  log'[t.row].status \in {"CONFIRMED", "FAILED"}
      BY <1>1, <3>1, RecordRow
    <3>2. ASSUME NEW t \in Txs, t.row # r
          PROVE  log'[t.row].status \in {"CONFIRMED", "FAILED"}
      BY <1>1, <1>k, <2>1, <3>2, RecordRow DEF SerialInv, SerialTrades, Submitted
    <3> QED BY <3>1, <3>2
  <2> QED BY <1>2, <2>2 DEF SerialInv, SerialTrades, Submitted
<1>7. SerialAudit'
  <2>1. log'[r].status = "CONFIRMED" =>
            log'[r].hash \in Txs /\ log'[r].hash.amount = log'[r].amount
    BY <1>1, <1>2, RecordRow DEF SerialInv, SerialKeeper
  <2> QED BY <1>1, <1>2, <2>1, RecordRow DEF SerialInv, SerialAudit
<1> QED BY <1>4, <1>5, <1>6, <1>7 DEF SerialInv

LEMMA SerialKeeperStep ==
    ASSUME Serial, TypeInv, AccountInv, SerialInv, NEW k \in Keepers, KeeperStep(k)
    PROVE  SerialInv'
<1>t. kp \in [Keepers -> Keeper]
  BY DEF TypeInv, TypeOK
<1>1. CASE SweepRead(k)
  <2>1. PICK b \in SUBSET LiveRows :
            kp' = [kp EXCEPT ![k] = [@ EXCEPT !.pc = "loop", !.batch = b]]
    BY <1>1 DEF SweepRead
  <2>2. kp'[k].pc = "loop" /\ kp'[k].batch = b
    BY <1>t, <2>1 DEF Keeper
  <2>3. \A r \in Rows : r \in b => log[r].status \in {"SUBMITTED", "PENDING"}
    BY <2>1 DEF LiveRows, Sweepable
  <2>4. ~ Waiting(k) /\ UNCHANGED <<log, req>> /\ Txs' = Txs
    BY <1>1 DEF SweepRead, Waiting, Txs, chainVars
  <2> QED BY <2>2, <2>3, <2>4, SerialLocal
<1>2. ASSUME NEW r \in Rows, KeeperMock(k, r)
      PROVE  SerialInv'
  BY <1>2 DEF KeeperMock, Serial
<1>s. ASSUME NEW r, NEW result, Settle(k, r, result), UNCHANGED <<log, req, chainVars>>,
             Waiting(k) => r = kp[k].row,
             result = "ok" => /\ kp[k].tx \in Txs
                              /\ kp[k].tx.row = r
                              /\ kp[k].tx.amount = log[r].amount
      PROVE  SerialInv'
  <2>1. /\ kp'[k].pc = "settle" /\ kp'[k].row = r /\ kp'[k].result = result
        /\ kp'[k].tx = kp[k].tx
    BY <1>s, SettledKeeper
  <2>2. kp'[k].batch = kp[k].batch
    BY <1>s, <1>t DEF Settle, Keeper
  <2>3. \A x \in Rows : x \in kp'[k].batch => log[x].status \in {"SUBMITTED", "PENDING"}
    BY <2>2 DEF SerialInv, SerialRows
  <2> QED BY <1>s, <2>1, <2>3, SerialLocal DEF Waiting, Txs, chainVars
<1>3. ASSUME NEW r \in Rows, KeeperRefuse(k, r)
      PROVE  SerialInv'
  <2>1. PICK result \in {"sizing", "intent"} : Settle(k, r, result)
    BY <1>3 DEF KeeperRefuse
  <2> QED BY <1>3, <1>s, <2>1 DEF KeeperRefuse, IsNext, Waiting
<1>4. ASSUME NEW r \in Rows, KeeperResolve(k, r)
      PROVE  SerialInv'
  <2>1. /\ UNCHANGED <<log, req>> /\ Txs' = Txs /\ ~ Waiting(k)
        /\ r \in kp[k].batch /\ log[r].amount > 0
    BY <1>4 DEF KeeperResolve, IsNext, CanBuild, Waiting, Txs, chainVars
  <2>2. /\ kp'[k].pc = "resolved" /\ kp'[k].row = r
        /\ kp'[k].amount = log[r].amount /\ kp'[k].batch = kp[k].batch
    BY <1>4, <1>t DEF KeeperResolve, Keeper
  <2>3. log[r].status = "SUBMITTED"
    BY <2>1 DEF SerialInv, SerialRows, AccountInv, RowShape
  <2>4. \A t \in Txs : t.row # r
    BY <2>1, <2>3, UntradedWhileIdle
  <2>5. \A x \in Rows : x \in kp'[k].batch => log[x].status \in {"SUBMITTED", "PENDING"}
    BY <2>2 DEF SerialInv, SerialRows
  <2> QED BY <2>1, <2>2, <2>3, <2>4, <2>5, SerialLocal
<1>5. CASE KeeperSendFails(k)
  BY <1>5, <1>s DEF KeeperSendFails
<1>6. CASE KeeperReceipt(k)
  <2>1. /\ kp[k].tx \in Txs /\ kp[k].tx.row = kp[k].row
        /\ kp[k].tx.amount = log[kp[k].row].amount
    BY <1>6 DEF KeeperReceipt, SerialInv, SerialKeeper
  <2>2. PICK result : /\ Settle(k, kp[k].row, result)
                      /\ UNCHANGED <<log, req, chainVars>>
    BY <1>6 DEF KeeperReceipt
  <2> QED BY <2>1, <2>2, <1>s
<1> QED
  BY <1>1, <1>2, <1>3, <1>4, <1>5, <1>6, SerialSend, SerialRecord DEF KeeperStep

LEMMA SerialNext ==
    ASSUME Serial
    PROVE  TypeInv /\ AccountInv /\ SerialInv /\ [Next]_vars => SerialInv'
<1> SUFFICES ASSUME TypeInv, AccountInv, SerialInv, [Next]_vars PROVE SerialInv'
  OBVIOUS
<1>1. ASSUME UNCHANGED <<log, req, kp>>, Txs' = Txs PROVE SerialInv'
  BY <1>1 DEF SerialInv, SerialRows, SerialKeeper, SerialTrades, SerialAudit, Waiting
<1>2. ASSUME NEW u \in Users, SyncVault(u) PROVE SerialInv'
  BY <1>1, <1>2 DEF SyncVault, chainVars, Txs
<1>3. ASSUME NEW t \in mempool, Mine(t) PROVE SerialInv'
  BY <1>1, <1>3 DEF Mine, Txs
<1>4. ASSUME NEW k \in Keepers, KeeperCrash(k) PROVE SerialInv'
  BY <1>4 DEF Serial, KeeperCrash, TypeInv, TypeOK
<1>5. CASE UNCHANGED vars
  BY <1>1, <1>5 DEF vars, chainVars, Txs
<1> QED
  BY <1>2, <1>3, <1>4, <1>5, SerialCreate, SerialRequest, SerialKeeperStep DEF Next

\* With one confirmation and one keeper at a time, the amount a CONFIRMED row
\* shows is the amount its transaction traded.
THEOREM SerialAudits == ASSUME Serial PROVE Spec => []AuditMatchesTrade
<1>1. Init => TypeInv /\ AccountInv /\ SerialInv
  BY TypeInit, AccountInit, SerialInit
<1>2. TypeInv /\ AccountInv /\ SerialInv /\ [Next]_vars
        => (TypeInv /\ AccountInv /\ SerialInv)'
  BY TypeNext, AccountNext, SerialNext
<1>3. SerialInv => AuditMatchesTrade
  BY DEF SerialInv, SerialAudit, AuditMatchesTrade
<1> QED BY <1>1, <1>2, <1>3, PTL DEF Spec
--------------------------------------------------------------------------------
(* The refinement.  The lifecycle sees a row's status and how many trades it  *)
(* has; the steps that change neither are stutters.                           *)

StatusBar == [r \in Rows |-> log[r].status]
TradesOf(r) == {t \in Txs : t.row = r}
TradeCount == [r \in Rows |-> Cardinality(TradesOf(r))]

LEMMA MoveStep ==
    ASSUME TypeInv, NEW r \in Rows, NEW from, NEW to,
           log[r].status \in from, log'[r].status = to,
           \A x \in Rows \ {r} : log'[x].status = log[x].status,
           Txs' = Txs
    PROVE  Lifecycle!Move(r, from, to)
<1>1. StatusBar[r] \in from
  BY DEF StatusBar
<1>2. StatusBar' = [StatusBar EXCEPT ![r] = to]
  BY DEF StatusBar
<1>3. TradeCount' = TradeCount
  BY DEF TradeCount, TradesOf
<1> QED BY <1>1, <1>2, <1>3 DEF Lifecycle!Move, StatusBar, TradeCount, TradesOf

LEMMA StutterStep ==
    ASSUME UNCHANGED log, Txs' = Txs
    PROVE  UNCHANGED Lifecycle!vars
BY DEF Lifecycle!vars

LEMMA RefineInit == Init => Lifecycle!Init
<1> SUFFICES ASSUME Init PROVE Lifecycle!Init
  OBVIOUS
<1>1. StatusBar = [r \in Rows |-> "ABSENT"]
  BY DEF Init, StatusBar, AbsentRow
<1>2. \A r \in Rows : TradesOf(r) = {}
  BY DEF Init, TradesOf, Txs
<1>3. TradeCount = [r \in Rows |-> 0]
  BY <1>2, FS_EmptySet DEF TradeCount
<1> QED BY <1>1, <1>3 DEF Lifecycle!Init, StatusBar, TradeCount, TradesOf

LEMMA RefineCreate ==
    ASSUME TypeInv, Create
    PROVE  Lifecycle!Next
<1>1. PICK u \in Users, r \in Rows :
          \/ \E a \in Amounts : ProposeExecution(u, r, a)
          \/ \E s \in {"PENDING", "LOGGED_PROPOSAL"} : InsertIntent(u, r, s)
  BY DEF Create
<1>2. log[r].status = "ABSENT" /\ Txs' = Txs
  BY <1>1 DEF ProposeExecution, InsertIntent, Txs, chainVars
<1>3. PICK s \in {"DRAFT", "PENDING", "LOGGED_PROPOSAL"} :
          log'[r].status = s /\ \A x \in Rows \ {r} : log'[x].status = log[x].status
  <2>1. ASSUME NEW a \in Amounts, ProposeExecution(u, r, a)
        PROVE  /\ \A x \in Rows \ {r} : log'[x] = log[x]
               /\ log'[r].status = "DRAFT"
    BY <2>1 DEF ProposeExecution, AbsentRow, TypeInv, TypeOK
  <2>2. ASSUME NEW s \in {"PENDING", "LOGGED_PROPOSAL"}, InsertIntent(u, r, s)
        PROVE  /\ \A x \in Rows \ {r} : log'[x] = log[x]
               /\ log'[r].status = s
    BY <2>2 DEF InsertIntent, AbsentRow, TypeInv, TypeOK
  <2> QED BY <1>1, <2>1, <2>2
<1>4. Lifecycle!Move(r, {"ABSENT"}, s)
  BY <1>2, <1>3, MoveStep
<1> QED BY <1>4 DEF Lifecycle!Next, Lifecycle!Insert

LEMMA RefineRequest ==
    ASSUME Serial, TypeInv, SerialInv, NEW c \in Requests, RequestStep(c)
    PROVE  [Lifecycle!Next]_Lifecycle!vars
<1>1. CASE ConfirmWrite(c)
  <2>1. PICK r \in Rows : r = req[c].row /\ log[r].status = "DRAFT"
    BY <1>1 DEF ConfirmWrite, TypeInv, RequestShape, SerialInv, SerialRows
  <2>2. /\ \A x \in Rows \ {r} : log'[x] = log[x]
        /\ log'[r].status = "SUBMITTED"
    BY <1>1, <2>1 DEF ConfirmWrite, TypeInv, TypeOK, Row
  <2>3. Txs' = Txs
    BY <1>1 DEF ConfirmWrite, Txs, chainVars
  <2>4. Lifecycle!Move(r, {"DRAFT"}, "SUBMITTED")
    BY <2>1, <2>2, <2>3, MoveStep
  <2> QED BY <2>4 DEF Lifecycle!Next, Lifecycle!Submit
<1>2. CASE ConfirmAbort(c)
  BY <1>2, StutterStep DEF ConfirmAbort, Txs, chainVars
<1>3. ASSUME NEW u \in Users, NEW r \in Rows, NEW a, NEW b, ConfirmRead(c, u, r, a, b)
      PROVE  UNCHANGED Lifecycle!vars
  BY <1>3, StutterStep DEF ConfirmRead, Txs, chainVars
<1> QED BY <1>1, <1>2, <1>3 DEF RequestStep, ConfirmRoute, ConfirmTool

LEMMA RefineSend ==
    ASSUME Serial, TypeInv, SerialInv, NEW k \in Keepers, KeeperSend(k)
    PROVE  Lifecycle!Next
<1>1. PICK t \in Tx : /\ t.row \in Rows
                      /\ log[t.row].status = "SUBMITTED"
                      /\ \A x \in Txs : x.row # t.row
                      /\ Txs' = Txs \cup {t}
                      /\ log' = log
  BY SerialSend
<1>2. TradesOf(t.row) = {} /\ TradesOf(t.row)' = {t}
  BY <1>1 DEF TradesOf
<1>3. \A x \in Rows \ {t.row} : TradesOf(x)' = TradesOf(x)
  BY <1>1 DEF TradesOf
<1>4. StatusBar[t.row] = "SUBMITTED" /\ StatusBar' = StatusBar
  BY <1>1 DEF StatusBar
<1>5. TradeCount[t.row] = 0 /\ TradeCount' = [TradeCount EXCEPT ![t.row] = 1]
  <2>1. Cardinality({}) = 0 /\ Cardinality({t}) = 1
    BY FS_EmptySet, FS_Singleton
  <2> QED BY <1>1, <1>2, <1>3, <2>1 DEF TradeCount
<1>6. Lifecycle!Trade(t.row)
  BY <1>4, <1>5 DEF Lifecycle!Trade, StatusBar, TradeCount, TradesOf
<1> QED BY <1>1, <1>6 DEF Lifecycle!Next

LEMMA RefineRecord ==
    ASSUME Serial, TypeInv, SerialInv, NEW k \in Keepers, KeeperRecord(k)
    PROVE  Lifecycle!Next
<1>1. PICK r \in Rows : r = kp[k].row
  BY RecordRow
<1>2. Txs' = Txs /\ kp[k].pc = "settle"
  BY DEF KeeperRecord, Txs, chainVars
<1>3. /\ log[r].status \in {"SUBMITTED", "PENDING"}
      /\ \A x \in Rows \ {r} : log'[x].status = log[x].status
  BY <1>1, RecordRow DEF SerialInv, SerialRows
<1>4. CASE kp[k].result = "ok"
  <2>1. kp[k].tx \in Txs /\ kp[k].tx.row = r
    BY <1>1, <1>2, <1>4 DEF SerialInv, SerialKeeper
  <2>2. TradesOf(r) = {kp[k].tx}
    BY <2>1 DEF TradesOf, SerialInv, SerialTrades
  <2>3. TradeCount[r] = 1
    BY <2>2, FS_Singleton DEF TradeCount
  <2>4. log[r].status = "SUBMITTED"
    BY <1>3, <2>1 DEF SerialInv, SerialTrades, Submitted
  <2>5. Lifecycle!Move(r, {"SUBMITTED"}, "CONFIRMED")
    BY <1>1, <1>2, <1>3, <1>4, <2>4, RecordRow, MoveStep
  <2>6. Lifecycle!Confirm(r)
    BY <2>3, <2>5 DEF Lifecycle!Confirm, TradeCount, TradesOf
  <2> QED BY <2>6 DEF Lifecycle!Next
<1>5. CASE kp[k].result # "ok"
  <2>1. Lifecycle!Move(r, {"SUBMITTED", "PENDING"}, "FAILED")
    BY <1>1, <1>2, <1>3, <1>5, RecordRow, MoveStep
  <2> QED BY <2>1 DEF Lifecycle!Next, Lifecycle!Fail
<1> QED BY <1>4, <1>5

LEMMA RefineKeeper ==
    ASSUME Serial, TypeInv, SerialInv, NEW k \in Keepers, KeeperStep(k)
    PROVE  [Lifecycle!Next]_Lifecycle!vars
<1>1. ASSUME UNCHANGED <<log, chainVars>> PROVE UNCHANGED Lifecycle!vars
  BY <1>1, StutterStep DEF Txs, chainVars
<1>2. CASE SweepRead(k)
  BY <1>1, <1>2 DEF SweepRead
<1>3. ASSUME NEW r \in Rows, KeeperMock(k, r) \/ KeeperResolve(k, r) \/ KeeperRefuse(k, r)
      PROVE  UNCHANGED Lifecycle!vars
  BY <1>1, <1>3 DEF KeeperMock, KeeperResolve, KeeperRefuse
<1>4. CASE KeeperSendFails(k) \/ KeeperReceipt(k)
  BY <1>1, <1>4 DEF KeeperSendFails, KeeperReceipt
<1> QED BY <1>2, <1>3, <1>4, RefineSend, RefineRecord DEF KeeperStep

LEMMA RefineNext ==
    ASSUME Serial
    PROVE  TypeInv /\ SerialInv /\ [Next]_vars => [Lifecycle!Next]_Lifecycle!vars
<1> SUFFICES ASSUME TypeInv, SerialInv, [Next]_vars PROVE [Lifecycle!Next]_Lifecycle!vars
  OBVIOUS
<1>1. ASSUME NEW u \in Users, SyncVault(u) PROVE UNCHANGED Lifecycle!vars
  BY <1>1, StutterStep DEF SyncVault, Txs, chainVars
<1>2. ASSUME NEW t \in mempool, Mine(t) PROVE UNCHANGED Lifecycle!vars
  BY <1>2, StutterStep DEF Mine, Txs
<1>3. ASSUME NEW k \in Keepers, KeeperCrash(k) PROVE FALSE
  BY <1>3 DEF Serial, KeeperCrash, TypeInv, TypeOK
<1>4. CASE UNCHANGED vars
  BY <1>4, StutterStep DEF vars, chainVars, Txs
<1> QED
  BY <1>1, <1>2, <1>3, <1>4, RefineCreate, RefineRequest, RefineKeeper DEF Next

\* With one confirmation and one real keeper at a time and no crash, the ledger
\* is an implementation of the strict lifecycle: every step of the code is a
\* step of the lifecycle or changes nothing the owner of a row can see.
THEOREM SerialRefines == ASSUME Serial PROVE Spec => ImplementsLifecycle
<1>1. Init => TypeInv /\ AccountInv /\ SerialInv
  BY TypeInit, AccountInit, SerialInit
<1>2. TypeInv /\ AccountInv /\ SerialInv /\ [Next]_vars
        => (TypeInv /\ AccountInv /\ SerialInv)'
  BY TypeNext, AccountNext, SerialNext
<1> QED
  BY <1>1, <1>2, RefineInit, RefineNext, PTL DEF Spec, ImplementsLifecycle, Lifecycle!Spec
================================================================================
