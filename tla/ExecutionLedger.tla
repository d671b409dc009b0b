---------------------------- MODULE ExecutionLedger ----------------------------
(***************************************************************************)
(* The life of an ExecutionLog row: a proposal is drafted by the chat      *)
(* tools, confirmed by the user (HTTP route) or by the model's own tool    *)
(* call, swept by the keeper, traded on chain and recorded as CONFIRMED or *)
(* FAILED.                                                                 *)
(*                                                                         *)
(* Processes that share the execution_logs table:                          *)
(*   - requests: POST /api/execution/:id/execute and the executeTrade      *)
(*     tool.  Each reads the row, awaits the payload builder or the        *)
(*     signer, and writes the row back without looking at it again;        *)
(*   - keepers: runs of sweep-execution-logs.ts (a loop, a cron job, or    *)
(*     both).  Each reads a batch of rows, and for every row sends a       *)
(*     transaction, waits for its receipt and writes the row back;         *)
(*   - the intent listener, here one action that inserts a row.            *)
(* The chain is a mempool whose transactions are mined or reverted.        *)
(***************************************************************************)
EXTENDS Naturals, FiniteSets

CONSTANTS
    Rows,        \* ids of ExecutionLog rows
    Users,       \* wallets; the owner of a row is its userId
    Amounts,     \* amountIn values a payload may carry (0 is "no sizing")
    Requests,    \* confirmation requests the web server can have in flight
    Keepers,     \* keeper processes
    MockProcesses, \* requests and keepers whose AFX_ONCHAIN_CONFIRM_MODE is
                   \* not "real" (the default is "mock", per process)
    SweepTake,   \* "take" of the sweeper's query (100 in the code)
    MaxCrashes,  \* bound on keeper crashes, over all keepers
    Null,        \* SQL NULL, JavaScript null
    MockHash     \* a hash made up by the mock signer or the mock keeper

\* The seq-th transaction keeper sent for row; its calldata spends amount.
Tx == [keeper : Keepers, row : Rows, seq : Nat, amount : Nat]

ASSUME ConstantsAssumption ==
    /\ IsFiniteSet(Rows)
    /\ Amounts \subseteq Nat \ {0}
    /\ MockProcesses \subseteq Requests \cup Keepers
    /\ SweepTake \in Nat \ {0}
    /\ MaxCrashes \in Nat
    /\ Null # MockHash
    /\ Null \notin Rows \cup Users \cup Tx
    /\ MockHash \notin Tx

VARIABLES
    log,       \* [Rows -> row of execution_logs]
    vaults,    \* users that have a SmartVault row with status ACTIVE
    req,       \* [Requests -> the local state of a confirmation]
    kp,        \* [Keepers -> the local state of a keeper]
    mempool,   \* transactions broadcast and not mined yet
    mined,     \* transactions mined with success
    reverted,  \* transactions mined and reverted
    sent,      \* [Keepers -> [Rows -> number of transactions broadcast]]
    crashes,   \* keeper crashes so far
    \* History: what the row itself forgets.
    confirmed, \* [Rows -> amounts some confirmation wrote as SUBMITTED]
    arms,      \* [Rows -> number of times the row was written as SUBMITTED]
    lost       \* [Keepers -> [Rows -> crashes after a broadcast for the row]]

chainVars == <<mempool, mined, reverted>>
history == <<confirmed, arms, lost>>
vars == <<log, vaults, req, kp, chainVars, sent, crashes, history>>

Txs == mempool \cup mined \cup reverted

--------------------------------------------------------------------------------
(* Rows *)

\* "ABSENT" stands for an id no row has yet.  No code in the repository
\* writes PENDING_SIGNATURE, AWAITING_* or CANCELLED.
Status == {"ABSENT", "DRAFT", "PENDING", "LOGGED_PROPOSAL",
           "SUBMITTED", "CONFIRMED", "FAILED"}

\* keeper_error: "sizing" is MISSING_EXECUTION_SIZING for want of a sizing
\* block, "intent" any other failure to build the trade, "chain" a failed
\* call, a revert or a receipt that never came.
Errors == {"sizing", "intent", "chain"}

Row == [status : Status,
        user : Users \cup {Null},
        amount : Nat,              \* payloadJson.sizing.amountIn, 0 if absent
        userConfirmed : BOOLEAN,   \* payloadJson.sizing.userConfirmed
        hash : Tx \cup {Null, MockHash},
        error : Errors \cup {Null},
        createdAt : Nat]

AbsentRow == [status |-> "ABSENT", user |-> Null, amount |-> 0,
              userConfirmed |-> FALSE, hash |-> Null, error |-> Null,
              createdAt |-> 0]

\* Mutant of Confirmable: a row can be confirmed again until it is settled.
ConfirmableUntilSettled == {"DRAFT", "SUBMITTED"}

Confirmable == {"DRAFT"}             \* and PENDING_SIGNATURE, never written
Sweepable == {"SUBMITTED", "PENDING"}

\* Mutant of LiveRows: failed rows are swept again, as a retry.
LiveRowsWithFailed == {r \in Rows : log[r].status \in Sweepable \cup {"FAILED"}}

LiveRows == {r \in Rows : log[r].status \in Sweepable}

\* createdAt of a row inserted now.
Now == Cardinality({r \in Rows : log[r].status # "ABSENT"}) + 1

--------------------------------------------------------------------------------
(* Local states of the processes *)

IdleRequest == [pc |-> "idle", row |-> Null, user |-> Null, amount |-> 0,
                userConfirmed |-> FALSE]

IdleKeeper == [pc |-> "idle", batch |-> {}, row |-> Null, amount |-> 0,
               tx |-> Null, result |-> Null]

Init ==
    /\ log = [r \in Rows |-> AbsentRow]
    /\ vaults = {}
    /\ req = [c \in Requests |-> IdleRequest]
    /\ kp = [k \in Keepers |-> IdleKeeper]
    /\ mempool = {} /\ mined = {} /\ reverted = {}
    /\ sent = [k \in Keepers |-> [r \in Rows |-> 0]]
    /\ crashes = 0
    /\ confirmed = [r \in Rows |-> {}]
    /\ arms = [r \in Rows |-> 0]
    /\ lost = [k \in Keepers |-> [r \in Rows |-> 0]]

--------------------------------------------------------------------------------
(* Creation of rows and vaults *)

\* The proposeExecution tool: past the guardrail and the sizing engine (either
\* of which rejects without a write) it inserts a DRAFT with a sizing block.
ProposeExecution(u, r, a) ==
    /\ log[r].status = "ABSENT"
    /\ log' = [log EXCEPT ![r] = [AbsentRow EXCEPT !.status = "DRAFT",
                                                   !.user = u,
                                                   !.amount = a,
                                                   !.createdAt = Now]]
    /\ UNCHANGED <<vaults, req, kp, chainVars, sent, crashes, history>>

\* The intent listener inserts a row whose payload has no sizing block: PENDING
\* when the message names a whitelisted router, LOGGED_PROPOSAL when it names
\* none.  Duplicates and unlisted routers are dropped before the insert.
InsertIntent(u, r, status) ==
    /\ log[r].status = "ABSENT"
    /\ log' = [log EXCEPT ![r] = [AbsentRow EXCEPT !.status = status,
                                                   !.user = u,
                                                   !.createdAt = Now]]
    /\ UNCHANGED <<vaults, req, kp, chainVars, sent, crashes, history>>

\* POST /api/vault/sync registers the vault the user deployed, as ACTIVE.
SyncVault(u) ==
    /\ u \notin vaults
    /\ vaults' = vaults \cup {u}
    /\ UNCHANGED <<log, req, kp, chainVars, sent, crashes, history>>

--------------------------------------------------------------------------------
(* Confirmation: read the row, await, write it back *)

\* Both entry points look the row up by id, owner and status, and keep its
\* payload.  The HTTP route replaces the amount with the user's; the tool
\* takes the proposal as it is.
ConfirmRead(c, u, r, amount, userConfirmed) ==
    /\ req[c].pc = "idle"
    /\ log[r].status \in Confirmable
    /\ log[r].user = u
    /\ req' = [req EXCEPT ![c] = [pc |-> "building", row |-> r, user |-> u,
                                  amount |-> amount,
                                  userConfirmed |-> userConfirmed]]
    /\ UNCHANGED <<log, vaults, kp, chainVars, sent, crashes, history>>

ConfirmRoute(c, u, r, a) == ConfirmRead(c, u, r, a, TRUE)

ConfirmTool(c, u, r) == ConfirmRead(c, u, r, log[r].amount, log[r].userConfirmed)

\* Mutant of CanBuild: the vault lookup is forgotten.
CanBuildWithoutVault(u, amount) == amount > 0

\* buildWeb3SubmissionPayload succeeds only with a sizing block and a vault.
CanBuild(u, amount) == amount > 0 /\ u \in vaults

\* The update names the row by id alone: whatever happened to the row since it
\* was read, it becomes SUBMITTED.
ConfirmWrite(c) ==
    LET r == req[c].row IN
    /\ req[c].pc = "building"
    /\ c \notin MockProcesses => CanBuild(req[c].user, req[c].amount)
    /\ log' = [log EXCEPT ![r] =
                 [@ EXCEPT !.status = "SUBMITTED",
                           !.amount = req[c].amount,
                           !.userConfirmed = req[c].userConfirmed,
                           !.hash = IF c \in MockProcesses THEN MockHash ELSE Null]]
    /\ req' = [req EXCEPT ![c] = IdleRequest]
    /\ arms' = [arms EXCEPT ![r] = @ + 1]
    /\ confirmed' = [confirmed EXCEPT ![r] = @ \cup {req[c].amount}]
    /\ UNCHANGED <<vaults, kp, chainVars, sent, crashes, lost>>

\* The builder or the signer fails, or the server dies: nothing is written.
ConfirmAbort(c) ==
    /\ req[c].pc = "building"
    /\ req' = [req EXCEPT ![c] = IdleRequest]
    /\ UNCHANGED <<log, vaults, kp, chainVars, sent, crashes, history>>

--------------------------------------------------------------------------------
(* The keeper *)

\* The oldest SweepTake live rows.
IsSweepBatch(b) ==
    /\ b # {}
    /\ Cardinality(b) <= SweepTake
    /\ b # LiveRows => Cardinality(b) = SweepTake
    /\ \A x \in b, y \in LiveRows \ b : log[x].createdAt <= log[y].createdAt

SweepRead(k) ==
    /\ kp[k].pc = "idle"
    /\ \E b \in SUBSET LiveRows :
          /\ IsSweepBatch(b)
          /\ kp' = [kp EXCEPT ![k] = [@ EXCEPT !.pc = "loop", !.batch = b]]
    /\ UNCHANGED <<log, vaults, req, chainVars, sent, crashes, history>>

\* The row the loop takes next: the oldest of those left in the batch.
IsNext(k, r) ==
    /\ kp[k].pc = "loop"
    /\ r \in kp[k].batch
    /\ \A x \in kp[k].batch : log[r].createdAt <= log[x].createdAt

Settle(k, r, result) ==
    kp' = [kp EXCEPT ![k] = [@ EXCEPT !.pc = "settle", !.row = r,
                                      !.result = result]]

\* confirmOnChainMock: no chain, an outcome drawn at random.
KeeperMock(k, r) ==
    /\ k \in MockProcesses
    /\ IsNext(k, r)
    /\ \E result \in {"ok", "chain"} : Settle(k, r, result)
    /\ UNCHANGED <<log, vaults, req, chainVars, sent, crashes, history>>

\* confirmOnChainReal reads the row again, but not its status, and
\* resolveWeb3Intent builds the trade from its payload.
KeeperResolve(k, r) ==
    /\ k \notin MockProcesses
    /\ IsNext(k, r)
    /\ CanBuild(log[r].user, log[r].amount)
    /\ kp' = [kp EXCEPT ![k] = [@ EXCEPT !.pc = "resolved", !.row = r,
                                          !.amount = log[r].amount]]
    /\ UNCHANGED <<log, vaults, req, chainVars, sent, crashes, history>>

\* Building fails: no sizing block, no vault, a router off the whitelist or a
\* quoter without liquidity.
KeeperRefuse(k, r) ==
    /\ k \notin MockProcesses
    /\ IsNext(k, r)
    /\ Settle(k, r, IF log[r].amount = 0 THEN "sizing" ELSE "intent")
    /\ UNCHANGED <<log, vaults, req, chainVars, sent, crashes, history>>

Broadcast(k) ==
    LET r == kp[k].row
        t == [keeper |-> k, row |-> r, seq |-> sent[k][r] + 1,
              amount |-> kp[k].amount]
    IN  /\ mempool' = mempool \cup {t}
        /\ sent' = [sent EXCEPT ![k][r] = @ + 1]
        /\ \/ kp' = [kp EXCEPT ![k] = [@ EXCEPT !.pc = "sent", !.tx = t]]
           \* The node took the transaction but its answer was lost:
           \* writeContract throws.
           \/ kp' = [kp EXCEPT ![k] = [@ EXCEPT !.pc = "settle", !.tx = t,
                                                !.result = "chain"]]
        /\ UNCHANGED <<mined, reverted>>

KeeperSend(k) ==
    /\ kp[k].pc = "resolved"
    /\ Broadcast(k)
    /\ UNCHANGED <<log, vaults, req, crashes, history>>

\* writeContract throws before the broadcast (simulation reverts, RPC down).
KeeperSendFails(k) ==
    /\ kp[k].pc = "resolved"
    /\ Settle(k, kp[k].row, "chain")
    /\ UNCHANGED <<log, vaults, req, chainVars, sent, crashes, history>>

\* Mutant of KeeperReceipt: receipt.status is not looked at.
KeeperReceiptUnchecked(k) ==
    /\ kp[k].pc = "sent"
    /\ Settle(k, kp[k].row, IF kp[k].tx \in mempool THEN "chain" ELSE "ok")
    /\ UNCHANGED <<log, vaults, req, chainVars, sent, crashes, history>>

\* waitForTransactionReceipt returns, or gives up on a transaction that is
\* still in the mempool.
KeeperReceipt(k) ==
    /\ kp[k].pc = "sent"
    /\ Settle(k, kp[k].row, IF kp[k].tx \in mined THEN "ok" ELSE "chain")
    /\ UNCHANGED <<log, vaults, req, chainVars, sent, crashes, history>>

AfterRecord(k) ==
    LET left == kp[k].batch \ {kp[k].row} IN
    [IdleKeeper EXCEPT !.pc = IF left = {} THEN "idle" ELSE "loop",
                       !.batch = left]

\* Mutant of KeeperRecord: a failed row is left for the next sweep.
KeeperRecordSkipsFailure(k) ==
    LET r == kp[k].row IN
    /\ kp[k].pc = "settle"
    /\ log' = IF kp[k].result = "ok"
              THEN [log EXCEPT ![r].status = "CONFIRMED", ![r].hash = MockHash]
              ELSE log
    /\ kp' = [kp EXCEPT ![k] = AfterRecord(k)]
    /\ UNCHANGED <<vaults, req, chainVars, sent, crashes, history>>

\* The update names the row by id alone; a failure does not store the hash.
KeeperRecord(k) ==
    LET r == kp[k].row IN
    /\ kp[k].pc = "settle"
    /\ log' = IF kp[k].result = "ok"
              THEN [log EXCEPT ![r] =
                      [@ EXCEPT !.status = "CONFIRMED",
                                !.hash = IF k \in MockProcesses THEN MockHash
                                                                ELSE kp[k].tx]]
              ELSE [log EXCEPT ![r] = [@ EXCEPT !.status = "FAILED",
                                                !.error = kp[k].result]]
    /\ kp' = [kp EXCEPT ![k] = AfterRecord(k)]
    /\ UNCHANGED <<vaults, req, chainVars, sent, crashes, history>>

\* Any exception outside confirmExecutionOnChain ends the process (exit 1), as
\* does a kill; the next run starts from a fresh query.
KeeperCrash(k) ==
    /\ crashes < MaxCrashes
    /\ kp[k].pc # "idle"
    /\ crashes' = crashes + 1
    /\ kp' = [kp EXCEPT ![k] = IdleKeeper]
    /\ lost' = IF kp[k].tx # Null
               THEN [lost EXCEPT ![k][kp[k].row] = @ + 1]
               ELSE lost
    /\ UNCHANGED <<log, vaults, req, chainVars, sent, confirmed, arms>>

--------------------------------------------------------------------------------
(* The chain *)

Mine(t) ==
    /\ mempool' = mempool \ {t}
    /\ \/ mined' = mined \cup {t} /\ UNCHANGED reverted
       \/ reverted' = reverted \cup {t} /\ UNCHANGED mined
    /\ UNCHANGED <<log, vaults, req, kp, sent, crashes, history>>

--------------------------------------------------------------------------------

Create ==
    \E u \in Users, r \in Rows :
        \/ \E a \in Amounts : ProposeExecution(u, r, a)
        \/ \E s \in {"PENDING", "LOGGED_PROPOSAL"} : InsertIntent(u, r, s)

RequestStep(c) ==
    \/ \E u \in Users, r \in Rows :
          \/ \E a \in Amounts : ConfirmRoute(c, u, r, a)
          \/ ConfirmTool(c, u, r)
    \/ ConfirmWrite(c)
    \/ ConfirmAbort(c)

KeeperStep(k) ==
    \/ SweepRead(k)
    \/ \E r \in Rows : KeeperMock(k, r) \/ KeeperResolve(k, r) \/ KeeperRefuse(k, r)
    \/ KeeperSend(k)
    \/ KeeperSendFails(k)
    \/ KeeperReceipt(k)
    \/ KeeperRecord(k)

Next ==
    \/ Create
    \/ \E u \in Users : SyncVault(u)
    \/ \E c \in Requests : RequestStep(c)
    \/ \E k \in Keepers : KeeperStep(k) \/ KeeperCrash(k)
    \/ \E t \in mempool : Mine(t)

Spec == Init /\ [][Next]_vars

\* A keeper that is up keeps stepping: the loop polls for ever, and every await
\* in it ends (viem gives up on a receipt after its timeout).  Nothing obliges
\* users, requests or the chain to move.
FairSpec == Spec /\ \A k \in Keepers : WF_vars(KeeperStep(k))

--------------------------------------------------------------------------------
(* Properties *)

\* Every variable keeps the shape the schema and the scripts give it.
Request == [pc : {"idle", "building"}, row : Rows \cup {Null},
            user : Users \cup {Null}, amount : Nat, userConfirmed : BOOLEAN]

Keeper == [pc : {"idle", "loop", "resolved", "sent", "settle"},
           batch : SUBSET Rows, row : Rows \cup {Null}, amount : Nat,
           tx : Tx \cup {Null}, result : Errors \cup {"ok", Null}]

TypeOK ==
    /\ log \in [Rows -> Row]
    /\ vaults \subseteq Users
    /\ req \in [Requests -> Request]
    /\ kp \in [Keepers -> Keeper]
    /\ mempool \subseteq Tx /\ mined \subseteq Tx /\ reverted \subseteq Tx
    /\ sent \in [Keepers -> [Rows -> Nat]]
    /\ crashes \in Nat
    /\ confirmed \in [Rows -> SUBSET Nat]
    /\ arms \in [Rows -> Nat]
    /\ lost \in [Keepers -> [Rows -> Nat]]

\* A keeper never broadcasts more trades for a row than there were writes of
\* SUBMITTED to it plus crashes of that keeper between a broadcast and its
\* record: stale batches, re-reads and late confirmations create no other
\* duplicate.
TradesAccounted ==
    \A k \in Keepers, r \in Rows : sent[k][r] <= arms[r] + lost[k][r]

\* Whatever the interleaving, a transaction trades an amount that a
\* confirmation of its row wrote, for an owner with an ACTIVE vault; a row the
\* intent listener inserted is never traded.
TradesWereConfirmed ==
    \A t \in Txs : /\ t.amount \in confirmed[t.row]
                   /\ log[t.row].user \in vaults

\* A CONFIRMED row carries the hash of a transaction of its own that was mined
\* with success, even when two keepers or a late confirmation wrote over each
\* other; only where some keeper is mock may the hash be a made-up one.
ConfirmedIsMined ==
    \A r \in Rows : log[r].status = "CONFIRMED" =>
        \/ log[r].hash \in mined /\ log[r].hash.row = r
        \/ log[r].hash = MockHash /\ Keepers \cap MockProcesses # {}

\* No row moves the vault's funds twice: the promise of the idempotency key ("per proposte ed
\* esecuzioni") and of the "già eseguito" answer of the execute route.
AtMostOneTrade ==
    \A t1, t2 \in mined : t1.row = t2.row => t1 = t2

\* The amount in the payload of a CONFIRMED row is the amount its transaction
\* traded: the row is the audit record of the execution.
AuditMatchesTrade ==
    \A r \in Rows : log[r].status = "CONFIRMED" /\ log[r].hash \in Txs =>
        log[r].hash.amount = log[r].amount

\* Once submitted, a row is settled: the user's status bar leaves SUBMITTED.
SubmittedSettles ==
    \A r \in Rows : log[r].status = "SUBMITTED" ~>
                        log[r].status \in {"CONFIRMED", "FAILED"}

\* The strict lifecycle, with the rows' trades counted on the chain.
Lifecycle == INSTANCE ExecutionLifecycle WITH
    status <- [r \in Rows |-> log[r].status],
    trades <- [r \in Rows |-> Cardinality({t \in Txs : t.row = r})]

\* With one confirmation and one keeper at a time and no keeper crash, the
\* ledger implements the strict lifecycle: submitted once, traded at most once,
\* settled for good.
ImplementsLifecycle == Lifecycle!Spec
================================================================================
