# LPFT in TLA+

LPFT ("Agentic DeFi Layer") lets a user talk to an assistant, backtest a
strategy, confirm a proposed trade, and have a keeper execute it through a
personal ERC-4626 vault. This directory holds TLA+ models of the parts of it
where several processes, contracts or callbacks share state, the TLC
configurations that check them on small instances, and TLAPS proofs of the
results that matter most for every instance.

Paths below are relative to the repository's root. `PROJECT.json` is the index:
it lists for every definition the lines it models, for every property the run
that checks it and a mutation of the model that breaks it, and for every hazard
its line.

    tlc -workers 2 -config MCExecutionLedger_race.cfg MCExecutionLedger.tla
    tlapm ExecutionLedger_proofs.tla

## 1. Inventory

### 1.1 Execution lifecycle

`apps/web/lib/afx-chat-tools.ts`, `apps/web/app/api/execution/[id]/execute/route.ts`,
`apps/web/scripts/sweep-execution-logs.ts`, `apps/web/lib/services/web3-keeper.ts`,
`apps/web/prisma/schema.prisma`.

- State: the table `execution_logs` (status, payloadJson, txHash, keeper
  error), the registered vaults, the confirmations in flight in the web server,
  the batch and position of every keeper, the chain's transactions.
- Operations: the `proposeExecution` tool inserts a DRAFT; the execute route and
  the `executeTrade` tool read a confirmable row, await the payload builder (or
  the mock signer) and write it back as SUBMITTED; the keeper reads a batch of
  SUBMITTED and PENDING rows and for each one builds the trade, sends it, waits
  for the receipt and writes CONFIRMED or FAILED.
- Interaction: through the table only. Nothing locks a row and every write names
  the row by its id, whatever the row has become since it was read.
- Hard: two confirmations, a confirmation late on a row being swept, several
  keepers (a loop and a cron job), stale batches, a crash between broadcast and
  record, receipts that time out on transactions that are mined later.
- Correct when: no funds move without a confirmation, no row moves them twice,
  CONFIRMED means mined, the row says what was traded, what is submitted ends.

### 1.2 Vault registry

`apps/web/app/api/vault/sync/route.ts`, `vault/deploy/route.ts`. State: SmartVault
rows, ACTIVE or not. The route records a vault the user deployed; the payload
builder and the keeper look it up. Part of the same model as 1.1.

### 1.3 Intent intake

`services/api/lpft_api/intent_publisher.py`, `apps/web/scripts/intent-listener.ts`,
`apps/web/lib/afx-user.ts`.

- State: a Redis channel that keeps nothing, the listeners' subscriptions, the
  handlers suspended at an await, the users and the rows.
- Operations: publish, subscribe, and a handler that looks for a duplicate key,
  checks the router, finds or creates the user and inserts the row.
- Hard: the listener does not wait for a handler before it takes the next
  message, every check is separated from its write by awaits, several listeners
  receive the same message, and unique constraints resolve the collisions.
- Correct when: one row per key, a row repeats a message, what was handled is
  recorded.

### 1.4 SmartVault

`packages/contracts/src/SmartVault.sol`. State: token balances, allowances given
to routers, shares, the router whitelist, the trade in progress. Operations:
deposit, mint, withdraw, redeem, `setRouterWhitelisted`, `executeTrade`. It hands
control to a router in the middle of `executeTrade`, and rounds the ERC-4626
conversions. Only `executeTrade` is `nonReentrant`: under the router's call the owner may
deposit, withdraw and change the whitelist, and holders may transfer shares. Correct when no
allowance outlives a trade, a trade takes at most its amount, no owner's operation dilutes the
shares that are out, and a trade amounts to one settlement within its order, or to nothing,
whatever came in under it.

### 1.5 VaultFactory

`packages/contracts/src/VaultFactory.sol`. State: the global routers as an array
and as a mapping, the vaults as an array and as a mapping, and the copy of the
router list every vault gets. Operations: the constructor's loop, `createVault`,
`addGlobalRouter`, `removeGlobalRouter` (swap and pop). Correct when the doubled
registers agree.

### 1.6 Backtest runs

`services/api/lpft_api/main.py`, `queue.py`, `inline_backtest.py`,
`services/worker/lpft_worker/jobs.py`, `worker.py`.

- State: Run rows, artifact directories, the RQ queue, the registry of workers in
  Redis, the SQLAlchemy sessions of the handlers and of the workers.
- Operations: create a run, run it again, enqueue it or fall back to an inline
  thread, execute it, write artifacts and then the row.
- Hard: the registry names dead workers, `enqueue` may raise after its push, a
  session compares what it writes with what it loaded long ago, processes die.
- Correct when: a request is executed once, the row and the artifacts tell the
  same story, a run ends.

### 1.7 Assistant

`services/api/lpft_api/main.py` (`_stream_assistant`), `assistant.py`, `llm.py`,
`dsl.py`, `capabilities.py`, `program_llm.py`; `apps/web/lib/api.ts` and
`StrategyBuilder.tsx` on the client's side.

- State: the server keeps none between turns; the client posts all messages, the
  current code and specification each time. In a turn: the plan, the
  specification, the program, the run.
- Operations: ask for the first missing requirement; once none is missing, stream
  a specification, normalise and judge it, generate a program and repair it once,
  load the market data, create the run and enqueue it.
- Hard: requirements are read again from free text at every turn; a specification
  reaches the run on three paths (parsed from the stream, from a second call,
  posted by the client); the stream is cut into deltas anywhere; the client may go.
- Correct when: a run has a program that was checked and a user who approved; the
  recommended answers lead to a generation; what was streamed is what is used.

### 1.8 Program engine (Python)

`services/shared/lpft_shared/engine.py`. Per bar: the program's output becomes a
target, overlays (stop, take-profit, trailing) flatten it, latency delays it, an
order replaces the one at rest and fills in pieces, and at the end trade rows are
cut from the weights. Correct when fills add up to the weight, a weight let
through is within its limits, and the rows are the runs of the weight.

### 1.9 Daily backtest engine (TypeScript)

`apps/web/services/quant/event-driven-engine.ts` with `signal-engine.ts`,
`strategy-adapter.ts`, `portfolio-state.ts`, `risk-manager.ts`,
`execution-engine.ts`, `trade-journal.ts`, `kelly-sizing.ts`,
`trading-friction.ts`. State: cash, positions, entry prices, high-water mark, halt,
the signal and the risk order that wait for tomorrow, the journal. A day releases
the halt, fills the risk order, fills the signal, marks to market, looks for a
breach or a stop, and computes the next signal. Correct when the order of those
steps never fills a stale signal, spends money that is not there or loses a
position from the journal, and a breach suspends the portfolio until a new cycle.

### 1.10 Market data

`apps/web/services/market_data/data_fetcher.ts`, `router.ts`, `price_matrix.ts`,
`market_data.ts`. State: the table `market_data_bars`, shared by all requests.
Operations: read the rows of a range, decide if they serve, else ask the
provider and write its bars in chunks; align all symbols to one calendar. Correct
when what is served covers the request and never looks ahead.

### 1.11 Tick replay and multi-session replay

`apps/web/services/market_data/tick-replay-engine.ts`, `hft-multi-session-replay.ts`,
`hft-replay-config.ts`. A loop over session windows downloads the pages of each kind
of event and sends them through one replay object to a new HFT engine. State: the
window, the pages, the `aborted` flag, counters. Correct when what is replayed has
no hole and a session counted was replayed.

### 1.12 HFT engine

`apps/web/services/quant/hft-engine.ts`, `hft-limit-queue.ts`, `hft-toxicity.ts`,
`hft-latency.ts`. State: at most one resting order, a position, the last book, the
halted flag. Handlers `onTick` and `onOrderBookUpdate`, then `finalize`. Hard: the
order in which a handler cancels, fills, expires, stops and enters; books that are
older than the tick or have one side only. Correct when orders fit the position,
stops hold, a halted engine is flat.

### 1.13 Sizing and the two confirmation widgets

`apps/web/lib/afx-execution-guard.ts`, `lib/services/execution-sizing.ts`,
`lib/execution-user-sizing.ts`, `lib/afx-market-routing.ts`, `lib/afx-rwa-tokens.ts`,
`app/components/ProposeExecutionWidget.tsx`, `ReportExecutionConfirm.tsx`,
`lib/services/web3-keeper.ts`. An amount goes from the vault's balance to the
row, as a text into an input that the user edits and late answers rewrite, back
into the row, and into call data that is built twice. Both confirmations, the route and the
tool, read the draft, await and write the row by its id alone, from any number of tabs.
Correct when the proposal can be paid and what is traded is, whole, what one confirmation
asked for: the only one, unless two held the draft at once.

### 1.14 Strategy compiler

`apps/web/lib/afx-payload-normalize.ts`, `afx-quant-strategy-schema.ts`,
`afx-quant-compiler.ts`, `afx-risk-caps.ts`, `services/quant/strategy-adapter.ts`, and the
tool `buildQuantitativeStrategy` in `afx-chat-tools.ts`. No state. A model's JSON is
unwrapped, renamed and filled in, accepted or refused by a strict schema, capped,
checked against the rules of its intent, and compiled twice: for an engine, and as
the legacy specification kept with the report. The payload passes the
normalisation three times. Correct when the spelling does not matter, a later pass
changes nothing, and the caps reach the engine, the report and the page.

### 1.15 Chat

`apps/web/app/api/chat/route.ts`, `app/components/FiduciaryChat.tsx`, `lib/afx-store.ts`,
`lib/afx-user.ts`.

- State: a wallet, a conversation id and a busy flag per tab, the copy that all tabs
  of a browser share in localStorage, the rows of users, conversations and messages.
- Operations: a tab reads the store when it is mounted, switches the wallet, sends a
  message; the route finds or creates the user and the conversation, stores the question,
  streams the answer with the tools' rows, and stores the answer at its end.
- Hard: localStorage outlives the database and is read once; an older client sent one
  id for everybody; the wallet changes while an answer is under way; two requests insert one
  id; the reader leaves.
- Correct when: what is written belongs to the wallet it was sent with, and a
  wallet that asks for its own conversation gets it.

### 1.16 Reports and the library

`apps/web/lib/afx-snapshot-store.ts`, `app/api/analysis/snapshots/`, `app/api/strategies/`, `app/analysis/[id]/page.tsx`,
`app/strategies/page.tsx`, `app/components/SaveStrategyActions.tsx`.

- State: who owns a report and whether it is in the library; the wallet, the page,
  the save widget, the fetches under way.
- Operations: a tool stores a report; the pages load a report or the library again at each
  change of wallet or address; the widget asks whether its report is saved and saves it.
- Hard: answers arrive in any order, after the wallet or the report has changed, or
  never; the routes find rows by id and by the wallet of the request.
- Correct when: what is shown is of the wallet and the report of now, and what is called
  saved is in the library.

### 1.17 Parts without a model

| Part | Why |
|---|---|
| Alpaca stream adapter (`alpaca-stream-adapter.ts`) | exported and constructed nowhere |
| Test tokens and `MockRwaPrimary` | testnet mocks; a router like any other to `SmartVault` |
| Prompts and the drawing of the UI | wording and presentation |
| `AnalysisReportButton`, `api/save-strategy` | reached by no page; writes a file of code and no row |
| Python market data and tier-1 statistics | floating-point series over data frames, beyond TLC's integers |
| `agentic-finance-exchange/` | archived prototype, superseded by `apps/web` |

## 2. Modules

| Module | Models | State |
|---|---|---|
| `ExecutionLedger` | 1.1 and 1.2 as one composed system | rows, confirmations, keepers, chain |
| `ExecutionLifecycle` | what a row promises, with no process | status and number of trades of a row |
| `IntentIntake` | 1.3 | channel, handlers, users, rows |
| `SmartVault`, `VaultFactory` | 1.4, 1.5 | the contracts' storage |
| `AtomicVault` | what 1.4 promises its shareholders, without allowances or transfers of a router | funds, shares, whitelist, the order that is open |
| `BacktestRuns` | 1.6 | rows, artifacts, queue, handlers, workers |
| `AssistantTurn` | 1.7 | what was said, the turn in the server, what the client has shown |
| `ProgramEngine` | 1.8 | overlay, pipe of targets, order, weight, trade rows |
| `DailySignals` | the operators of 1.9 that compute weights and dates | none |
| `StrategyCompiler` | 1.14, from a payload to the configurations `DailyEngine` starts with | none |
| `DailyEngine` | 1.9 | the account, day by day |
| `CircuitBreaker` | what the halt of 1.9 promises, without money | trading, queued or halted |
| `MarketData` | 1.10 | the table, the requests |
| `TickReplay` | 1.11 | the loop and the pages |
| `HftEngine` | 1.12 | the engine's fields |
| `TradeSizing` | 1.13 | the proposal, the input, the confirmations under way, the row, the call |
| `ChatSession` | 1.15 | the tabs, their storage, the requests, the rows |
| `ReportLibrary` | 1.16 | the rows, the page, the widget, the fetches |
| `MC*` | instances for TLC: constants, symmetry, composition | |
| `*_proofs` | theorems of the modules they extend (section 6) | |

Every operation of the code is one action, or one action per stretch between two
awaits where something else may run. Definitions whose comment begins with
"Mutant" are plausible bugs of the definition that follows them. They are no
part of any specification; each shows that some property would notice the bug.

`MCContracts`, `MCServices`, `MCHft` and `MCBacktests` put components that share no
state side by side: a variable `lane` chooses at the start which one a behaviour
is about, so that one run asks everything of one group. Nothing is assumed of the
others: they stand still in that behaviour. The components that do share state are
composed inside one module (`ExecutionLedger`: web server, keepers, chain;
`BacktestRuns`: API, queue, workers; `TradeSizing`: server, widget, keeper;
`ChatSession`: tabs, route; `ReportLibrary`: page, widget, routes).

### ExecutionLedger

`log` is the table. A confirmation is `ConfirmRoute` or `ConfirmTool` (the read),
then `ConfirmWrite` or `ConfirmAbort`; `req` keeps what it read. A keeper is
`SweepRead`, then per row of the batch `KeeperResolve`, `KeeperSend`,
`KeeperReceipt`, `KeeperRecord`, with `KeeperRefuse` and `KeeperSendFails` for the
errors and `KeeperMock` for the mock mode. `Mine` is the chain. Whether a process
is in mock mode is a constant per process (`MockProcesses`), since the variable
`AFX_ONCHAIN_CONFIRM_MODE` is read by each process and defaults to mock. `Amounts`
stands for `amountIn`; amount 0 is a payload without a sizing block. The history
variables `confirmed`, `arms` and `lost` count what the rows forget.
PENDING_SIGNATURE, the AWAITING states and CANCELLED are in the schema and
written by no code, so no row ever has them.

`ExecutionLifecycle` is the abstract specification: inserted, submitted once,
traded at most once, settled for good. `ImplementsLifecycle`, in `ExecutionLedger`, maps a row's status to
itself and its trades to the number of its transactions on the chain.

### IntentIntake

A handler is a record in a set, with the step it is suspended before. The unique
constraints are in `CreateUser` and `CreateLog`. The payload's parsing is the
choice of a well-formed message; a message names no router, a listed or an
unlisted one.

### SmartVault and VaultFactory

A transaction is one step, except `executeTrade`, which is `ExecuteTrade`, then
any `Pull` and `Receive` of the router and of those it calls, then `TradeReturns`
or `TradeReverts`. Only `executeTrade` is guarded against reentry, so the owner's calls, the
whitelist and transfers of shares are enabled in between as well as in transactions of their own. A
revert undoes all of it: `trade.before` is everything the contract stores. Shares
held by others than the owner are one number. `ImplementsAtomicVault`, in `SmartVault`, maps the
funds to what the vault would hold had the router taken nothing yet (`PendingFunds`) and the
trade to an open order (`OpenOrder`): every `Pull` is a stutter, every other call is the step of
`AtomicVault` it is between trades, and the return of the trade is the one step that takes.
An exchange while an order is open may be priced with part of what the order takes already
missing, which is how the contract prices it. OpenZeppelin's arithmetic (virtual
asset and share, rounding directions) is external and modelled from its use.
`VaultFactory` also holds each clone's whitelist and owner, because ownership
moves without the factory hearing of it.

### BacktestRuns

SQLAlchemy writes only the columns that differ from what the session loaded:
`Flushed` is that rule, and `loaded` what a long session compares with. Reading a
row, changing it and committing at once is one step. `met` and `mixed` are history:
runs two processes have worked on at once, and rows last written by one of those.

### AssistantTurn

A requirement is a fact that the messages do or do not state; `Missing` is the set
the code would still ask for, `NextQuestion` the first of them in the code's order. A
user turn is free text with any facts, an option of the last question, the form, or
nothing. The model's answer is a sequence of deltas, each a set of the pieces it
completes (separator, opening and closing brace). A specification keeps the fields
that a later step looks at; `Normalized`, `Coerced`, `Supported`, `Static`, `DryRun` and
`PeriodOf` are the code's decisions on them. `wire` and
`shown` are the events sent and those the client has read; it may leave at any of
them (`HangUp`).

### ProgramEngine

One symbol. Weights are integers up to `FullWeight`; a bar has a close, the
program's raw output for that bar (three conventions) and the share of the order
each event may fill. `Gap` is a date that only other symbols trade.

### DailySignals, DailyEngine, CircuitBreaker

Prices, quantities and cash are integers, weights percent. `DailySignals` is the
arithmetic by cross multiplication, which avoids division where the code
compares ratios. `RunDay` is one iteration of the loop, written as the composition of
its phases on the record `acct`, in the code's order. `months` gives each day its month,
so that calendar rules (month, quarter) are exact on a calendar of seven days.
`CircuitBreaker` has three modes; `DailyEngine` implements it for configurations that
liquidate on a breach, with `mode` read from the halt and from the queued order.

### StrategyCompiler

Pure operators over objects, which are functions from their keys: an absent key is
`undefined` or `null`. `Parsed` is one pass of normalisation and schema and gives the set
of the accepted results, at most one; `BuildQuantitativeStrategy` is the tool's three passes,
`CompiledConfig`, `LegacySpec` and `HftConfig` are the compilations, `Reports` is what is
saved. Fractions and rates are percent, which keeps the conversion of a fee rate into
basis points exact. `Fragments` gives for a spelling of an intent or a signal the
words that the code's `includes` looks for. `f ++ g` is the object spread `{ ...g, ...f }`. The periods of the signals are accepted
and checked but reach the engine as the constants of `DailySignals`.

### MarketData

Only which bars exist is kept, not their prices. A request reads, fetches and writes
its symbols one after another, each await a step; two requests with different ranges
share the table. Providers may lack any of the days the instance lists.

### TickReplay and HftEngine

`replayToEngine` awaits each handler, so a handler is a step. A page of a download
succeeds, fails, or is the last that `MAX_PAGES` allows. In `HftEngine` every
handler is a composition of functions on the record `engine`, in the order the
code calls them. Prices are integers, and fees, stops and targets are amounts
instead of basis points. What the toxicity guard's statistics and the sampled
latency say is a free choice at every event.

### TradeSizing

Raw units and decimal text with `Decimals` digits; a text is a record of
its whole part, its decimals and whether it has a point. `DeriveAmount` and `GuardAccepts` are the code's thresholds,
in units of the minimum trade. The two widgets differ in whether an answer rewrites
the input. `Built` builds the call, once at the confirmation and once in the keeper, on
the balance and quote of that moment.

A confirmation is two steps with an await between: `RouteReads`, `OtherRouteReads` or `ToolReads`
keeps in `flight` the sizing it made of the draft it found; `ConfirmationWrites` writes it over
whatever the row has become, or `ConfirmationFails`. `"here"` is the modelled widget's; those of
`Elsewhere` come from other tabs, from a request whose connection was lost, and from the
tool. The keeper reads the row (`SweepReads`), builds the call of what it read (`Sweep`) and
writes the status (`Settle`), by the id alone too. `firstAsked`, `lastAsked` and `contested` are
history: what the first and the last confirmation written asked for, and whether two ever held
the draft at once.

### ChatSession

`posts` are the requests, each with the await of the route it is at (`pc`) and with what the
tab still expects of it (`ear`): the headers, which carry the conversation's id, the stream, or
nothing. `Hear` gives the tab the id; `Leave` ends the tab's side at any moment, and the
route goes on. `Stale` and `Shared` are the ids a browser may have kept of an older database or
client. `CreateAsked` and `Reread` are the insert under the asked id and what follows its unique
constraint; `Mint` stands for a random id, which is new. A tool's row is `ChatProposal`; what
becomes of it is `ExecutionLedger`'s.

### ReportLibrary

An effect of React runs in the step that changes what it depends on; its cleanup is
`Cancelled`, which takes `live` from the fetches of the effect, whose answers are then
ignored. `SwitchOnPage` and `SwitchInChat` differ in what depends on the wallet there. The routes
answer in steps of their own, so a switch, a save or a lost answer (`CallFails`, after the
route did its work as well as before) comes in between.

## 3. Runs

Every bound is a constant of the configuration. "States" are distinct states.

| Run | Instance | States | Shows |
|---|---|---|---|
| `ledger_race` | 1 row, 2 amounts, a real and a mock confirmation, 2 real and 1 mock keepers, 1 crash | 3 394 786 | `TradesAccounted`, `TradesWereConfirmed`, `ConfirmedIsMined` under every interleaving |
| `ledger_serial` | 2 rows, 2 users, 2 amounts, 1 confirmation, 1 keeper, no crash, fairness | 72 020 | `AuditMatchesTrade`, `SubmittedSettles`, and the refinement `ImplementsLifecycle` |
| `ledger_twoconfirms` | 1 row, 2 confirmations, 1 keeper | violation | `AtMostOneTrade` fails (finding 1) |
| `contracts` | `SmartVault`: 2 tokens, 2 routers, balances to 2, shares to 5; `VaultFactory`: 3 accounts, 3 routers, 2 vaults; `TradeSizing`: 2 decimals, balances around the minimum trade, one confirmation elsewhere | 1 667 000 | the contracts' invariants, `SharePriceHolds`, the refinement `ImplementsAtomicVault`, `ProposalFits`, `ConfirmedIsTraded` |
| `services` | `BacktestRuns`: 1 run, 2 handlers, 1 worker, 2 requests, 1 kill; `IntentIntake`: 2 keys, 2 wallets (one known), 2 listeners, 2 messages, 1 crash; fairness | 786 000 | `ExecutionsAccounted`, `RowMatchesArtifacts`, `RunsSettle`, `RowsAreIntents`, `ReceivedIsRecorded` |
| `intake_newuser` | 2 keys, 1 new wallet, 1 listener | violation | `HandledIsRecorded` fails (finding 2) |
| `hft` | `HftEngine`: 3 prices, 3 imbalances, clock to 3, maker and taker; `TickReplay`: 2 sessions of up to 3 events, pages of 1; `MarketData`: 2 requests, 2 symbols | 807 000 | the engine's invariants, `ReplaysUnbroken`, `MatrixFillsForward`, `ServedSpansRequest` |
| `hft_queue` | the same engine | violation | `QueueIsServed` fails (finding 4) |
| `replay_sessions` | the same replay | violation | `SessionsReplayed` fails (finding 3) |
| `backtests` | `DailyEngine`: 3 symbols, 7-day and 5-day calendars, every schedule and signal, compiled from payloads by `StrategyCompiler`; `ProgramEngine`: 5 bars; `AssistantTurn`: 3 turns; `ChatSession`: 2 tabs, 2 wallets (one known), 4 ids, 2 messages; `ReportLibrary`: 2 wallets, 2 reports, 2 fetches | 1 032 000 | `CashSolvent`, `SignalIsTodays`, `JournalMirrorsPositions`, `TradingOnlyCosts`, `ImplementsBreaker`; `OrdersExplainWeight`, `OverlaysHold`, `TradesAreRuns`; `RunsAreVetted`, `RecommendedSettles`; `ConversationsArePrivate`; `ShownIsCurrent` |
| `daily_rsi` | the daily engine | violation | `OverboughtIsSold` fails (finding 5) |
| `assistant_stream` | the assistant | violation | `StreamedSpecIsUsed` fails (finding 6) |

`TypeOK` of `contracts` is the type invariant of `SmartVault`; the type invariants of all
modules are theorems (section 6).

Why the bounds are enough:

- `ledger_race`: rows interact only through a keeper's batch, which a keeper works
  through one by one; one row with every process upon it has all the collisions
  of reads and writes of that row. Two rows (order and staleness inside a
  batch) are in `ledger_serial`, and the proof of `TradesAccounted` holds for any
  number. Two amounts tell apart what was confirmed from what was traded.
- `SmartVault`: `MaxSupply` 5 is above twice `MaxBalance` 2, so a share is worth less and
  more than one unit of the asset and both roundings occur; a router can take an order in one
  transfer or in two, with a call of the owner between. The proofs have no bound. `VaultFactory`: three routers are the least for which the first, a middle and
  the last element of the array differ in `SwapPop`.
- `TradeSizing`: the vault is missing (an empty one is sized the same way), below the minimum
  trade of 100, or holds an amount whose slices need rounding; one confirmation besides the
  widget's is enough for a late write over a row that is taken, and the proof is for any
  number; the typed texts are digits only, an amount below one
  unit, one with more decimals than the token and no number.
- `BacktestRuns`: two handlers and a worker are the three writers of a row; two requests
  give a first run and one run again, or two overlapping ones.
- `IntentIntake`: two messages with equal or different keys, each to two listeners, are
  four handlers at once.
- `HftEngine`: the clock reaches past `Ttl` and `Timeout`; prices 10, 12 and 15 put
  moves below, at and above the stop and the target, and a side may be missing.
- `TickReplay`: the second session is the first that can see a flag left by another; a
  page holds one event and two pages are allowed, so a download of three ends full,
  failed or cut.
- `MarketData`: a chunk of two days leaves a longer range half written; two requests
  with overlapping ranges read each other's rows.
- `DailyEngine`: seven days are enough to enter, breach, liquidate, wait, be released,
  enter again and breach on the first day of a month. The primary has three price
  levels, so a fall reaches the stop, the limit or neither. Costs are large
  (5 % and 3 %) so that they show in integers. The configurations are not invented: they are
  what `Reports` makes of accepted payloads, and of the two legacy requests. A limit of 8
  is met by a fall of the primary before its stop of 30; one of 50 is cut to 20 by the
  compiler, because a crypto asset is in the universe, and comes after the stop.
- `StrategyCompiler`: `MCDaily` states four assumptions that TLC evaluates before it
  explores. `SpellingsAgree`: snake-case blocks and a strategy put inside `algoLogic` build the
  same strategy, and what the schema or the rules refuse is refused. `PassesAgree`: a pass
  over what a pass accepted changes nothing. `ReportsAreArmed`: liquidation on and the limit
  within cap and request, in the engine's configuration, the legacy specification and the
  caps read back from the report. `ScalpersCoverCosts`: a high-frequency strategy that is replayed
  asks for more than half again of its round-trip costs. They range over every signal,
  schedule, limit and fee alias the instance lists. Section 6 proves the last three of
  every payload.
- `ProgramEngine`: five bars hold an entry, a partial fill, a replacement, a stop and a
  re-entry, with latencies 0 and 1.
- `AssistantTurn`: the conversations open with nothing, with part of the requirements, or
  with all but one or two, so three turns reach a generation on every path.

- `ChatSession`: of the four ids one is kept of an older database and one is everybody's, and
  two can be minted; two messages are enough for two requests to race for the kept id, from two
  tabs or from one that switched its wallet.
- `ReportLibrary`: of two fetches one is the answer that comes late and the other the one that
  replaced it, or a save and the load of the page that ended it.

Symmetry is used only where all the properties are invariants or action
properties, over ids that no definition orders; for the runs with liveness none
is used. Deadlock is not an error anywhere: users, requests and the chain are free
to stop, an engine ends halted or finalised, a backtest ends with its calendar, a
bound ends publishing.

### Fairness

- `ledger_serial`: weak fairness of each keeper's steps, crashes excluded. The
  sweeper polls for ever, and each await ends: viem gives up on a receipt after
  its timeout. Users, requests and the chain have no fairness, so `SubmittedSettles`
  does not depend on a transaction being mined.
- `services`, runs: weak fairness of every handler's and worker's own steps. A handler is a
  thread that runs to its end; a worker that is up takes jobs. Nobody has to start
  a worker. `RunsSettle` gives up once a process was killed: see observation 7.
- `services`, intake: weak fairness of the handlers together (the event loop). At most
  `MaxPublished` messages exist, so no handler is passed over for ever.

`Spec` alone is used by the other runs, which check safety only.

## 4. Findings

1. **A row can be traded twice** (`ledger_twoconfirms`). The update at
   `apps/web/app/api/execution/[id]/execute/route.ts:109` names the row by id alone. Two
   confirmations read the row as DRAFT; the first writes SUBMITTED, the keeper trades
   and settles it, the second writes SUBMITTED over CONFIRMED and the keeper trades it
   again. The route answers "ExecutionLog non trovato o già eseguito" (line 57) only
   to a confirmation that reads after the first has written.
2. **An intent of a new wallet can be lost** (`intake_newuser`).
   `getOrCreateUserByWallet` looks up and then inserts; of two handlers of one wallet
   the second breaks the unique constraint outside the handler's `try`, and its
   intent is dropped with a log line.
3. **Only the first session of a replay is replayed** (`replay_sessions`).
   `replayToEngine` ends with `disconnect()`, which sets `aborted`; nothing resets
   it, so every later session breaks at its first event and is counted as run.
4. **The queue ahead never decides a fill** (`hft_queue`). `hft-engine.ts:133` counts a
   trade at the order's own price as crossed, so the estimate of the shares ahead,
   kept in `hft-limit-queue.ts`, changes nothing.
5. **An overbought RSI position is never sold** (`daily_rsi`). `computeTargetWeights` sets
   the weight of the primary to 0 both for an overbought reading and for none
   (`signal-engine.ts:250`); `mergeRsiHoldWeights` (`event-driven-engine.ts:97`) takes
   every 0 for "no trigger" and puts the held weight back.
6. **A streamed specification is thrown away** (`assistant_stream`). The loop at
   `llm.py:347` breaks at the delta that completes the separator. Unless the whole
   JSON came in that same delta, it is cut, does not parse, and a second call, meant for
   malformed answers, replaces it.

## 5. Observations without a run of their own

1. A keeper that dies between the broadcast (`web3-keeper.ts:742`) and the record
   leaves the row SUBMITTED and the next sweep trades it again. `TradesAccounted`
   bounds the damage: one trade per such crash.
2. A receipt that times out makes the row FAILED without its hash
   (`sweep-execution-logs.ts:86`), though the transaction may be mined later.
   `ConfirmedIsMined` is therefore an implication and not an equivalence.
3. The listener's PENDING rows have no sizing block (`intent-listener.ts:11`) and
   the keeper refuses every one with MISSING_EXECUTION_SIZING
   (`web3-keeper.ts:214`). In the model `InsertIntent` rows end FAILED.
4. The `executeTrade` tool submits a DRAFT the user never confirmed in the UI
   (`afx-chat-tools.ts:712`); the confirmation of `TradesWereConfirmed` is the tool
   call or the route, whichever wrote SUBMITTED.
5. A late confirmation may replace the amount of a row that is being traded.
   `AuditMatchesTrade` holds with one confirmation at a time, not in general.
6. The registry names a dead worker until its key expires (`queue.py:14`): a run is
   pushed for nobody and stays pending until a worker starts.
7. A worker killed after its first commit (`jobs.py:66`) leaves the run "running";
   no code recovers it.
8. `finalize` closes a position only when a trade was seen, and dates the exit at
   the last trade (`hft-engine.ts:421`), which may precede the entry.
9. A stop is priced on the last book (`hft-engine.ts:122`). A quote with one side
   missing has price 0 there: a long is then stopped at once and sold for nothing,
   and a short looks like a gain, so its stop does not act. `StopHolds` is about the
   price the code uses.
10. An exit order expires only when a book arrives; `PlaceExit` then rests a new one,
    with a new place in the queue.

Daily engine:

11. `executeRebalance` sizes sales on yesterday's portfolio value
    (`execution-engine.ts:50`); after a fall it may buy, after a rise sell and buy, where
    no change of weight was asked. `TradingOnlyCosts` bounds what that costs.
12. The trailing stop of the TypeScript engine does not trail: the reference is the entry
    price. `zExit` has no effect. Strategies with daily signals are never released from
    a halt; a breach on the last day of a month suspends the whole next month, because the
    release comes before the queued liquidation.

Market data:

13. `coversRange` (`data_fetcher.ts:139`) looks at the number of rows and at both ends, so
    holes inside the range are served from the cache and filled forward. A range
    whose first or last day has no bar never hits the cache.
14. The table has one row per symbol and day, whatever the provider: an update keeps
    the `source` of the first writer, and differently adjusted series may mix.
15. Trades and quotes are paged apart (`tick-replay-engine.ts:283`); a failed page or the
    page limit truncates one of them silently. `ReplaysUnbroken` says that each is then a
    prefix, not that both end together.

Program engine:

16. A stop flattens the target for one bar; the next bar opens the position again
    if the program still wants it. An order at rest is left alone when the target equals
    the weight (`engine.py:512`), so it may later fill against the target. The rescale to
    the gross limit never bites, since every symbol is capped at its share of it.

Sizing and confirmation:

17. A text of digits only is taken for raw units before it is taken for USDC
    (`execution-user-sizing.ts:127`). An answer that arrives after the user typed replaces
    the typed amount; what is confirmed is what then stands in the input. The amount is
    not bounded by the vault's balance after an edit. Two confirmations that both read the
    draft both write it (`route.ts:49` and `:109`, `afx-chat-tools.ts:625` and `:685`): the later
    one replaces the amount of the other, also after the row was swept. `ConfirmedIsTraded` says
    what is left: the keeper trades what one of them asked for, and where no two held the
    draft at once it is the first.
18. The button of `ProposeExecutionWidget` is enabled again in real mode, since no
    transaction hash comes back; that is one way to finding 1.
19. The keeper quotes again at sweep time, so the minimum out that is sent is not the
    one that was shown. The guard and the routing have two different tests for a crypto
    ticker.

Assistant:

20. The options "Conservative hybrid" and "Long/short only if needed" match no pattern of
    the requirement they answer, so the question is put again. `RecommendedSettles` is
    about the recommended options, which all match.
21. A user turn without text bypasses the questions (`assistant.py:462`); `RunsAreVetted`
    names that case. "No backtest for now" counts as approval. The run's symbol is the
    request's default when the user named none.
22. A client that leaves after the run was created leaves it running unseen.
23. `/generate-strategy`, `/generate-program` and `/generate-and-backtest` have no such gate;
    `api.assistant.stream` and `StrategyBuilder` are exported and used by no page.

Strategy compiler:

24. `normalizeQuantStrategyPayload` is meant for snake_case payloads
    (`afx-payload-normalize.ts:126`), but at the root it reads `intent_class` only to tell a
    scalper, does not read `algo_logic` and `wallet_logic` at all, and drops the three: such a
    payload is always refused. Inside `walletLogic` the key `rebalance_frequency` is copied and left
    in place, and the strict schema refuses it.
25. `entryLogic` at the root replaces `algoLogic` and loses the parameters of the asymmetric
    momentum, whose defaults are then used.
26. A primary ticker outside `universe.assets` is added to the engine's universe
    (`strategy-adapter.ts`) and not to the download (`afx-chat-tools.ts:259`), so the engine has
    no price for it.
27. A replay overrides `executionTimeoutSeconds` with the session's length and switches the
    toxicity guard and the Gamma latency off (`afx-chat-tools.ts:181`): what the user asked for
    is not what runs. The stop a report shows is the micro stop, not the strategy's, and the drawdown
    limit it shows (`afx-chat-tools.ts:203`) is in no configuration of the HFT engine.
28. The legacy specification of both momentum strategies is `sma_crossover`.

Chat and library:

29. `useChat` is keyed by the conversation's id. The first answer of a new conversation
    brings another id in its header, and the chat starts empty while that answer goes on
    out of sight; it is stored by `onFinish`, unless its reader was cut off.
30. Two first requests of a new wallet both insert the user; the second gets a 503
    (`CreateMember`, `Refuse`), where the listener loses the intent (finding 2).
31. A save after the wallet was switched asks for the report with the new wallet and gets a
    404, because the report is the other wallet's.
32. An answer of a created report that is lost leaves the row; a second click creates another one.

Contracts:

33. A deposit or redemption under a router's call is priced on what the router has left at that
    moment, before the output of the trade arrives (`SmartVault.sol:155`). `SharePriceHolds` is about
    that price; `Exchange` of `AtomicVault` names the difference (`missing`).

## 6. Theorems

Proved by TLAPS for every value of the constants that the modules' named
assumptions allow; TLC evaluates those assumptions in the runs. Every invariant and
action property of a passing run has a theorem, and so have the three refinements. A proof module groups
the components whose proofs use the same lemmas:

| Proof module | About |
|---|---|
| `ExecutionLedger_proofs` | `ExecutionLedger`, and that it implements `ExecutionLifecycle` |
| `Contracts_proofs` | `SmartVault` and that it implements `AtomicVault`, `VaultFactory`, `TradeSizing` |
| `WebRecords_proofs` | `IntentIntake`, `ChatSession`, `ReportLibrary` |
| `BacktestRuns_proofs` | the module of that name |
| `ModelOutput_proofs` | what becomes of a language model's output: `StrategyCompiler`, `AssistantTurn` |
| `MarketReplay_proofs` | `MarketData`, `TickReplay` |
| `HftEngine_proofs` | `HftEngine` |
| `Backtests_proofs` | `ProgramEngine`, `DailyEngine`, and that the latter implements `CircuitBreaker` |

All have the same plan: an inductive invariant in named parts, a lemma per action (or
per operator, where an action is a composition of operators on one record), the
step, and a temporal step last. Below is what each invariant adds to the property,
since that is what the code relies on without saying it.

**The ledger** (finitely many rows, positive amounts, hashes distinct from null
values; any number of users, requests, keepers, crashes).

- `TypeCorrect`: `TypeOK` is not inductive, because a broadcast builds a transaction
  from the row a keeper works on. `TypeInv` adds `KeeperShape` (what each program
  point says of batch, row and transaction) and `RequestShape` (a request that has
  read a row knows it).
- `EveryTradeAccounted` (`TradesAccounted`): the permission to broadcast is acquired
  when a batch is read and used much later, when the row may be settled or written
  over. `AccountInv` follows it: `LiveSlack`, `BatchSlack` and `ResolvedSlack` say that a
  row that is live, in a batch, or already built leaves its keeper a broadcast.
- `EveryTradeConfirmed` (`TradesWereConfirmed`): `OriginInv` follows the amount from the
  confirmation that wrote it (`RowOrigin`) over the batch and the built trade to the
  transaction, and the owner's vault with it.
- `ConfirmedRowsAreMined` (`ConfirmedIsMined`): `ReceiptShape` says what a keeper that
  holds a good receipt knows of the chain until it records it.
- `SerialAudits` (`AuditMatchesTrade`) and `SerialRefines` (`ImplementsLifecycle`) hold under
  `Serial`, a hypothesis of the two theorems and not an assumption of the module: at most one
  request, one keeper, no mock keeper, no crash. That is the configuration of
  `ledger_serial`; finding 1 and observations 1 and 5 are what happens outside of it.
  Rows and users are any number. `SerialInv` says which rows may be live while the one
  keeper waits for a receipt, and that a row has at most the one transaction its keeper
  or its hash names. The mapping counts transactions, so the refinement needs
  that the chain is finite and that a step adds at most one to one row. `SerialRefines`
  is about `Spec`, the safety part.

**The contracts** (`VaultAssumption`, `FactoryAssumption`).

- `VaultTyped` (`TypeOK`): no balance or share count goes below zero. `RedeemCovered` and
  `WithdrawCovered` show that what `maxRedeem` and `maxWithdraw` allow is always
  covered, from the lemmas `Floor` and `Ceil` on division.
- `AllowanceEndsWithTrade` and `TradeTakesAtMostAmount` (`NoStandingAllowance`,
  `TradeBounded`): `TradeInv` says that what a router took plus what it still may take is
  the trade's amount, every other allowance is 0, and the state a revert restores
  had no allowance.
- `OnlyTradesCostShareholders` (`SharePriceHolds`), by cross multiplication
  (`IssueAtWorth`, `BurnAtWorth`) for each direction of rounding, with no hypothesis on a trade:
  it holds of the calls under a router's call too.
- `VaultIsAtomic` (`ImplementsAtomicVault`): every step of the vault is a step of `AtomicVault` or
  invisible in it, with no step disabled while a trade runs. `TradeInv` bounds what the router
  took, of the token it was approved for, by the order: that much may be missing from the price of
  an exchange under the call (`MissingIs`, `KeptPriceIsExchange`), and that much the settlement
  takes. `Exchange` is the abstract step of all four ERC-4626 operations (`MoveInIsExchange`,
  `MoveOutIsExchange`), `OwnerStepIsSeen` covers the owner's calls, and the reverting trade needs
  that what it goes back to is what was there when it began, which the refinement carries in the
  order itself.
- `FactoryTyped`, `ListMirrors` (`ListMirrorsMapping`), `RegistersStayInAgreement`
  (`RegistersAgree`): the last does not say by itself that the next clone's number is
  new; `RegisterInv` says that the i-th vault is the i-th clone and that the mapping
  numbers them one to one.

**Sizing** (`SizingAssumption`, whose facts about powers of ten state what `Place` is:
the provers have no arithmetic of powers).

- `ProposalsFit` (`ProposalFits`): `AmountFits` shows that `DeriveAmount` stays between one
  unit and the balance, for any balance, slice and number of past trades.
- `ConfirmedAmountsAreTraded` (`ConfirmedIsTraded`): `RoundTripOfTexts` shows that turning
  raw units into a text and reading it back gives the same number, for any number
  of decimals, with the trailing zeros stripped. `ConfirmInv` then follows text, merge and call
  through the widgets, the late answers and the confirmations on their way: every one in `flight`
  carries a sizing made of the proposal (`FlightFits`), a draft that is not contested is held by at
  most one (`OneFlight`), and once a row is taken and was not contested none is left. For
  any set `Elsewhere`.

**The intake** (`IntakeTypeCorrect`, `IntakeRowsAreIntents`): `HandlerKnows` carries what a
handler has checked over its awaits. Any keys, wallets, listeners, messages.

**Chat and library** (`ChatAssumption`, `LibraryAssumption`; any wallets, tabs, ids, messages, fetches).

- `ChatsStayPrivate` (`ConversationsArePrivate`, with the type): `PostKnows` says what a request knows
  of the conversation at each await. It rests on `OwnersStay`, that a conversation never changes
  its owner, since the row is read long before the message is written; a request only mints a
  conversation once the asked id is known not to be its own (`Elsewhere`), which stays true.
- `LibraryIsCurrent` (`ShownIsCurrent`, with the type): `AnswerTrue` says that what an answer says of
  the rows stays true until it is read, because reports keep their owner and their place in the
  library. `StillWanted` says that a fetch that is not cancelled is for the wallet, page and widget of
  now, and `OneOfEach` that there is one load and one save of each kind at a time: without it an
  older answer could replace a newer one.

**The run queue** (finitely many API threads; any runs, workers and bounds).

- `RunsTypeCorrect`: `KnownRuns` says that every run a handler, a worker or the queue
  names exists.
- `ExecutionsAreAccounted`: `Account` balances executions, jobs in the queue and handlers that
  still may enqueue or execute against requests and doubled enqueues. The sets it
  counts are `WaitingOf` and `SlotsOf`.
- `RowsTellTheTruth` (`RowMatchesArtifacts`): `Truth` says, for a run that no two processes have
  met on, that the process that works on it holds the result the directory holds, and that
  the columns its session will find unchanged have the value it loaded.

**The strategy compiler** (any payload: no assumption says which keys an object has, or what
they hold; `CompilerAssumption` says that three signals contain the words they are recognised by).

- `PassesAgreeAlways`: the tool's schema, the tool and its validation each normalise, fill in and parse
  a payload; the second and third time change nothing. The argument is a normal form: `Normal` says of a
  strategy that its blocks are complete under canonical keys, that its signal is recognised as
  itself, and that it has a `timeframe` only if nothing says it is a scalper. `ParsedIsNormal` shows
  that a first pass ends there, whatever it began with, `NormalIsParsed` that a pass begun there
  stands still. It rests on choices made far apart: every alias list puts the
  canonical key first (`Canonical`, and `zScore`, which alone comes second), every default fits its own schema
  (`SchemasAreWellMade`), the schema is strict, and the recognition of a
  signal is idempotent (`SignalIsKept`), although several spellings share their words.
- `OnePassIsEnough`: hence `BuildQuantitativeStrategy` is `Validated` of the payload itself.
- `ReportsAreAlwaysArmed`: the caps survive roles, routing and both compilations, and the limits a page
  reads back, from the report or from the strategy, are those the engine was armed with.
  It is about daily strategies: nothing arms a replayed scalper (observation 27).
- `CompiledConfigsRun`: what is compiled has a kind and a schedule the daily engine knows. That is
  what `EngineAssumption` asks of `Backtests`, so the theorems of `DailyEngine` below are about
  whatever the tool runs, and not only about the payloads of the instance.
- `ScalpersAlwaysCoverCosts`: the inequality is checked on the strategy and holds of the engine's
  configuration, which takes its costs from two blocks; the strategy names a secondary market even
  when the payload asked for a primary one.

**The assistant** (`Specs` within `SpecShape`, the fields of the schema).

- `AssistantTypeCorrect`; `AssistantRunsAreVetted` (`RunsAreVetted`): `GateInv` says that
  whatever was sent or shown, in this turn or an earlier one, came behind the gate, and
  `ServerKnows` which checks the generator's specification and program have passed at
  each of its points, on every path that may replace them.
- `RecommendationsSettle` (`RecommendedSettles`): every option marked as recommended states the
  fact its question asks for, and what was said is never unsaid.

**Market data and replay** (days numbered from 1, since 0 is the model's missing price).

- `MatricesFillForward`, `RequestsAreSpanned`: `Gathered` says of a request's series, read
  or fetched, that they lie in its range and are long enough, whatever other requests
  wrote meanwhile. `MarketTypeCorrect` is the type.
- `ReplaysHaveNoHole` (`ReplaysUnbroken`): `IsBeginning` is kept by every page, failed page and cut,
  and the events delivered are a beginning of that. `ReplayTypeCorrect` is the type.

**The HFT engine** (any prices above the costs, any stop, target and session): `Sound`,
`Covered` and `WithinStop` are predicates on the engine's record, and every operator a handler is
composed of has a lemma that says which of them it establishes, keeps or
suspends: an order may be missing between a fill and `PlaceExit`, a stop may be passed
between a quote and `StopOrTarget`. `HftTypeCorrect`, `HaltingFlattens`, `OrdersFit`, `ExitsRest`,
`StopsHold` and `TradesEarnTheirReason` are the handlers' lemmas put together.

**The backtest engines.**

- `ProgramTypeCorrect`, `FillsExplainWeights`, `LimitsHold`, `RowsAreRuns`, from `ProgramInv`, for any
  number of bars, prices and programs. Whether an order is filled by one event or several, a
  fold over a sequence is reduced to one event at a time.
- `EngineTypeCorrect`, `CashStaysSolvent`, `SignalsAreTodays`, `JournalMirrors`, `TradingIsNoGain` and
  the refinement `EngineIsBreaker`, from `EngineInv`. A day is a composition of phases, and sales,
  purchases and liquidations are folds over sets of symbols in no fixed order: the first
  section of the module shows that a fold over a finite set is a sequence of single steps,
  after which each phase has a lemma that says what it establishes (`RiskFilled`,
  `SignalFilled`, `Marked`, `RiskQueued`, `SignalQueued`) and `DayKeeps` chains them.
- The assumption on `Dust` and `PriceLevels` says that an amount above the dust buys at least a
  share. The code has fractional shares, so there any amount does; with integers it must be
  assumed, and without it a leg could be opened for no share. The attempt to prove these
  results changed the model twice: the guards of `SellDown` overlapped, and `HeldWeights` lacked the
  early return on a worthless portfolio (`event-driven-engine.ts:83`).

Only model-checked: liveness (`SubmittedSettles`, `RunsSettle`, `ReceivedIsRecorded`), whose
fairness and ENABLED are out of the provers' reach; the properties of the
violation runs, which are false; and, of the assumptions on `StrategyCompiler` that `MCDaily` states
over its payloads, `SpellingsAgree`, which compares particular spellings, and the search of
`ResolvedRiskCaps` through a report's blocks, a `SelectSeq`, whose recursion the provers cannot unfold;
what it reads from a report's own block and from its strategy's is in `ReportsAreAlwaysArmed`.

## 7. What the models leave out

- In the ledger: payload contents beyond the amount and the user's confirmation. The
  amount's way through text and call data is in `TradeSizing`, for one proposal.
- In the chat, leaving the page inside the application: the fetch of `useChat` is not aborted then
  and may still write localStorage, where `Leave` ends the tab's side for good. In the report pages, the
  render between a change of wallet and the effects it triggers, which shows the old data once. In
  the program engine, fills from micro data on gap bars (`Gap`).
- Gas, nonces and reorganisations of the chain: a transaction is mined once.
- The share allowances of ERC-20 and the transfer of the factory's own ownership.
  A manager that stops being the vault's manager: the manager is set once.
- Widths of `uint256`: the sums of the contracts are far below them, and Solidity
  0.8 reverts on overflow.
- Redis and PostgreSQL failures other than those named in an action: an exception in
  a handler or a keeper ends it (`ConfirmAbort`, `KeeperCrash`, `KillHandler`).
- Floating-point: prices and weights are integers, so what rounding does at an exact
  threshold is not covered. Returns, costs of the microstructure model, Sharpe ratios,
  the variance weights of wallet allocations, market impact and tier-1 statistics are sums
  over such numbers and are left out.
- What a language model writes: an answer is a free choice among shapes.
- React components other than the two that hold an amount, the chat, the two pages of reports
  and the save widget; what a report contains, formatting, charts.

## 8. Plan

Every invariant and action property that a run checks is also a theorem, and so are
the three refinements. What would say more about the code from here:

| Module | In place | Next |
|---|---|---|
| `ExecutionLedger`, `ExecutionLifecycle` | invariants, step property and refinement proved | |
| `SmartVault`, `AtomicVault`, `VaultFactory`, `TradeSizing` | every invariant and the refinement proved | |
| `IntentIntake`, `BacktestRuns`, `AssistantTurn` | every invariant proved | |
| `ChatSession`, `ReportLibrary` | every invariant proved | liveness: a page that loads ends loading, if its fetches end |
| `StrategyCompiler` | evaluated on the instance's payloads; passes, caps, configurations and costs proved of every payload | prove which spellings build the same strategy |
| `DailyEngine`, `CircuitBreaker`, `ProgramEngine` | invariants and the breaker refinement proved | |
| `TickReplay`, `HftEngine`, `MarketData` | every invariant proved | compose replay and engine: is every session finalised, are a session's trades its own |

`IntentIntake` meets the ledger at the insert of a row, which `InsertIntent` repeats as one
step; composing the two adds nothing, because the keeper refuses those rows whatever
they say. `SmartVault.executeTrade` is what a mined transaction of the ledger runs;
the ledger sees its success or its revert only. `AssistantTurn` ends where `BacktestRuns`
begins, at the creation of a run.
