# OpenQuant: TLA+ specifications

Specifications, model-checking configurations and machine-checked proofs for the OpenQuant trading
platform (`src/backend/src/openquant`, a FastAPI backend, and `src/frontend`, a React client). Paths
below are relative to `src/backend/src/openquant/` unless they start with `src/`.

Contents: [the system](#1-the-system), [inventory](#2-inventory), [modules](#3-modules-and-how-they-correspond-to-the-code),
[runs](#4-runs), [proofs](#5-proofs), [disagreements with the documents](#6-where-the-code-and-its-documents-disagree),
[limits of the model](#7-what-is-not-modelled), [plan](#8-plan).

## 1. The system

One backend process holds everything: the HTTP endpoints call application services, which are global
singletons over in-memory repositories and adapters. There is one asyncio event loop; the only threads
are the ones sandboxed scripts run on, and they touch none of this state.

```
 clients, risk page     TradingView alerts, spreadsheets          ticks
        |                  | (one key per signal or row)             |
        v                  v                                         v
 OrderManagementService <--+           ---guard---> MarketDataService --> feed, candle aggregator
   |        |      |
   |        |      +--> order and position repositories <---compare, overwrite--- reconciliation
   |        +--> RiskService / SynchronousRiskEngine (limits, kill switch) <--halt----+    |
   +--> broker adapters: paper | Zerodha sandbox | Zerodha HTTP | Binance, Angel One, IB <-+
              (each with a bounded queue of order updates)            ---> the exchange

 StrategyService (stage of each strategy) <---writes--- BacktestService, PaperTradingService
   |    ^                                                     (sessions, gate)
   |    | reads, with certification, kill switch, feed, broker connection
   |   LiveTradingService --> live sessions
   +--> strategy engine (instances fed with bars) --> sandbox (scripts on threads)

 orders, risk, market data --> connection managers --> web sockets;   alerts --> HTTP channels
 accounts: users, tokens, API keys and credentials, consulted by the endpoints
```

**Interleaving.** A coroutine runs until an `await` that really suspends. The locks of the in-memory
repositories are never contended, because no holder suspends, so acquiring them does not yield. What
does suspend: HTTP calls (of a live adapter, of an alert), a `put` on a full order-update queue, every
`send_json` to a web socket, a wait for a script on a thread, and sleeps. No handler of the order path
changes state after a broadcast; the live preflight is the one that waits for a broadcast and goes on,
and the paper adapter's `connect()` sleeps. An action of the models is therefore a maximal segment of a
handler between two such points, and `submit_order` is one action up to its HTTP call and a second one
after it.

## 2. Inventory

Modelled or partly modelled parts first. "Hard" names what a test would hardly reach; the hazards in
`PROJECT.json` give the line of each.

| Component (source) | State | Operations | Hard | Correct when |
|---|---|---|---|---|
| Order service (`application/services/order_service.py`) | orders by id, index by (account, idempotency key) | submit, cancel, booking of a broker's report, reconcile (read only) | retry while the first call waits; late acknowledgement after a cancel or a halt; timeout after the broker accepted | one order and one dispatch per key, all answers agree, a settled order stays as it is |
| Position book (`_update_position_from_fill`, position repository) | side and unsigned quantity per account and symbol | apply a fill | flattening, flipping, a FLAT row that is used again | net position = sum of fills |
| Risk engine and kill switch (`adapters/risk/risk_engine.py`, `application/services/risk_service.py`) | limits, kill switch, evaluations of the last second | evaluate, activate, release, replace the configuration, dry run | limits change between orders; a halt with placements in flight; an old page saves its copy of the switch | a halt leaves nothing open, no self-trade, open-order cap holds |
| Paper broker (`adapters/brokers/paper_adapter.py`) | cash, one position per symbol for all accounts, update queue | place an order, which fills at once | money or queue runs out between the steps of a placement | its book equals the sum of the accounts' books, but for other brokers' fills and the audits' |
| Zerodha adapter (`adapters/brokers/zerodha_adapter.py`, `base.py`, `registry.py`) | HTTP client, update queue | connect, disconnect, place, cancel; sandboxed or by HTTP | failed or late answers, nobody consumes the queue, a disconnect takes the client away | every dispatched order is answered, or stuck at a full queue |
| Market data (`adapters/market_data/*`, `market_data_service.py`) | latest tick, bar in progress and completed bars per timeframe | ingest, guard, candles | late ticks, bucket boundaries, full history | candles are a replay of the ticks; the guard sees the freshest tick |
| Promotion (`strategy_service.py`, `backtest_service.py`, `paper_trading_service.py`) | stage per strategy, cached backtests | create, backtest, promote, start a paper session, approve with or without bypass | the stage is written by three services, none of which looks at the stage it overwrites | no stage is skipped; approval only after a paper session of the strategy |
| Paper sessions (`adapters/paper/paper_trading_engine.py`) | accounts, sessions, trade counts | start, tick, pause, stop, gate | which hook the engine calls and which one the strategies trade in | the counts the gate reads are those of the session |
| Live sessions (`live_trading_service.py`) | sessions | preflight, activate, scale, halt | the preflight reads four facts, then waits for a broadcast and a broker | at most one active session per strategy, none opened uncleared, a halted one stays halted |
| Certification and connections (`certification_harness.py`, `broker_service.py`) | certified, session state per adapter | connect, disconnect, audit | audits and handshakes of the adapter in use; the audit's trial order moves its book | a session's broker is certified |
| Reconciliation (`adapters/reconciliation`, `reconciliation_service.py`) | reports; reads both books, writes rows and the switch | reconcile one or all accounts, force a sync | failing or late broker query, a broker nobody registered, unsigned comparison, a synced object shared by two books | where the two books can follow the trading they agree; a halt has a cause; a sync reaches one account only |
| Other brokers (Binance, Angel One, IB, in sandbox mode) | each for itself: session state, one position per account and symbol | connect, disconnect, place, positions | the position is replaced, not netted | as above |
| Strategy engine (`adapters/strategy/strategy_engine.py`, `strategies/`) | entities shared with the service, instances with their context | create, update, start, stop, pause, bars | what a restart keeps; exceptions in the middle of a bar | a run signals exactly what its own bars call for |
| Sandbox (`adapters/sandbox/runner.py`) | table of running tasks; the executor's queue and threads | execute with a time limit | scripts that never end hold the threads; overlapping calls of one strategy | every call is answered, the table holds awaited calls only |
| Signal sources (`adapters/sources`, `strategy_sources_service.py`) | nonces with their times; state of the bridge | alert, heartbeat, command, upload | replays at the edge of the window; a failed row in a repeated upload | an alert passes once; a complete upload can be repeated |
| Backtests (`adapters/backtest/event_driven_engine.py`) | cash, holdings, open positions, equity of one run | bar, report, walk-forward slices | three accounts of the same trades | the report adds up |
| Alerts (`notification_service.py`, dispatcher, repositories) | channels, bounded log | register, update, delete, broadcast | channels change while a broadcast waits for one of them | no channel misses an alert for another one's sake |
| Web sockets (`connection_manager.py`, `streaming_service.py`, `stream.py`) | clients with their channels, channels with their clients | open, subscribe, broadcast, close | a client is removed by its endpoint or by a broadcast, in any order | the two directories agree; listeners that stay are served |
| Accounts (`auth_service.py`, `api_key_service.py`, `secrets_service.py`) | users by id and by address, tokens, keys, credentials | register, log in, refresh, make and revoke keys, store credentials | spellings of an address | nobody loses a login |

Not modelled (reasons in section 7):

| Component | State | Operations |
|---|---|---|
| Portfolio analytics, AI advisory | none beyond one call | numeric and textual computations |
| Event bus | subscribers | publish; the topics anyone subscribes to are published by nobody |
| Audit log, security audit, observability, health | records, counters | written, read by reports only |
| Database repositories | tables | defined but not wired into the services |
| HTTP application, frontend, deployment | page copies; number of worker processes | routing, REST calls, `--workers 4` |

## 3. Modules and how they correspond to the code

| Module | Models | Extends / composes |
|---|---|---|
| `Positions` | net-position arithmetic of the order service (`ApplyFill`) and of the paper broker (`PaperFill`), two separate pieces of code | |
| `PreTradeRisk` | `SynchronousRiskEngine.evaluate_order` as a predicate | |
| `OrderManagement` | the order path of one process, section 1's left column | `PreTradeRisk`, `Positions` |
| `OrderGateway` | abstract: what a client of the order path is promised | instantiated by `OrderManagement` |
| `MarketData` | feed, guard and candle aggregator of one symbol | |
| `StalenessGuard` | abstract: how the guard's view of a symbol changes | instantiated by `MarketData` |
| `Promotion` | every assignment of a strategy's promotion stage, with paper sessions and the gate | |
| `PromotionStages` | abstract: the stage register that live trading reads | instantiated by `Promotion` |
| `LiveTrading` | preflight, activation, scaling, halt, with adapters' connection and certification | |
| `Reconciliation` | rows, the four ways a broker keeps its book, their comparison, sync and halt | `Positions` |
| `SignalSources` | webhook, bridge and spreadsheets, above the order service's answer to a key | |
| `StrategyEngine` | strategies, their instances and the built-in strategies | |
| `Backtest` | one backtest or walk-forward validation, bar by bar | `StrategyEngine` (the same strategies) |
| `Sandbox` | scripts on threads, awaited under a limit | |
| `Streaming` | connection managers, endpoints and broadcasts | |
| `Notifications` | channels, alerts and their log | |
| `Accounts` | users, tokens, API keys, credentials | |
| `MCOrderManagement`, `MCMarketData`, `MCPromotion`, `MCLiveTrading`, `MCReconciliation`, `MCServices` | the finite instances | |
| `Selections` | `Only`, the list comprehension of the sheet parser and of the alert service's filter | used by `SignalSources`, `Notifications` |
| `Aggregates` | lemmas about sums, folds, extremes and `Only`, for any finite set and any sequence | used by the proofs |
| `*_proofs` | theorems, section 5 | |

### OrderManagement

An order is named by the submit call that created it: `order_id` is a fresh uuid per call and its
immutable fields are the call's request. The variables:

| Variable | Code |
|---|---|
| `pc`, `req`, `answer` | a `submit_order` coroutine: where it is, its argument, the order it returned |
| `orders`, `byKey` | `InMemoryOrderRepository`: status, filled quantity, whether the broker's id is known; the key index |
| `positions` | `InMemoryPositionRepository` |
| `limits`, `ks`, `window` | `RiskLimitsConfig`, its `kill_switch`, the timestamps of the last second (their number) |
| `feed` | what `assert_not_stale` would find for a symbol |
| `exchange` | the live broker's own state of an order; not visible to the service |
| `paper` | `PaperBrokerAdapter`: cash, positions |
| `updates` | length of each adapter's `_order_update_queue` |
| `online` | Zerodha's `_http_client` is there, or the session of an adapter that fills at once is up |
| `cancels` | a `cancel_order` coroutine |
| `pageSwitch` | the kill switch in the configuration an open risk page loaded |
| `admitted`, `revived`, `skipped`, `trials` | history, read by properties only |

`submit_order` up to its first suspension is one of `SubmitDuplicate` (the key is known, lines 74-84),
`SubmitRefused` (stale data, failed check or no adapter), `SubmitHttp`, `SubmitSandbox`,
`SubmitPaperFill`, `SubmitPaperReject`, `SubmitInstantFill` and `SubmitInstantFails` (Binance, Angel One and
Interactive Brokers, with and without a session); the last six share `Admit`. `PlaceReplies` and `PlaceFails`
are the segment after the HTTP call, with the unconditional status assignments of lines 147 and 158.
`cancel_order` is `CancelNow` or `CancelHttp` followed by `CancelReturns`, which writes CANCELLED
whether the call succeeded or not, as line 259 does. The risk service's operations are
`ActivateKillSwitch`, `DeactivateKillSwitch`, `DryRun`, and `PageLoads` with `UpdateConfig` (the page's
read and its whole-configuration PUT). `ExchangeAccepts`, `ExchangeRefuses`, `ExchangeFills` and
`ExchangeCancels` are the broker's side of the HTTP interface and external. A timeout is `PlaceFails`
in any state of `exchange`; the request may still arrive after it.

`Connect` and `Disconnect` are those of Zerodha and of the adapters that fill at once. `TrialOnPaper`,
`TrialOnZerodha` and `TrialElsewhere` are the certification audit's trial order: BUY 1 on the adapter itself,
which moves the paper broker's cash and book and every adapter's queue, and of which the order service has no
record. `Audited` are the adapters administrators certify.

Facts of the code the model depends on:

- `Kind` is how an adapter was built: the paper broker; `sandbox`, Zerodha as the default registry creates it;
  `http`, Zerodha outside sandbox mode, registered with `BrokerAdapterRegistry.register`; `instant`, the other three.
  An `http` adapter calls its broker only while it has an HTTP client (`Dials`), which connecting with credentials
  makes and disconnecting removes; without one it acknowledges by itself like the sandbox (`Acknowledges`).
- The order service asks adapters for `get_account_info`, which none has; the error is swallowed and the
  risk engine uses its default capital. `NotionalCap` is the resulting constant.
- Daily loss and drawdown are the literal 0.0 at the only call, so those two checks cannot fail.
- Nothing consumes an adapter's update queue, so its length only grows, and a placement on a full queue
  blocks for ever after the adapter has done its work (`pc = "blocked"`).
- Requests may spell a symbol in lower case. The repository and the paper broker use upper case, the risk
  checks compare the request's own spelling; `Spellings` and `UpperOf` keep the difference.

Abstractions: prices and quantities are small naturals; a positive price is a limit price, 0 none (the
engine treats `None` and 0 alike); `MktPrice` is the feed's price, `PaperPrice` the reference price the
paper broker fills at. Average prices and P&L are left out. The window holds the number of timestamps,
and `WindowSlides` lets any of them expire.

### MarketData

One symbol. `Ingest` is `ingest_tick` up to its broadcast: the feed's write and `process_tick` for every
timeframe. `BarStart`, `NewBar`, `Extend`, `Belongs`, `Completes` and `Trimmed` are the branches of the
aggregator, `GetCandles` its query, `IsStale` and `GuardView` the guard. `log` is a history of all ticks
in order of arrival. Tick times are arbitrary: the endpoint accepts any timestamp, so ticks arrive late,
repeated and ahead of the clock. One unit stands for the guard's milliseconds and the aggregator's
seconds; the clock does not go backwards.

`OrderManagement` uses only the guard's view (`feed`), with `TickArrives` and `TickAges` the two steps of
`StalenessGuard`. `ImplementsGuard` is the justification: `MarketData` implements `StalenessGuard`.

### Promotion

`stage` is `Strategy.promotion_stage`, `backtests` the result cache, `paper` the engine's sessions,
`approvals` a history of the bypass flags approvals were given with. No operation here suspends, so each
is one action. Ids are random uuids: an id is never used before its strategy is created (`Fresh`), though
a backtest or a session may name a strategy that does not exist.

Abstractions: a backtest is its verdict (profit and drawdown within the criteria). A paper account is
one of three classes: about 100000 or more, far less (a session's peak starts at 100000 whatever the
account, so its first tick already shows the drawdown), or missing. Fills are reduced to the closed trades
they would count, and `TradesOn` says that `on_tick` closes none: `_instantiate_strategy` can make only
the EMA and RSI strategies, which trade in `on_bar` and inherit `on_tick`, which does nothing; the engine
calls only `on_tick`. `MinDays` and `MinTrades` are the gate's 14 and 30 as constants. `GrantLive` is
external: no service assigns LIVE_TRADING, tests assign it to the entity. `stage` is not read by
`can_transition_to`, the ordered ladder of `promotion.py`, which belongs to an entity the services do not
use.

### LiveTrading

`request` holds suspended preflights and activations. `Begin` runs one up to its first suspension: the
broadcast of `get_staleness_report` if the feed is empty or stale, else the broker check, `Dial`. A broker
that is not connected is dialled with mock credentials: at once, or, for the paper adapter, with the
suspension inside `connect()`. `BroadcastDone` and `ConnectDone` are the segments after them. What was
read before a suspension is kept in the request (`opens`). `Conclude` is the end of
`activate_live_session`: the look-up of an active session and the save, which nothing separates. `live`
is the repository, with sessions named by their request; amounts are left out and the tier is kept.

`link` and `certified` are an adapter's `_session_state` and `_certified`. A user's connection is
`ConnectNow` or the pair `ConnectBegins`, `ConnectEnds`; an audit is `AuditBegins`, `AuditEnds`, since its
trial order may wait. At most one connection and one audit per broker is in progress, `MaxBrokerCalls` in
all. `promoted`, `locked` and `feed` change freely: they are `Promotion`'s stage LIVE_TRADING,
`OrderManagement`'s switch and `MarketData`'s guard over all symbols. `cleared` is a history: the
requests during which checks 1 to 4 were true at one moment.

### Reconciliation

`row` and `object` are the position repository: `object[a][s]` says which object a row refers to, its own
or, after a sync, that of the broker named. `Row` is the position it shows. A broker keeps its book in one of four
ways: `paper`, netted in place for all accounts; `simulated`, for each of Binance, Angel One and Interactive Brokers
(`Simulated`) its own map, in which an order's side and size replace what was there; `live`, as the exchange has
it; and `nobody`, a broker id that is not registered, or Zerodha sandboxed or without an HTTP client, which has no book.

`PaperOrder` and `SimulatedOrder` are `submit_order` for an order that fills at once: the broker's write
(`PaperAfter`, `SimulatedAfter`), then either `BookFill`, the service's write to the object its row refers to, which
may be the one the broker has just written, or `LeaveUnbooked`, when the report finds the adapter's update queue
full and the call never comes back. `PaperTrial` and `SimulatedTrial` are the certification audit's trial order, which
nobody books; on paper it may make the audit's account the owner of the symbol. `ExchangeExecutes` is what the service
is never told.

`Reconcile`, `ReconcileAll` and `Sync` are the requests that do not suspend, with any broker id but the live one.
A live reconciliation reads the rows (`LiveReconcile`), waits for the positions (`LiveAnswers`, `LiveFails`), waits
for the funds and concludes (`FundsAnswer`); `LiveSync` waits once more before that. What it keeps of the rows are
references: `query` has which symbols were `open` when the rows were read and which of those rows a sync has
`replaced` since; the sizes compared (`LateDiscrepancies`) are those the row objects have in the end, and any size
for an object that was replaced. The adapter answers an HTTP error with no positions and raises on a transport
error; the engine swallows the latter. `Conclude` engages the switch when sizes differ. The switch's level is always
GLOBAL, so `halted` is one bit, and no order fills under it (a trial order does). The halts here are those of
reconciliations. `Polled` are the accounts that `reconcile_all_accounts` has built in. Orders refused by other
checks, partial fills and money are `OrderManagement`'s.

### SignalSources

The order service appears as `Outcomes`: a known key is answered with its order, an unknown one is refused,
recorded, or recorded and failed, which is what `OneOrderPerKey` and `SameKeySameAnswer` establish for
`OrderManagement`. `Deliver` is the webhook's handler: the timestamp against whole seconds, the clean-up and
look-up of nonces against fractions, the nonce's record, then the signature. The clock therefore runs in
half-seconds. The bridge's actions are its methods; `BridgeConnect` and `BridgeDisconnect` are called by tests
only, so that in the application the bridge stays DISCONNECTED and refuses every command. `ExecuteSheet` is
the upload, `ExecuteRow` one turn of its loop, which may suspend in the order service; a key is made of the
symbol, the quantity and the number of rows executed so far.

### StrategyEngine and Backtest

`OnBar` is `on_bar` of the built-in strategies (`Crossover`, `Reversion`) with the bookkeeping around the
verdict: the prices it keeps, `last_signal`, and the order request, which raises for a quantity of zero.
`FreshContext` is the context a start makes. `MarketBar` is `process_bar`: all running strategies of the
symbol, each caught on its own. A script strategy's verdict is always `Flat`: its coroutine is scheduled on
the loop whose thread waits for the result, so the wait runs out. `feed_market_bar` is called by tests only.

`Backtest` runs the same `OnBar` on candles: `Buys` and `Sells` are the two branches that fill an order,
`ReportBacktest` the result, `NextSlice` the next slice of a walk-forward validation, `GrowthDefined` the
condition under which the annual growth is a real number (0 cash or a negative equity raises). Prices are
multiples of ten and slippage a tenth, so that amounts are whole and rounding to cents does nothing.

### Sandbox, Streaming, Notifications, Accounts

`Sandbox`: `queue` and `running` are the default executor; `ExecuteIsolated` submits a script and
enters it in `tasks`, `TimeRunsOut` is `wait_for` around the shielded future, which leaves the script where it
is. `ScriptEnds` need never happen.

`Streaming`: `active` with `subscriptions`, and `members`, are the manager's two dictionaries; `Enter`, `Leave`,
`Subscribe`, `Unsubscribe` its methods. An endpoint is in `greeting`, `reading` or `replying`, the awaits of its
loop. A broadcast takes its recipients (`Listeners`) and serves them one at a time (`Delivered`,
`Undelivered`); after the last one it removes those that failed and, for ticks and reports, goes on to the
subscribers of ALL. A socket whose peer is gone may still accept what is sent.

`Notifications`: `broadcast_alert` copies the list of enabled channels and holds the channel objects, so
`Loop` reads their settings when it comes to them. It suspends at a post; everything between two posts is one
step. `Saved` is the log with its capacity. E-mail and further in-app channels behave as `InApp`.

`Accounts`: `users` and `logins` are the two dictionaries of the user repository; `LookedUp` is the lower-case
address. `Authenticates` is `get_current_user` with a token or a key, `MayManage` the role's permission.
Passwords, signatures and encryption are taken to work.

### Properties

- `OneOrderPerKey`, `SameKeySameAnswer`: idempotency, seen by the brokers and by the clients.
- `SettledIsFinal`: an order the broker answered and that is terminal never changes again. It is weaker
  than what the documents claim, see section 6; without `bid` it is false.
- `HaltDrains`: under a switch, no order it covers is open, with the two exceptions the code really has:
  a late acknowledgement (`revived`) and a switch engaged by saving an old page (`skipped`).
- `NoSelfCross`, `OpenCap`: about orders that stood since admission, in the repository's spelling, under
  the limits each was admitted with. An order whose acknowledgement revived it was not checked again and
  is exempt, and so are requests in another spelling (a hazard of its own).
- `PositionsFollowOrders`, `BooksAgree`: the order store, the position book and the paper broker's book
  say the same. What keeps them apart is accounted for explicitly: the fills of calls stuck at the queue (in
  the order and the broker's book only), the fills of adapters with books of their own (in the position book
  only), and the audits' trial orders (in the broker's book only).
- `ImplementsFairGateway`: refinement of `OrderGateway`: per key one dispatch, none under a global halt,
  and no call waits for ever. A call whose answer meets a full update queue never returns to its client; it is
  `stuck`, which the gateway allows only while some queue is `full`.
- `CandlesReplayTheTicks`: every answer of `get_candles` is what cutting the log of ticks into runs of one
  bucket gives, for any order of the ticks. `BarsIncrease`, `TimeframesAgree` and
  `GuardSeesAnyFreshTick` say what a feed that keeps order gets in addition: no bucket twice, coarse
  bars made of fine ones, a guard that refuses only if no tick is fresh. Without order each is false.
- `OnlyBypassesApprove`: nobody passes the paper trading gate. `ImplementsRegister`: what order among the
  stages is left; with `NoFastTrack` (violated) it says how far the code is from the documented ladder.
- `OneActivePerStrategy`, `SessionsCertified`, `HaltedForever`: hold for overlapping activations.
  `OpenedWhenCleared` is what the preflight gives: a moment at which the checks held, not that they hold
  when the session is saved. A halt after that moment does not stop the activation.
- `PairedBooksAgree`: trading in a symbol that the row and a broker's book can follow (`Paired`: at that broker
  only, every execution booked, on paper without other accounts in the symbol, the audit's included, one order
  at a simulated broker, no copy of a live position) leaves row and broker equal in side and size through every
  sync. `HaltsHaveACause` is its counterpart, an action property: when a reconciliation that reached its broker, or
  has none to reach, engages the switch, its account has some symbol outside `Paired` for the broker it was
  compared with. So ordinary trading raises no false alarm. Outside `Paired` the code does halt: two accounts in
  one symbol on paper, an audit in a traded symbol, a second order at a simulated broker, a fill at one broker
  compared with another one or with nobody, a fill that was never booked, any live execution.
  `UnsyncedRowsFollowFills`: a sync shares objects, but never with a row it did not replace.
- `DirectoriesAgree`, `SteadyListenersServed`: about removals in any order, and about one failing client.
- `AlertsReachEveryChannel`: about channels nobody changed; a changed one may be served or not.
- `TasksAreAwaited`, `CallsAnswered`: overlapping calls of a strategy, and threads that never come back.
- `GuardStopsReplays`: exact, with the one pair of moments at which a replay passes the guard (its order key
  is still the same, so the order service answers it with the first order).
- `UploadsRepeatable`: for files of which every row was executed. After a failed row the later rows have other
  keys in a repetition, and may be ordered twice.
- `SignalsFollowTheBars`, `BacktestAddsUp`: against a recomputation from the bars, and of three separate
  accounts of the same trades.
- `RequestsAnswered`: no interleaving with connects, disconnects and audits keeps a preflight waiting.

## 4. Runs

| Run | Result | States | What it shows |
|---|---|---|---|
| `oms_live_broker` | pass | 910 000 | types, idempotency, finality, halt and self-trade on the HTTP adapter |
| `oms_books` | pass | 850 000 | positions, both books and the open-order cap on three kinds of broker, with audits |
| `oms_gateway` | pass | 180 000 | refinement of the gateway, with liveness and full queues |
| `market_data` | pass | 290 000 | candles, guard, and refinement of `StalenessGuard` |
| `promotion` | pass | 300 000 | the gate is only bypassed; refinement of the stage register |
| `live_trading` | pass | 220 000 | overlapping activations against halts, audits, connections; answers |
| `reconciliation` | pass | 520 000 | where the books agree, what a halt is owed to, which rows a sync reaches |
| `services` | pass | 98 000 | the nine other services, one per behaviour |
| `oms_terminal_immutable` | violated | | a terminal order changes its status |
| `oms_kill_switch_broker` | violated | | the halt never reaches the broker |
| `oms_switch_release` | violated | | saving limits releases the halt |
| `promotion_fast_track` | violated | | approval without a backtest and without the gate |

Bounds, and why they are enough:

- `oms_live_broker`: three calls are two orders that would cross and a retry of either, in every order;
  one cancellation, which can race the halt and the acknowledgement; a connection that comes and goes.
  `maxRate = 1` and `MaxUpdates = 1` make the rate limit and the full queue happen. One scope, the global
  switch; a narrower one cancels the same orders and covers fewer, and the proof of `HaltDrains` is for any.
- `oms_books`: three calls of two accounts over opening, growing, reducing, flattening and flipping fills, a
  lower-case spelling, an unknown adapter, cash of 5 so that a buy is rejected, two caps on open orders. Paper and
  Binance are audited; a queue of 2 is filled by orders, trial orders or both, and the next call is stuck.
- `oms_gateway`: two calls of which one may retry the other, and an audited adapter with a queue of 1, so that
  either call's answer, or a trial order, fills the queue and the other call is stuck. Larger instances add only
  states of the exchange the gateway does not see.
- `market_data`: four ticks, times 0 to 6, buckets of 2 and 4, two completed bars kept: enough for a
  reopened bucket, a full history in and out of order, and coarse bars made of two fine ones.
- `promotion`: two strategies and two sessions, so that a session, a backtest or an approval may be another
  strategy's; one symbol, which a session always watches; thresholds of 1, the smallest that can be missed.
- `live_trading`: two requests of one strategy on either broker, which overlap at every suspension; two
  tiers; one connection or audit in progress at a time besides the preflights' own.
- `reconciliation`: two accounts of one symbol, both polled, one of them the audit's; paper and two simulated
  brokers, which are interchangeable; two executions, orders of 1 and 2 and trial orders, which open, grow, shrink,
  flatten and flip a position, before, between and after syncs and halts; one live query at a time, which every
  other action can overtake; the exchange holds nothing or a short position.
- `services`: the services share no state, so `MCServices` lets one `part` move in a behaviour and leaves the others
  at their initial states; the steps of the others commute with its own and are invisible to its
  properties. Streams: two sockets, one topic besides ALL, one broadcast at a time (the proof of
  `DirectoriesAgree` is for any number). Alerts: two channels and a log of two messages, which overflows at the
  second alert. Sandbox: three scripts on one thread, two ids. Webhook: skew 1 and a clock twice as long as the
  nonces are kept. Sheets: three files with repeated and invalid rows, two uploads at once. Strategies: seven
  settings, among them a script, two divisions by zero, an order of nothing and a start that fails; four bars
  reach every turn of averages over two. Backtests: no cash, too little for one unit and enough; one window,
  that is two slices. Accounts: two users, one address in two spellings, one key, both roles.

`MaxTime`, `MaxTicks`, `MinDays` (days are counted up to it) and `MaxBrokerCalls`, `MaxFills`, `Horizon`, `MaxBars`, `MaxCandles`, `MaxWindows` and
`LastDay` are bounds of the model; `MaxUpdates`, `MaxHistory` and `LogCapacity` are sizes the code has
(10000, 500 and 1000). Calls and cancellations are finite sets by construction and interchangeable, which the
two larger order runs use as symmetry, as `reconciliation` does with the simulated brokers; the run with liveness does not. `CHECK_DEADLOCK FALSE` is set
because the instances end: every call returns or is blocked, which the code allows.

**Fairness** (`FairSpec`): weak fairness of `PlaceReplies \/ PlaceFails` and of `CancelReturns`. The HTTP
client is created with a timeout of 10 seconds (`zerodha_adapter.py:72`), so a call that is out returns
or raises. In `LiveTrading`, weak fairness of `BroadcastDone` and `ConnectDone` for every request: the
broadcast sends to web sockets with errors caught, the paper handshake is a sleep of 10 ms, and the event
loop resumes what is ready. (A client that keeps its socket open and never reads could delay a broadcast
for as long as the server keeps it connected; the assumption is that it does not for ever.) In `Sandbox`, weak fairness of
`TimeRunsOut` for every call (the loop's timers fire) and of `ThreadStarts` (a free thread takes the next
script); a script need not end. Nothing is assumed of the exchange, of operators, of ticks, or of the
connections and audits of others.

Each property has a mutant in `PROJECT.json`: a change of one modelled definition, like a dropped or
widened condition, that the run's own configuration finds to violate it. Mutated forms are the operators
marked "Mutant" in front of the definition they stand in for.

## 5. Proofs

All theorems hold for every value of the constants under the named assumptions of their modules
(`OrderManagementAssumption` with `NotionalAssumption`, `MarketDataAssumption`, `PromotionAssumption`,
`LiveTradingAssumption`, `ReconciliationAssumption`, `SandboxAssumption`, `SourcesAssumption`,
`StrategyAssumption`, `BacktestAssumption`, `NotificationsAssumption`, `AccountsAssumption`). They say that
the constants have their types, that the sets of calls, accounts and brokers are finite, that upper-casing an
upper-case symbol does nothing, that the gate asks for at least one trade, that a sheet is a sequence of rows,
that a backtest has a window and its prices are not negative, that the absent session, request, call and user
are none of the others, and that times, sizes and money to start with are naturals. TLC evaluates them in every run.

| Theorem | Module | Property |
|---|---|---|
| `TypeCorrect` | `OrderManagement_proofs` | `TypeOK` |
| `Idempotent`, `RetriesAgree` | `OrderManagement_proofs` | `OneOrderPerKey`, `SameKeySameAnswer` |
| `SettledForever` | `OrderManagement_proofs` | `SettledIsFinal` |
| `HaltHolds` | `OrderManagement_proofs` | `HaltDrains` |
| `NoSelfTrade` | `OrderManagement_proofs` | `NoSelfCross` |
| `CapHolds` | `OrderManagement_proofs` | `OpenCap` |
| `PositionsAddUp`, `TwoBooksAgree` | `OrderManagement_proofs` | `PositionsFollowOrders`, `BooksAgree` |
| `GatewayImplemented` | `OrderManagement_proofs` | the safety part of the refinement (`ImplementsGateway`) |
| `TypeCorrect`, `BarsInOrder`, `GuardSeesTheNewest`, `GuardImplemented` | `MarketData_proofs` | `TypeOK`, `BarsIncrease`, `GuardSeesAnyFreshTick`, `ImplementsGuard` |
| `CandlesAreReplayed`, `TimeframesAreConsistent` | `MarketData_proofs` | `CandlesReplayTheTicks`, `TimeframesAgree` |
| `TypeCorrect`, `GateOnlyBypassed`, `RegisterImplemented` | `Promotion_proofs` | `TypeOK`, `OnlyBypassesApprove`, `ImplementsRegister` |
| `TypeCorrect`, `OneActive`, `Vetted`, `Certified`, `HaltIsFinal` | `LiveTrading_proofs` | `TypeOK`, `OneActivePerStrategy`, `OpenedWhenCleared`, `SessionsCertified`, `HaltedForever` |
| `TypeCorrect`, `BooksStayPaired`, `NoFalseAlarm`, `UnsyncedRowsAreOwn` | `Reconciliation_proofs` | `TypeOK`, `PairedBooksAgree`, `HaltsHaveACause`, `UnsyncedRowsFollowFills` |
| `ApplyFillIsNet`, `BooksApplyFillsAlike` | `Reconciliation_proofs` | one fill adds its signed quantity; the two books' code agree |
| `StrategiesTyped`, `SignalsFollow` | `Strategy_proofs` | the types of the runtime; `SignalsFollowTheBars` |
| `BacktestsTyped`, `BacktestsAddUp` | `Strategy_proofs` | the types of a backtest; `BacktestAddsUp` |
| `StreamsKeepTheirDirectories`, `SteadyAreServed` | `Services_proofs` | `DirectoriesAgree`, `SteadyListenersServed` |
| `AlertsReach` | `Services_proofs` | `AlertsReachEveryChannel` |
| `TasksStayAwaited` | `Services_proofs` | `TasksAreAwaited` |
| `LoginsAreKept` | `Services_proofs` | `AccountsKeepTheirLogins` |
| `ReplaysAreStopped` | `Services_proofs` | `GuardStopsReplays` |
| `UploadsMayRepeat` | `Services_proofs` | `UploadsRepeatable` |
| `ServicesTyped` | `Services_proofs` | `ServicesTypeOK` |

**Order path.** The inductive invariant is `Linked == TypeOK /\ Keyed /\ Deletions`. None of the safety
properties is inductive alone. `OneOrderPerKey`, for one, needs that every order with a status, every
request at the exchange and every answer is the entry of its key in the index, and that an unused call
has left no trace: that is `Keyed`. `SettledIsFinal` needs that a cancellation under way is of an order
the broker has answered and that no placement waits for, so that its late write finds either an open
order or one already CANCELLED: that is `Deletions`. With `Linked`, the idempotency theorems follow by
reading; `HaltHolds`, `NoSelfTrade` and `CapHolds` are proved as invariants of their own, from what an
admission does to its order and to the others. `CapHolds` picks, at each admission, the new order as the
one whose limit bounds the count (`CapOfParts`, `CountsAll`), and uses that a closing order only
shrinks the set. `GatewayImplemented` maps an admission to `Send`, a segment after the call to `Answer` or, if it
meets a full queue, to `Stick`, a trial order that fills a queue to `Fill`, a change of the global switch to
`Switch` and everything else to a stutter; queues only grow, so `full` never goes back.

**The two books.** `PositionsFollowOrders` and `BooksAgree` are about sums of signed fills: over the calls that are
free, over those stuck on the queue, and over those whose orders went to an adapter with a book of its own. Their
invariant is `Booked`: both, with `Unfilled` (an order whose acknowledgement is awaited has no fill, so that a late
answer adds one to nothing) and `PaperWellFormed`. A step is compared with the sums call by call: `FreeShare`,
`StuckShare` and `OtherShare` are what a call adds to each sum, `EmptyStays` shows that all calls but the step's
own keep their share, and `NetMoves` that the sum then moves by that one share. `FillMoves` is the position's side
of it, for both implementations. `QuietStep` covers every step that fills nothing. `FillBooked` is an order filled
at once: the paper broker's book moves by its own fill, booked or stuck (`PaperFillBooked`), the fill of another
adapter is in the position book and in `OtherShare` (`InstantFillBooked`). `TrialBooked` is the audit's order,
which moves the paper broker's book and `trials` alone.

**Market data.** `Chronicle` says that the latest tick is the last of the log, the bar in progress is
that tick's bucket, and, if the log is in order, the completed bars increase and lie before the bar in
progress. `BarStartMonotone` (integer division is monotone) carries the step.

`CandlesReplayTheTicks` compares with a replay of the whole log, which no step does. `ReplayInv` says how the
state is what is left of it: the bar in progress is the replay's last bar, the completed bars are the ones before
it as far as history reaches (`IsTail`), and no piece of the replay is empty. The step needs how the
replay of one tick more differs: `CutsGrow` (at most one cut, at its own place), `PiecesGrow` (it joins the last
piece or is the next one), and `BarStays`, `BarOpens`, `BarExtends` (a bar over the same ticks, over one, and
over one more is the old bar, `NewBar`, `Extend`). `TailGrows` is the trimming, `TailAnswers` the answer to a
limit. Nothing is assumed of the order of the ticks.

`TimeframesAgree` rests on `BucketsInv`: from a feed in order, every bar held is made of all the ticks of its
bucket, and as long as none was dropped every tick is in a bar held. A coarse bucket is then the disjoint union
of fine ones (`BucketsNest`: arithmetic of two widths that divide; `PartsPartition`), and opens,
closes, extremes and sums of a union follow from its parts (`PartsAgree`, `SumOfSums`).

**Promotion.** `IInv == TypeOK /\ NoTrades /\ OnlyBypassesApprove`: sessions never have a trade, so a
session fails a gate that asks for one, and an approval is a bypass. The refinement needs in addition that
a new strategy's id is fresh, or creating it would make it "papered" at once.

**Live trading.** The three invariants are proved together, with `VerdictsStand`: a suspended request that
is to open a session was cleared, and its broker is certified. It is what carries the verdict of the checks
over the suspensions; it stands because nothing takes a certification away, and it has no part about the
switch, the stage or the feed because they may change. `OneActivePerStrategy` rests on `Conclude` alone.

**Services.** `StreamingInv` adds to `DirectoriesAgree` that a socket that was never opened is not entered (so
entering it starts from nothing) and that what a broadcast still has to do names clients and channels. There is
one lemma for each method of the manager, which the endpoints' and broadcasts' steps cite. `SteadyListenersServed`
adds `BroadcastsOwe`: a listener that stayed is served, gone, among the recipients at hand, or listens to ALL
while ALL comes next, and only clients that are gone are removed as stale. `SandboxInv` and
`AccountsInv` are the properties with the types they need; `RegisterKeeps` is the step in which a login could
be taken over. `WebhookInv` has `PassagesRemembered`: whatever passed was in time, and lies no later than the
nonce's record, or a whole window back if there is none; `BoundaryReplay` turns two passages a whole window
apart into the one case that `GuardStopsReplays` allows, with whole seconds and half-seconds on either side.

`AlertsInv` has `Covered`: a channel that an alert is owed to is in the log or still has its turn, among
the channels of the broadcast under way that have not been served (`HasItsTurn`).
`SheetsInv` has, for every upload under way, that what is left of its rows is the rest of its file, that as long as
every row was executed each one's key is known (`Ordered`), and that a repeated upload of a complete file
has not lost a row. `ServicesInv` joins the invariants of the nine services; `EachServiceSteps` shows that a step
of `MCServices` is one of each service's own steps or leaves it alone, so each invariant is kept by its own lemma.

**Strategies and backtests.** `RuntimeInv` is `RuntimeTyped` with `Followed` for every running strategy: the
prices its context keeps are the bars since the start, the signals handed out are what the strategy calls for on
them (`Called`, a function by recursion over the bars), and `last_signal` is the last of these. The step is that
`Called` on one bar more appends the verdict on it. A start makes the context anew (`FreshContext`), which is
why a restart cannot carry prices or signals over. `BacktestInv` is `BacktestTyped` with `Holds` (the
quantity held is that of the open entry, so a sale sells what was bought), `Accounted` (start plus closed trades
is cash plus what the open position cost) and `Deepest` (the fall kept so far is the deepest between two points
of the curve); the report reads them off when the position is closed.

**Sums and selections.** The library's induction theorems take a predicate as an argument, which the provers
cannot instantiate. `Aggregates` states induction for sets instead (`NatInduction0`, `SubsetInduction`), proved by
a minimal counterexample from the well-foundedness of the naturals and of the strict subsets of a finite set, and
recursion as the existence of a function (`NatRecursion`, `FoldExists`, `FoldUnique`). From these follow the
facts about `SumFunctionOnSet` (one addend more, less or other; equal addends; a partition) that the
theorems above cite. `Only` stands in for `SelectSeq`, which the prover does not unfold.

**Reconciliation.** `IInv == BookInv /\ Kept /\ QueriesHonest`. `PairedBooksAgree` is not inductive: it needs to know
whose object a row is (`Sharing`: only a sync makes a row the broker's object, and only of a position the account has
there), who owns a paper position (`Ownership`: an account that traded the symbol, so that a trader who is alone in it
owns it), that what was never traded is empty (`Untouched`), and that a row of its own keeps pace with the broker's
position (`OwnRowsKeepPace`; a shared row is the position, so nothing is to be shown). These, with the types and
`UnsyncedRows`, are `BookInv`. The step of a fill rests on `ApplyFillIsNet` and `BooksApplyFillsAlike`, the arithmetic
of the two implementations. `QueriesHonest` carries what a live query has seen over its suspensions: a symbol in which
an open row was read, or a position answered, cannot be followed at the live broker. It stands because trading that cannot be followed never can be again. `NoFalseAlarm` then follows for
each step by itself: the differences a reconciliation finds are of symbols that are not `Paired`.

**Only model-checked.** Liveness and what is stated with fairness, since both are about infinite behaviours and
`ENABLED`, which are outside the prover's reach: the fairness part of `ImplementsFairGateway` (its safety part is
`GatewayImplemented`), `RequestsAnswered` and `CallsAnswered`. Every other property of a passing run is stated by a theorem.

## 6. Where the code and its documents disagree

1. `oms_terminal_immutable`. `src/milestones/milestone-07-order-management-system.md:17` says that immutable
   terminal states prevent mutating executed or cancelled orders. An order cancelled while its placement
   is in flight becomes SUBMITTED when the acknowledgement arrives, or REJECTED when it fails.
2. `oms_kill_switch_broker`. `src/milestones/milestone-08-risk-engine-kill-switch.md:25` says that the switch
   cancels all open broker orders. It sets statuses in the service; the orders stay at the broker, and
   the service will not cancel them later because its records are terminal.
3. `oms_switch_release`. The configuration endpoint is documented to update risk limits, and another one to
   resume trading (same file, lines 30 and 32). It replaces the kill switch as well, and the risk page
   sends the copy it loaded, so saving limits from a page opened before a halt ends the halt.
4. `promotion_fast_track`. `src/README.md:9` says that no strategy trades live without backtesting,
   walk-forward validation and paper trading, and that no fast track skips this; `domain/models/promotion.py:5`
   that no stage is ever skipped. A paper session moves a strategy from any stage, its approval takes a
   `bypass_criteria` flag that the paper trading page always sets, a promotion may name another strategy's
   backtest, and walk-forward validation is never assigned. `OnlyBypassesApprove` adds that the gate has no
   other way through.

## 7. What is not modelled

- Crashes and restarts: nothing on the order path is persisted, a restart is a new process with `Init`.
- Several worker processes (`src/backend/Dockerfile.prod:60` starts four). They share nothing, so a model of them
  would be copies of `OrderManagement` behind one port, in which idempotency and the kill switch fail at once.
- Prices beyond what the checks compare, average prices, P&L, decimals.
- Broadcasts, audit records, logs, metrics: written, never read by a modelled decision.
- `modify_order`, quotes, holdings and streams of adapters; the HTTP mode of Binance, Angel One and Interactive
  Brokers, which the registry creates in sandbox mode; cancellations at those.
- Of the certification audit, what its trial order becomes at Zerodha's exchange: it is no call's, and
  `exchange` is of calls. In `Reconciliation` it is an `ExchangeExecutes` like any other.
- In `OrderManagement`, rows that a forced sync replaces, and the halts of reconciliations: the two books there are
  those of a service that is not synced. `Reconciliation` has both, without the order records.
- Which adapters' queues are full in `Reconciliation`: any order may be stuck there.
- The feed health report beyond the three cases the preflight tells apart (`feed` in `LiveTrading`).
- The fills of paper sessions, which no strategy reaches; amounts of capital and their limits in live
  sessions, which no order is checked against; the single checks of a certification audit.
- What a demotion does to a running live session: nothing in the code, and `live` shows it; no property.
- The statistics of a backtest (ratios of its curve, efficiency of a walk-forward validation) and its synthetic
  candles: decimals and random numbers, which no decision of the modelled services reads except through the
  verdict that `Promotion` keeps.
- Portfolio analytics and AI advisory: numbers and text computed within one call, no state kept between calls.
- The event bus: subscribed to by the alerts, published to by nobody. The audit log and the security audit,
  metrics and health: appended to by every service, read by reports only.
- The database repositories and migrations: defined, and wired into no service.
- The HTTP application, the pages of the frontend (but for the risk page's copy of the switch and the paper
  trading page's bypass) and the deployment files: wiring.
- Hazards that are known and that no property covers: the realized P&L of a fill that flips a position counts
  the whole fill (`order_service.py:212`); a dry run or a rejected order uses up the rate limit
  (`risk_engine.py:166`); an adapter counts as connected before its handshake ends (`base.py:89`); a feed that
  never had a tick has no stale symbol (`in_memory_feed.py:91`); a demotion leaves a live session active
  (`paper_trading_service.py:157`). All but the first are in the models. No document says what should hold.
- A terminal of the bridge whose heartbeats resume stays in HEARTBEAT_TIMEOUT (`mt5_bridge.py:103`): in the model,
  but unreachable in the application, where nothing connects the bridge.

## 8. Plan

Every module is written without `RECURSIVE` so that it can be proved about. Done, in order of importance: the order
path (`Positions`, `PreTradeRisk`, `OrderManagement`, `OrderGateway`), `MarketData` with `StalenessGuard`,
`Promotion` with `PromotionStages`, `LiveTrading`, `Reconciliation`, `SignalSources`, `StrategyEngine` with
`Backtest`, `Sandbox`, `Streaming`, `Notifications`, `Accounts`, and a theorem for every safety property of the
passing runs.

Left: the HTTP modes of the remaining adapters; abstract specifications of the services that have none
(reconciliation, the streams), with the refinements proved.
