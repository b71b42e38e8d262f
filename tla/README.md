# punch.trade in TLA+

TLA+ modules that model the backend of punch.trade (`src/backend/app`), the TLC
configurations that check them on small instances, and TLAPS proofs of what matters most
for every value of the constants. `PROJECT.json` lists the runs, the theorems, the lines
of source each definition models, and, for each property of a passing run, a *mutant*: a
plausible bug under which that property fails.

    tlc -workers 2 -config MCOrderExecution.cfg MCOrderExecution
    tlapm OrderExecutionProofs.tla

## The system

One Python process serves HTTP and WebSocket clients (dashboard, browser extension),
turns market data into signals, and sends orders to a simulated or a real broker.

**Threads.** The `async` endpoints, the feed and everything they call run on one event
loop. Endpoints written as plain `def` run in a thread pool, and `place_order` hands the
broker call to a worker (`asyncio.to_thread`). The only locks guard single calls
(a SQLite write, a rate limiter, counters), never a handler, so pool threads
interleave with the loop and with one another at any point; code on the loop is
interrupted by other loop code only at an `await`.

**State.** Nearly all of it is module globals. What survives a restart is SQLite
(`db.py`), four JSONL audit files that the next start imports and archives, and the vault.

| Component | State | Operations | Talks to | What is hard, and what makes it correct |
|---|---|---|---|---|
| Risk engine (`risk.py`) | mode, armed brokers, stop, shield, loss streak, breaker, reconciliation gate | `set_mode`, `arm`, `stop`, `set_shield`, `check`, `record_trade_result`, `reset_breaker`, `set_reconciliation_ok` | order endpoint, execution | threads without locks; nothing armed outside LIVE; breaker = streak |
| Order endpoint (`api.place_order`) | idempotency keys, signal statuses | one request | risk, broker, execution, db | an `await` between check and effect; several writes after it; at most one order for a key |
| Execution (`execution.py`) | order ledger, closed trades | `record_order`, `mark`, `stale_unknown_orders`, `reconcile`, `restore`, `record_closed_trade` | db, risk, brokers | a walk of a dict that grows; gate closed while an order is UNKNOWN; one trade for a position |
| Paper broker (`broker/paper.py`) | positions, fills | `place_bracket`, `on_bar` | execution, feed | rounding of partial exits; a crash between the books |
| Real brokers (`kite`, `ccxt_bt`, `openalgo`) | session | `place_bracket`, `get_positions` | network | a failure after the first leg; exits nobody cancels; an error read as "no positions" |
| Store (`db.py`) | tables, audit files | write-through, import at start | disk | crash between writes; rows imported over newer ones; LIMIT |
| Signal hub (`api.Hub`) | last 50 signals, clients | `on_signal`, `_update_signal`, `broadcast` | engine, clients | statuses in memory only; eviction |
| Feed and engine (`feed.py`, `engine.py`) | bars, staleness, runner state | `ingest_bar`, provider loops | market data, paper broker | ticker thread; candles of several symbols |
| Backtester (`backtest.py`, `trades.py`) | open position, pending entry, runner, cash | one bar | config, engine | the order inside a bar; partial exits, gaps; no lookahead |
| Research (`research.py`) | slices, windows, gate of one study | `split_chronological`, `walk_forward`, `parameter_stability`, `quality_gate` | backtester | boundaries of windows; a check that passes because nothing ran |
| Strategy health (`strategy_health.py`, `trial_ledger.py`) | trials, assessment | `append_trial`, `assess_strategy_health`, `deflated_sharpe`, `pbo`, `final_test_lock` | research, db | reads keys the report never has; statistics over the trials so far |
| Class-based strategies (`strategies/`) | what one object keeps between bars | `generate_signal` of fifteen | indicators | indices and windows; state kept over bars; ranking with ties |
| Market providers and router (`providers/`, `market_router.py`) | health of each provider | `get_quote`, `get_candles`, `search`, login | network | requests of several threads change one health; retries; fallback |
| Vault (`vault.py`) and what is built from it | two files, the key in memory, the router | `save`, `delete`, `rotate_key`, `create_router` | disk | files emptied before they are written; threads; crash in a rotation |
| Strategy ladder (`strategy_status.py`) | none | `compute_status` | research | precedence of rules |
| Sessions | tokens | create, expire | clients | not modelled |
| Frontend, extension | socket, store | connect, reconnect | `/ws/signals` | stale socket events, doubled timers |

The hazards this code is exposed to are listed under `hazards` in `PROJECT.json`, each
with the properties that would catch it, or with the reason why none does yet.

## Modules

    RiskGate ---------- RiskHandlers ------ MCRiskHandlers
       |                     \------------- RiskHandlersProofs
       |--------------- OrderExecution ---- MCOrderExecution
       |                     |  \---------- OrderExecutionProofs
       |                     \--(implements)-- OrderTracking
       \--------------- PaperTrading ------ MCPaperTrading
                             \------------- PaperTradingProofs
    BracketOrders ------ BracketOrdersProofs
    SignalFeed --------- MCSignalFeed
             \-------------\
    CredentialVault ------- DataPathProofs
                           /
    ProviderAdapters --- MarketData -------- MCMarketData
    Backtest ----------- MCBacktest
             \---------- BacktestProofs
    ResearchReport ----- StrategyHealth ---- MCStrategyHealth
                             \------------- StrategyHealthProofs
    SignalStrategies --- Strategies -------- MCStrategies
    PortfolioStrategies ---/ \------------- StrategiesProofs

- **RiskGate**: the globals of `risk.py` and one action for each function that changes
  them; `Check` is the pre-trade checklist (which rule failed is wording and left out).
  Whether a broker is connected, tested by `arm`, is an input of its caller. It has no
  specification of its own: the other modules compose its actions.
- **RiskHandlers**: the same functions one assignment at a time, on any number of pool
  threads and the event loop. `at[t]` is the assignment thread `t` performs next. One
  assignment, `+= 1` on a global included, is one step, as CPython's lock makes it.
  `modeRace` and `breakerRace` are history: they record that two calls overlapped.
- **OrderExecution**: `place_order` from the request to the durable record, with the
  ledger, the orders table, the audit file, the keys, the signals, reconciliation,
  restart and the operator's requests. See below.
- **OrderTracking**: what the ledger promises, in one variable: an order a broker took is
  entered in the ledger and stays, except through three named gaps. `Fate` of OrderExecution
  is the refinement mapping and `ImplementsTracking` the claim.
- **BracketOrders**: what OrderExecution takes as one step, the worker's `place_bracket`,
  one call of the broker at a time for Kite, Binance and OpenAlgo; the exits that trade at
  the exchange later; and the reconciliation passes, in threads of their own, that decide
  from `get_positions` whether the next live order may go.
- **PaperTrading**: a paper position from `place_bracket` through the bars that exit
  fractions of it to its trade and its row in the positions table.
- **SignalFeed**: the polling loop of the feed for one symbol, the runners of its
  strategies, and the hub's deque with its comparison of ids, over restarts.
- **CredentialVault**: `save`, `delete` and `rotate_key` file operation by file operation on
  several pool threads, with a crash between any two, and the router that endpoints and
  starts build from the vault, for the providers that read it and those that do not.
- **ProviderAdapters**: for each adapter, the result and the health state that each answer
  of its service leads to. **MarketData**: the router over these adapters under concurrent
  requests: choice, retry, fallback, replacement.
- **Backtest**: the loop of `backtest` bar by bar: the runner, the entry at the next open,
  the stop and the targets, the trade, the cash.
- **ResearchReport**: `research_report` stage by stage, from the split to the quality gate.
  **StrategyHealth** extends it: the report is appended to the trial ledger and assessed.
- **SignalStrategies** and **PortfolioStrategies**: `generate_signal` of the ten strategies
  that watch instruments and of the five that allocate or choose, as operators. **Strategies**: one
  object, bar after bar, and what it keeps between two.

### How OrderExecution corresponds to the code

| Variable | Code |
|---|---|
| `pc[r]`, `req[r]` | where the call `r` of `place_order` is; its body |
| `atBroker` | orders the broker holds (outside the process, survives a restart) |
| `paperOpen` | `PaperBroker._positions` that are open |
| `ledger`, `aged` | `execution._ledger`; its SUBMITTED orders older than 60 s |
| `db`, `rank`, `audit` | the orders table, its order by time, `data/orders.json` |
| `placedKeys` | `api._placed_keys` |
| `signals`, `expired` | status in `hub.signals`; older than the TTL |
| `scan`, `todo` | how far each pass of `reconcile` is; the orders it found old and SUBMITTED |
| `causes`, `limitRace`, `gateCauses` | history, read by properties only |

Up to the `await` the handler is one action with four outcomes (`Replay`, `Refuse`,
`Reject`, `Admit`): the loop runs it without interruption and it reads what pool threads
write once. The worker's call is `BrokerTakes`, `BrokerFails` or `BrokerFailsHalfway`.
After it come `RecordOrder`, `MarkOrder` and `FinishOrder` or `FinishOrderRaises`, in
separate steps because pool threads and a crash come between them; `LoopFree` keeps other
loop code out. Any number of reconciliation passes run at once, since
their endpoints are pool threads and nothing locks. A pass finds its orders (`StartScan`),
marks them one at a time (`MarkStale`), lists what is UNKNOWN (`ListMismatches`) and sets
the gate (`SetGate`); an order recorded meanwhile makes it raise if it is walking the ledger
(part of `RecordOrder`). `Restart` may happen in any state.
A broker gives each order its own id, so a request stands for its order.

In `PaperTrading` a bar is one action, since `on_bar` has no `await`; the trades and rows
it leads to are written one by one, and `Restart` may come between any two. What the bar
does to each position (stop, next target, nothing) is an input. Prices are levels.

In `SignalFeed` a candle is its number and `now` the one in progress, which the exchange
returns last (`Recent`, from how `ccxt_bt.py` calls `fetch_ohlcv`). A fetch runs in a worker,
so `Fetch` and what the loop does with its `rows` are separate steps; the loop then ingests
them one by one (`IngestBar`, or `PassOver` for a row it has already) and shows each to every
runner (`Evaluate`) before anything else runs on it. `active` is `StrategyRunner.state`;
whether a condition or the time-out is met is an input. `hub` is `hub.signals`, `table` the
signals table by time.

### The modules of the second group

**BracketOrders.** `order[r]` is the call of the adapter: `todo`, the legs still to send,
`good`, the legs it counts as accepted, `code`, what the client was told. `taken`, `resting`
and `position` are the exchange's and survive `Restart`; `ledger` is rebuilt by it. After the
call the order is recorded PENDING, marked SUBMITTED and answered, in steps of their own. A
call is taken, refused, or left without a usable answer, taken or not; what the adapter
concludes follows `kite.py`, `ccxt_bt.py` and `openalgo.py`: Kite sends one order of three
legs, Binance raises with the entry taken when a later leg fails, OpenAlgo reads a refused exit
like any answer and returns what it has. An exit that trades (`ExitTrades`) takes the other one
back at Kite only. An answer of OpenAlgo or Binance without an id is recorded under `"?"`,
where two orders meet. `pass[p]` is a pass: it asks the broker (`Ask`), goes through the ledger
(`ListUnknown`) and sets the gate (`SetGate`), and orders come in between; `since` is history:
those taken after it asked. `get_positions` of OpenAlgo turns an error answer into an empty
list and raises when the request itself fails; a pass then closes the gate.

**CredentialVault.** A file is what can be read from it: the key it is encrypted with and
its entries, or torn. `open(..., "w")` and the write are two steps (`Empty...`, `Write...`),
and so are the read and the write-back of an entry; `doc[t]` is what thread `t` read.
`wanted` is history: what the calls that returned asked for. `Layered` are the entries a
provider is built from (`build_providers` reads `md_` keys for dhan, upstox, angel and
alpaca): the router holds these alone (`InForce`), although keys of others can be saved.

**ProviderAdapters, MarketData.** An answer is a member of `Answers`: a status, a body that
reports an error, one of the wrong shape, silence. `request[s]` holds the router it began
with, the providers still to try and the attempts left; `routers` are all routers built,
since a request keeps its own after `Replace`. Of `throttled_request` the attempts and the
set of transient failures are kept, not the sleeping.

**Backtest.** One action is one iteration of the loop. A position leaves in as many equal
parts as there are targets, so money is counted in these parts and every sum is exact.
The policies (stop or target first within a bar; a gap fills at the open or at the level)
are chosen at the start and stay.

**ResearchReport, StrategyHealth.** A series is its length and a slice an interval of it.
Whether `backtest` accepts a slice (60 bars) is computed; what it then finds (trades, sign
of the result, spread) is an input. The ledger keeps of a record what later statistics
read. Records and reports have the keys that `append_trial` and `research_report` really
give them, which is what several findings are about.

**Strategies.** `bars` are the last candles a Donchian channel needs, in ticks; every other
indicator is the side of its threshold it is on. `self` is the private state: last
rebalancing, opening range, cooldown, the pair's position. For the allocating strategies a
decision is the set of longs and of shorts, and `ranked` the scores it was made from.

## What the runs check

| Run | Expect | Shows |
|---|---|---|
| `risk_handlers` | pass | `SerialModeSafe`, `SerialBreakerExact`: calls that did not overlap leave no broker armed outside LIVE, and the breaker open exactly at the limit |
| `orders` | pass | `AtMostOnceUnlessBlamed`, `SignalAgreesWithKey`, `UnknownClosesGate`, `PositionLimit`, `KeysSurvive`, `LedgerIsDurable`, and that OrderExecution implements OrderTracking (`ImplementsTracking`) |
| `order_liveness` | pass | `RequestsAnswered`: every admitted request is answered, whatever reconciliation does to its order meanwhile |
| `brackets` | pass | `AcceptedIsWhole`: for Kite and Binance 200 means all three legs stand; `GttClaimTrue`: OpenAlgo's `gttAttached` is never a false claim; `ExecutedIsRecorded`: an order answered 200 has a ledger row of its own, though ids are missing and collide; `GateSeesPositions`: what a pass over Kite about to open the gate has not seen was taken after it asked, positions of failed and forgotten orders included |
| `paper_trading` | pass | `OneTradePerPosition`, `ExitsCoverPosition`, `RowsImplyTrade`, `BreakerCountsPositions` |
| `signal_feed` | pass | `SeriesInOrder`, `NothingLost`: what the runners see is in the order of time, without twins or gaps; `OncePublished`: no signal twice while the hub holds it; `CatchesUp`: every candle is reached |
| `vault` | pass | `KeyOpensVault`, `CredentialsInForce`: with calls one at a time and no crash in one, the key on disk opens the vault and the router was built with those of the saved entries that a provider reads; `StartsAgain`: unless a crash came inside a call or calls overlapped, a process that is down comes up again |
| `market_data` | pass | `GaveUpOnAll`: candles are refused only after every provider of the route was asked; `NeverReadyAgain`: what one bad answer does to a provider's health no later answer undoes, but for three adapters; `RequestsEnd` |
| `backtest` | pass | `NoLookahead`: an entry fills one bar after its signal, and no signal of a bar with a position open is used; `WholePosition`: the exits of a position add up to it; `StopsAreWorst`: under the conservative policy a bar that reaches the stop fills no target, and a gap gets no more than the open |
| `backtest_cash` | violation | "equity mark (cash + open position at close)" (`backtest.py:221`): the cash paid for a position never returns |
| `research` | pass | `WindowsCover`: the test windows follow one another to the end of the series, none passed over; `PassedOnEvidence`: a passed gate saw three backtests and perturbed parameters; `HealthyIsSound`; `PboAlwaysOne`: an assessment that names a probability of overfitting names 1, because the records lack the statistics it is computed from |
| `strategies` | pass | `StopsProtect`: no stop on the winning side of its price; `NeverSignals`: the volatility breakout and pairs of the default proportions are never heard of; `AllocationFollowsRanking` |

`AtMostOnceUnlessBlamed` names everything that
can make a key execute twice: `overlap` (two requests between check and answer), `crash`
(between the broker's answer and the first write), `brokerError` (raised after the entry
was taken), `signalUpdate` (the signal refused its new status after the order) and
`truncated` (a restart that read fewer rows than there are). Each is recorded at the
action that causes it, for the key concerned, and a key without one is safe.

### Configurations to run by hand

Each belongs to a finding of `PROJECT.json`.

| Configuration | TLC finds | What it shows |
|---|---|---|
| `MCRiskHandlersRace` | `EnteringLiveArmsNothing` violated | "Entering live never auto-arms anything" (`risk.py:64`): an `arm` overtaken by a `stop` appends its broker afterwards |
| `MCAtMostOnce` | `AtMostOnce` violated | "idempotent per signal" (`SIGNALS.md:43`): two requests pass the key test while the other is at the broker |
| `MCUnknownResolved` | `UnknownResolved` violated | "reconciliation must resolve it" (`execution.py:8`): nothing moves an order out of UNKNOWN |
| `MCPaperTradeFold` | `TradeFoldsExits` violated | "folds one position's exit events ... into one CompletedTrade" (`EXECUTION.md:38`): only the closing bar's event arrives |
| `MCPaperClosedLedger` | `ClosedLedgerRestored` violated | "restore the closed-position ledger" (`api.py:346`): one exit of each position comes back |
| `MCSignalDuplicate` | `NeverDuplicated` violated | "restarts can never duplicate a signal" (`SIGNALS.md:14`): old candles replayed for a signal the deque has dropped |
| `MCClosedCandles` | `ClosedCandlesOnly` violated | "closed candles only" (`SIGNALS.md:5`): the last row of an answer is the candle in progress |
| `MCBracketGate` | `ErrorsCloseGate` violated | OpenAlgo's error answer is an empty list of positions, and the gate opens on it |
| `MCBracketUnit` | `AllOrNothing` violated | "as one unit" (`broker/base.py:42`): a later leg fails and the entry stands |
| `MCBracketOneCancels` | `OneCancelsOther` violated | Binance's other exit rests on after the first has traded |
| `MCBacktestFeesPerSide` | `FeesPerSide` violated | partial exits pay commission twice |
| `MCStableProbed` | `StableIsProbed` violated | parameters are called stable though no variant ran |
| `MCPairsHolding` | `HoldingBounded` violated | a pair is held past its maximum (`pairs.py:69`): its entry is counted from another list than its age |
| `MCMarketPick` | `PicksUsable` violated | a provider that needs a login is picked before one that is READY |

`CrashSafe` of CredentialVault states the comment of `vault.py:73`; `tornBy` names the crashes
under which it fails. `EveryEntryLayered`, put in place of `CredentialsInForce` in
`MCCredentialVault.cfg`, is violated by the first save for a provider that reads no vault
(`providers/__init__.py:52`), and `GateBlocks`, in place of `ErrorsCloseGate` in
`MCBracketGate.cfg`, by a pass that opens the gate beside a position of Kite's. The findings
without a configuration are divergences of a text from single assignments.

### Bounds

- `risk_handlers`: two pool threads and the loop, one real broker, a breaker that opens at
  2 losses, a streak followed to 3. Each race involves two handlers; a third thread adds
  no new pair.
- `orders`: 2 requests, 1 signal, 1 client id, bodies with one id or both, the paper and a real
  broker, 1 open position allowed, a table of which 1 row is read back, one restart, 2 passes
  at once: one that has listed the orders and one that marks them. Two requests are what an
  idempotency key is about; the limits of 1 make the position limit and the truncated read
  happen with them. About 1.1 million states.
- `order_liveness`: one process life (a restart only ends requests), both brokers.
- `paper_trading`: 2 positions (so that one bar closes two), quantities 1, 5, 7, 10 by 1 to
  3 targets: fractions that divide, leave a runner, overshoot, or exceed the quantity.
- `signal_feed`: 4 candles, 3 in an answer and in the series, so that one can be missed and
  one trimmed; 2 runners and a hub of 2 places, so that a third signal drops one; a restart.
- `brackets`: 2 requests (ids that collide need two), each on any of 3 brokers, one pass at a
  time, as often as it likes, over any of the brokers or the paper one: each property of a
  pass is about that pass and the orders it meets (the proofs are for any number). About 10.6
  million states.
- `vault`: 2 threads, 3 entries of which one is not layered, 2 rotations, 4 calls, 3 starts. A
  lost update needs two calls, a torn rotation one and a start after it; the rest lets them
  follow each other.
- `market_data`: 2 requests on 2 threads, three routes of two providers, 2 attempts, a
  router replaced once: a race over one health needs two requests, and a fallback two
  providers.
- `backtest`: series of 3 to 8 candles: a quiet one, through each target, through the stop, through
  both, and one that opens below the stop; two targets; a capital that is spent after some
  trades, so that the refusal of an entry happens.
- `research`: 99, 101, 239 and 401 bars, around the limits of 100 for a series and of 60 for a
  slice or a window; 1, 2 and 4 windows; 0, 4, 10 and 30 trades, around every threshold of the
  scores; 0 or 9 earlier trials, so that the tenth, at which `pbo` is believed, comes.
- `strategies`: prices 0 to 2 with a channel of 2 bars over 7 bars, 4 symbols of which one is
  defensive, scores with ties, and two sets of periods for a pair.
- `MaxBoots`, `MaxLosses`, `MaxCandle`, `MaxRotations`, `MaxCalls`, `MaxStarts`,
  `MaxRequests`, `MaxRouters`, `MaxSearches`, `MaxBars`, `MaxDays` and `MaxTrials` bound
  counters; nothing else is cut off.

`CHECK_DEADLOCK FALSE` where all requests may be done, or all positions closed, with
nothing left to happen within the bounds.

### Fairness

`FairSpec`: weak fairness for the broker call of each request (a worker that started it
finishes it; the broker libraries have time-outs), for the steps of `place_order` after it
(the loop runs what is ready) and for the steps of each pass that has started. There is none
for clients, the operator, signals, bars or restarts. `ReconcilingSpec` adds that
somebody reconciles with every broker over and over, which no code does by itself: it is
there to show that `UnknownResolved` fails even so. In `SignalFeed` the loop's own steps are
weakly fair, and so is `Fetch`: the loop asks again every 15 seconds whatever happened
before, and the exchange is assumed to answer now and then.

In `CredentialVault` each thread's file operations are weakly fair (a pool thread runs on
unless the process dies), and so is `Start`: the operator's service manager brings the
process back. In `MarketData` the work of each request is weakly fair, because every HTTP
call of the adapters has a time-out; its end is then due to the finite routes and attempts.

## What is proved

TLAPS proves the following for all constants that satisfy the named assumption of the
module (`RiskGateAssumption`, `BracketAssumption` and so on: sets of any size, any limits;
that `None` is not a value it stands beside; that bounds are numbers).

| Theorem | States | Inductive invariant |
|---|---|---|
| `RiskHandlersProofs!Typing` | `TypeOK` | flags, then data |
| `RiskHandlersProofs!ModeSafety` | `SerialModeSafe` | without a race at most one mode handler is under way, and what it has still to assign makes up for what does not hold yet |
| `RiskHandlersProofs!BreakerSafety` | `SerialBreakerExact` | the same for breaker handlers, with the counter between its test and its effect |
| `OrderExecutionProofs!Typing` | `TypeOK` | lemmas for flags, numbers, orders, scans, keys; that a request past the broker is at the broker; that a row has a place |
| `OrdersAreTracked` | `ImplementsTracking` (the refinement) | `Ranked`, `Progress`, `RowPlaces` and the typing: a row has a place, and no two the same, so that a restart forgets the orders the limit cuts off and no others |
| `AtMostOnceHolds` | `AtMostOnceUnlessBlamed` | for a key without a cause: at most one request is in flight; nothing is placed for it while that request is at the broker; and a placed order's request is in flight or the key is stored |
| `KeysAreKept` | `KeysSurvive` | the typing of orders, rows and keys, and that among the readable rows for a key there is an oldest one, so a restart that reads all rows seeds the key again |
| `SignalAgreement` | `SignalAgreesWithKey` | as stated |
| `UnknownKeepsGateClosed` | `UnknownClosesGate` | `GateInv`: beside an UNKNOWN order and without a cause no pass is about to open the gate, and one that closes it is under way if it is open. For any number of passes at once |
| `LedgerDurability` | `LedgerIsDurable` | orders a pass has still to mark are SUBMITTED; the ledger equals the table where it has an entry |
| `PositionLimitHolds` | `PositionLimit` | without a race at most one paper order is at the broker, and the limit leaves room for it |
| `BracketOrdersProofs!BracketInvariant` | `BracketInv` | for each request: the legs counted as accepted were taken, the calls left are the rest of its adapter's program, and a request that came back has all of them |
| `AcceptedWhole`, `GttClaim` | `AcceptedIsWhole`, `GttClaimTrue` | `BracketInv` |
| `ExecutedRecorded` | `ExecutedIsRecorded` | `LedgerInv`: who has marked an id holds its row, and holds it alone (`Holds`) |
| `BracketTyping` | `TypeOK` | `ExchangeInv`, over `BracketInv`: an adapter has its entry accepted or has it still to send, so that neither an exit nor a position is without one |
| `KiteGate` | `GateSeesPositions` | `PassInv`: a pass that may still open the gate has seen what was there when it asked, and `since` has what came after |
| `StrategyHealthProofs!HealthInvariant` | `HealthInv` | the types; that windows run so far are a beginning of those the series allows; that results belong to slices of 60 bars or more; that an assessment is of the study beside it |
| `WindowsCoverSeries`, `PassedRests`, `HealthySound`, `VerdictRests` | `WindowsCover`, `PassedOnEvidence`, `HealthyIsSound`, `VerdictNeedsEdge` | `HealthInv`, with `WindowCount`: how many windows fit, by division |
| `SplitWhole` | `SplitIsPartition` | as stated: the rounded shares of three percentages leave no bar out, and a share that rounds to none is refused |
| `PboIsBlind`, `PboAlwaysNamesOne` | `PboAlwaysOne` | `LedgerInv`; the best trial of a half is in that half (`BestIsOne`), so two halves never agree, whatever the Sharpe ratios are |
| `LedgerOnlyGrows` | `LedgerGrows` | `LedgerInv`; a property of steps |
| `StrategiesProofs!StrategiesInvariant` | `StrategiesInv` | the bars of a pair's two symbols add up to those seen, and every answer is protected |
| `LongsFollowRanking` | `AllocationFollowsRanking` | none: each answer follows from the scores of its bar; the lemmas count ranks (no two symbols share one, so the best k are those of rank up to k) |
| `StopsAlwaysProtect`, `TwoNeverSignal` | `StopsProtect`, `NeverSignals` | `StrategiesInv`, and that the highest of a non-empty set of prices bounds each of them |
| `PaperTradingProofs!ExitsCover`, `LadderIsOrdered`, `RunnerStaysSmall` | `ExitsCoverPosition`, `LadderOrder`, `RunnerIsSmall` | `Ladders`: after k targets of an open position what remains is its quantity less k rounded fractions, and its exits are those k targets |
| `BookedOnce`, `RowsHaveTrades` | `OneTradePerPosition`, `RowsImplyTrade` | `Booking`: what waits to be booked has closed and has no trade yet, once for each position; a closed one is booked or waits |
| `BreakerCounts`, `PaperTradingProofs!Typing` | `BreakerCountsPositions`, `TypeOK` | `Streak`, over `Booking`: a trade is booked for a position that had none |
| `DataPathProofs!KeyAlwaysOpens`, `CredentialsAreInForce`, `VaultTyping` | `KeyOpensVault`, `CredentialsInForce`, `VaultTypeOK` | `Orderly`: until calls overlap or a crash comes inside one, at most one call is under way, and what it has written (`Midway`, step by step) is what its remaining steps need |
| `RefusedByAll` | `GaveUpOnAll` | `CandidatesOf`: the providers tried and those still to try are the route |
| `ReadyIsNeverRegained` | `NeverReadyAgain` | `HealthTables`, `KindsServed`: every result of five of the eight adapters leaves READY only where READY was. A property of steps |
| `SeriesStaysInOrder`, `NoCandleIsLost`, `FeedTyping` | `SeriesInOrder`, `NothingLost`, `TypeOK` | the rows of an answer follow one another (`RowsFollow`); the series ends at `last` or before it; while rows are ingested every candle between `last` and the first of them was skipped (`GapsAreSkipped`) |
| `PublishedOnce` | `OncePublished` | `HubHolds`: hub and table name each signal once, and what was published and has not left is in the hub |
| `BacktestProofs!DecidedBefore`, `SoldWhole`, `WorstCase`, `BacktestTyping` | `NoLookahead`, `WholePosition`, `StopsAreWorst`, `TypeOK` | a pending entry is of this bar (`WaitsOneBar`); the fills of an open position are its first targets, in the order of bars (`PositionIsOpen`); a trade is over, whole and before the next (`TradesAreOver`). `StopsAreWorst` is a property of steps |

The stronger invariants are needed because most of these properties say nothing of the steps
between a check and the last write after it, which is where they could be lost.
`AcceptedIsWhole`, for one, speaks of answered requests only: that a request comes back whole
has to be carried through each call. `PassedOnEvidence` speaks of the gate, and what it saw
was decided five stages earlier. `NeverSignals` needs that the two counts of a pair never
exceed the bars, or its windows could fill.
`KeysTyping` also needs that the row with the lowest place exists (`LeastNatural`,
`OldestExists`), since the seeding of a key chooses it, and `StrategiesProofs` the same for
the highest and lowest price of a channel.

The typing of `PaperTrading`, `CredentialVault`, `SignalFeed`, `Backtest` and `BracketOrders`,
`LadderOrder`, `RunnerIsSmall`, `SplitIsPartition`, `PboIsBlind`, `LedgerGrows` and
`VerdictNeedsEdge` are proved and no run spends a property on them.

Three kinds of definition are written as the prover needs them. A sequence from which elements
are dropped is a walk over it (`PassOver` of SignalFeed) or a function of ranks (`Others` of
MarketData), not `SelectSeq`, and a table an `EXCEPT` or a `CASE`, not `:>` and `@@`: the provers
know nothing of these two. A `CASE` has disjoint guards, or is an `IF`: TLC takes the first
guard that holds, the logic any of them. And assumptions name what was understood: routes are not
empty (`market_router.DEFAULT_ROUTES`), `RunnerSeq` is a sequence of runners, the levels of
targets are positive whole numbers, a vault is started at least once.

Model-checked only: liveness (`RequestsAnswered`, `CatchesUp`, `StartsAgain`, `RequestsEnd`),
which needs fairness and ENABLED and is out of the prover's reach. Every other property of a
passing run is a theorem. The properties the configurations run by hand and `backtest_cash`
refute are false. `TypeOK` of MarketData, Strategies and StrategyHealth is not proved; what the
proofs need of it is in their own invariants.

## Not modelled, and abstracted

- Sessions and request security: authentication of requests is not part of this project.
- AI analysis, logging, the proxy, the version file: pass-through I/O without a state that
  anything depends on. Monte Carlo, stress, portfolio and cost studies, the indicators:
  floating-point formulas over a list; their outcome is an input where somebody acts on it.
- The status ladder (`compute_status`) and the parsing of instruments: functions of their
  arguments, each line a test, so that a model would repeat them.
- `size_position` and all of `enforce_limits` but the position limit: arithmetic on inputs;
  their outcome is an input of `Gate`.
- The switch log of the router and the provider it tried last: no code under `app/` reads the
  log, and the provider only decides what is written there.
- In OrderExecution the walks of the ledger after the broker has answered are one step
  (`ListMismatches`); an order recorded meanwhile makes that step raise as well.
- JSONL files except `orders.json`: their import writes rows that are already there, since
  each is written together with its row and keeps the same id.
- The candle builder, the paper and kite loops of the feed, the staleness test, broadcasts; in
  OrderExecution, eviction from the hub's deque and `orders.json` lines cut by a crash.
- The sliding windows of `rate_limit.py`: how long a call waits, not whether it goes.
- Connecting and historical bars of the real brokers. The dashboard and the extension.

Three hazards of `PROJECT.json` have no property yet; each says why.

## Plan

Done: the modules above and their runs; proofs of every property of a passing run but the four
of liveness. Next, in this order:

1. Proofs: `TypeOK` of MarketData and Strategies; BracketOrders as an implementation of the step
   OrderExecution takes for the worker's call.
2. Composition of PaperTrading and OrderExecution: a position visible to `on_bar` before
   `record_order`.
3. The rest of the feed: candle builder, staleness, the kite ticker thread, the paper loop.
4. `Sockets`: the extension's `background.js` and `websocket.js` against the hub: one live
   socket, reconnection after every close.
5. The status ladder against a reference order of its rules; the token windows with several
   waiters.
