# A TLA+ model of the trading server

The repository is a server, written in Go, that trades futures on Binance for
one account. HTTP handlers and strategy loops place orders. Background
goroutines watch prices, move stops, keep the daily risk limits and follow what
the exchange reports. PostgreSQL and Redis keep what must survive a restart.

This directory models the parts where those goroutines, the two stores and the
exchange meet. Each component is a module. TLC checks it on small instances, safety and
liveness; TLAPS proves every invariant, action property and refinement of the
passing runs for all instances, under the assumptions section 5 names.
`PROJECT.json` maps every definition to the lines it models.

All paths below are relative to `src/`.

## 1. The system

| Component | State | Operations | Module |
|---|---|---|---|
| Local TP/SL monitor (`api/local_tpsl*.go`) | conditions in a map under a mutex, in a Redis hash of ACTIVE ones, in a PostgreSQL table | register, a round every second (trigger, settle, link), cancel one / cancel a group, list, load at start | `LocalTPSL` (stores and threads), `TPSLGroup` (prices and quantities) |
| Order sizing (`api/order.go`, `api/ws_order.go`) | none; the symbol's rules are fetched | quantity of an opening, of a ladder's level, of a reduction, of a close | `QtyRules`, used by `TPSLGroup` and `FillWatch` |
| Risk control (`api/risk_control.go`, `volatility_guard.go`, `kill_switch.go`) | day's losses, lock and its reason; guard; switches | report a trade, recover at start, check, unlock, guard's tick, switch | `RiskControl` |
| Price cache (`api/price_cache.go`) | last prices, one stop channel per symbol | subscribe, read, backfill, unsubscribe one / all | `PriceCache` |
| Paper trading (`api/paper_trading.go`) | balance, positions, history | open, reduce, reverse, reset | `PaperEngine` |
| WebSocket order path (`websocket/ws.go`, `api/client.go`, `api/ws_order.go`) | global client slot, pending requests, connection | send, receive, time out, reconnect, fall back to REST | `WsOrders` |
| Fill watch and reversal (`api/ws_order.go` 640-770, `api/order.go` 920-960) | one order and its retries | size, send, query, cancel, replace, market order, reverse | `FillWatch` |
| User stream, trade records (`api/user_stream.go`, `db.go`) | trade table, day's profit | record an order, follow its fills, close, cancel, lose the stream and return | `TradeLedger`; its profits also in `RiskControl` |
| Strategy persistence and administration (`api/strategy_persist.go`, `strategy_state_redis.go`, `strategy_admin.go`) | status of each strategy in PostgreSQL and Redis | save, mark stopped, list, recover at start, retire, demote, restore | `Strategies` |
| DCA, grid, auto-scale (`api/dca.go`, `grid_trading.go`, `auto_scale.go`) | a map of tasks, each with a loop and a stop channel | start, tick, stop, complete | `Strategies` |
| Event strategies (`api/news_sentiment_strategy.go`, `liq_cascade_strategy.go`, `funding_arb_strategy.go`, `strategy_link.go`) | one state each, its last triggers | start, stop, check, trigger | `Triggers` |
| Scalper (`api/scalp_strategy.go`) | tasks, the direction each believes it holds | start, check, close, open, stop, restart | `Scalp` |
| Signal and doji strategies (`api/signal_strategy.go`, `doji_strategy.go`) | tasks, a count of open trades | start, check, exit, order, stop | `Signals` |
| Copy trading (`api/hyper_follow.go`) | a task per address, the fills it has seen | start, update, stop, connect, follow | `HyperFollow`; its closing orders in `FillWatch` |
| Price and order-book hubs (`api/ws_price_proxy.go`) | rooms by symbol, clients, timers; a copy of the exchange's book | subscribe, leave, stream, stop; snapshot, apply, broadcast, begin again | `PriceRooms`, `BookSync`, `BookFeed` |
| Liquidation statistics (`api/ws_liquidation_stats.go`, `liquidation_history.go`) | buckets by hour and day, collectors, hub clients, a row in the database | collect, prune, save, subscribe, stop late | `LiquidationStats` |
| News, sessions on an address (`api/ws_news_hyper_proxy.go`, `news_snapshot_redis.go`) | the news snapshot in memory and Redis; six goroutines per session | fetch, merge, refresh, persist; dial, read, wake, end | `NewsHub`, `HyperSession` |
| REST fallback of market data (`api/data_fallback.go`) | per symbol: last data, polling | record, degrade, poll, recover | `DataFallback` |
| Monitors on a ticker (`api/funding_rate.go`, `aave_monitor.go`, `strategy_allocator.go`) | a snapshot, one stop signal, alerts sent | start, stop, check, publish, alert or order | `Monitors` |
| Portfolio risk, recommendations, analytics, handlers, REST proxy, mobile application | see `PROJECT.json` | | left out with a reason (section 8) |

How they interact:

* A handler or a strategy asks the kill switch, then `CheckRisk`, then places an
  order through the WebSocket client or REST. Check and order are separate
  steps: `RiskControl`, `WsOrders`.
* An order with a stop starts a TP/SL group. The monitor reads the price cache,
  sends reduce orders, and writes what happened to three stores: `LocalTPSL`.
* Every reduce order sent as a limit order gets a watcher goroutine, which
  cancels and replaces it until it is filled: `FillWatch`.
* The user stream reports closed trades to risk control, whose lock stops the
  next order. The volatility guard takes and releases the same lock.
* A strategy's handler records in both stores what it started or stopped; the
  strategy's loop, which may end by itself, records nothing: `Strategies`.
* The user stream brings the trade table up to date beside the goroutine that
  records an order: `TradeLedger`. Neither knows where the other is.
* Strategies that wait for an event or a candle order through the same path and
  are held back by their own cool-downs, counts and beliefs: `Triggers`,
  `Scalp`, `Signals`, `HyperFollow`.
* Streams of the exchange feed rooms, the price cache and statistics, which
  browsers watch; a stream that stops gives way to polling: `PriceRooms`,
  `BookSync`, `DataFallback`, `LiquidationStats`, `NewsHub`, `HyperSession`.
* After a restart, each component rebuilds its memory from Redis or PostgreSQL.

What is hard here: status updates to three stores that fail one by one; pointers
copied out of a lock and used after it; rows that reappear from a cache; locks
with two owners; a request whose answer is lost; limit orders that fill in
parts; channels closed by one goroutine while another replaces them. The list,
with the line of each, is `hazards` in `PROJECT.json`.

What makes each component correct:

* Monitor: what it watches is what the table calls active; a condition is not
  sold for twice; a stop that fires ends the group's take-profits, and the
  position stays covered until it is gone.
* Sizing: no order exceeds what is held or violates the exchange's rules.
* Risk control: a limit that is reached locks; the counters are the day's closed
  trades; a lock that the guard took ends.
* Price cache: each feed can be stopped, and each stored channel has a feed.
* Paper trading: money is conserved.
* Order path: a caller learns what happened, every caller is answered, and a
  reconnection leaves one connection.
* Fill watch: what was asked is reduced, and the position is not turned round.
* Strategies: an acknowledged start or stop holds, restarts included; no loop
  runs on where no stop reaches it; a task orders what its plan says.
* Trade table: an order has one record, a record that ended stays ended, the
  day's profit is the table's.
* Strategies that decide: what was answered is not answered again within the
  cool-down, what is held is what the strategy believes, rules treat both
  directions alike, a follower holds what it followed.
* Streams and rooms: a message shows a state the exchange was in, a later one a
  later state; who watches is served; what lags catches up; what is stopped
  ends.

## 2. Modules

Every module opens with the code it models, its threads, and where a step ends.
A step of a concurrent module is the code between two points where another
goroutine can get in: a lock taken or released, a statement to PostgreSQL or
Redis, a request to the exchange, a channel operation. Definitions marked
`(Bug.)` are changed versions of the definition after them. They belong to the
mutation runs listed in `PROJECT.json` and no specification uses them.

**LocalTPSL**. `db`, `redis` and `mem` are the three stores. A condition is a Go
object reached by pointer, so an object is `<<c, n>>`, the n-th one ever made
for row c; `mem[c]` names the current one, and `live` the objects whose status
is ACTIVE. The monitor copies the list (`todo`) and then takes the objects one
at a time, each by `MoveExtremum`, `Turn` and `Leave`; `Settle` sends the order,
whose answer may be lost (`MaxLost`), and starts the update of the stores;
`CollectLinked` and `CancelNext` are the linked cancellations. Callers run
`StartRegister`, `StartCancel` (`LookInRedis`, `LookInDB`, `LoadTarget`) and
`StartList` (`ReadRows`, `RefillRedis`). The stores are written by a small
routine shared by all threads: `MarkStatus`, `UpdateRow`, `RemoveFromRedis`,
`CheckActive`, `PutToRedis`, each of which may fail as in the code.
`RestartFromRedis`, `RestartFromDB` and `RestartEmpty` are the three ways the
start can go. The price is left out: any condition may be hit at any tick.

**TPSLGroup**. The prices and quantities that `LocalTPSL` leaves out, for one
group: `OpenQuantity` and `LevelQty` size it, the market moves (`Move`), the
monitor visits conditions (`Visit`, `Follow`, `Trigger`, `TriggerClosed`),
registers the trailing stop of a partial take-profit (`Register`) and cancels
linked conditions (`Link`); the exchange fills (`Fill`) and the user reduces by
hand (`ReduceByHand`). `LocalTPSL` and `TPSLGroup` are two views of the same
code: the first has threads and failures without prices, the second prices and
quantities without threads.

**RiskControl**. `risk` is `riskState`, `rows` the trades in PostgreSQL, `guard`
the guard's state. `CloseTrade` and `ReportTrade` are the user stream,
`RecoverRead`, `RecoverWrite` and `RecoverLock` the goroutine started by
`InitRiskControl`, `GuardTick`, `GuardResume`, `GuardQuiet` and `GuardTrigger`
the guard's loop, `AskKillSwitch`, `AskRisk` and `SendOrder` a placer. The first
call of a new day resets the counters (`Today`), whoever makes it.

**PriceCache**. A feed is a `subscribePrice` goroutine, known by its stop
channel. `phase` is where the goroutine is, `conn` the connections that can
still deliver. Prices are reduced to fresh or stale.

**PaperEngine**. Money is counted in units of 1/Scale so that fees and margins
are whole numbers. Opening against an opposite position is three actions,
because the code releases the lock in the middle: `StartReverse`,
`CloseOpposite`, `Reopen`. `result` sums the profits of the trades less the fees
of the openings, which balance and margins are compared with.

**WsOrders**. `slot` is the global client, `rc` the goroutine that holds its
mutex across a reconnection, `pending[n]` the map of requests of client n,
`chan` and `answer` what has arrived for a call, `placed` what the exchange
really did. A call takes the client, writes, waits; it ends by an answer, a
timeout or a closed client, and then tries REST.

**FillWatch**. One call (`req`) of reduce, close, monitor's reduce or reversal.
`Find` reads the position and sizes the order, `Send` or `Refuse` ends the
request, then the watcher runs `Query`, `Cancel`, `Replace` or `PlaceMarket`,
and their failures. The exchange fills an order in parts whenever it likes
(`Fill`), and the user trades by hand (`ByHand`).

**Strategies**. One record per type and symbol (`db`, `redis`), one task per
start (`task`, `of`, `active`, `closes`, and `run`, the loop's own state). The
handlers and the recovering main goroutine share `SaveDB`, `SaveRedis`, `MarkDB`
and `MarkRedis`; `AskStart` and `AskStop` hold the type's mutex meanwhile,
`AskRetire`, `AskSync` and `AskList` do not. A loop ticks (`TickDCA`, `TickGrid`,
`TickAutoScale`), orders (`Accepted`, `Refused`, `Count`, `Protect`), and ends its
task by `Finish`, or by `Ending`, `Check` and `Close`, which look at the stop
channel without the mutex. `Crash` may bring the process back with or without
Redis. The type is chosen in `Init`; profits and prices that decide whether a
tick orders are choices, except the grid's price, which decides the levels. Two
histories, `wanted` and `over`, say what was acknowledged last and which
strategies ended by themselves.

**TradeLedger**. `recs` is the table, `saver[o]` the goroutine that records
order o (`SaverLooks`, `SaverWrites`), `stream` where the user stream's handler
is: it takes the exchange's reports in order (`events`), and each of its reads
and writes is a step that may fail (`handleOrderUpdate`, `updateTradeFromOrder`,
`CloseChecks`, `CloseWrites`, `markLatestOpenTradeClosed`,
`updateOpenTradeWithPnl`). The stream may break, and what happened meanwhile is
never reported.

**Triggers**. `strat` says which of the four event strategies runs. Each start
is a loop (`loop[i]`), a check of which is read (`NewsRead`, `LiqRead`,
`FundingRead`, `LinkRead`) and acted on (`NewsTrigger`, `LiqTrigger`,
`FundingItem`, `LinkRule`, `LinkFire`) as the code of each does: `last` and `map`
are the cool-downs, `view` the copies they are compared with. `given` are the
news, symbols or rules there can be in a behaviour, one of the sets in `Given`,
and `MaxLoad` trades their number against that of the starts. `trig` is the
history of what was triggered.

**Scalp**. `Decide` is `scalpCheck`'s decision on every combination of the facts
it looks at; `ScalpCheck`, `Act`, `ClosePosition`, `OpenPosition` and their
failures are one check of a task, which another task, a stop, a day's end, a
restart (`Crash`) or a stop loss (`StoppedOut`) may interrupt.

**Signals**. RSI, crossings, patterns and trend are computed as in the code, on
short series of small prices: the RSI from the rises and falls between closes
(`Moves`) and their averages (`Wilder`), which are fractions. What they give for
every market is tabulated once (`Decisions`) and a check picks one. `open` is the
count that caps new trades, `held` what the account holds.

**HyperFollow**. The leader trades (`LeaderTrades`), messages arrive, twice at
times (`Doubled`), or not at all while the connection is lost; a task dials,
reads, marks a fill as seen (`Receive`), orders (`Follow`) and evicts old keys
(`KeptKeys`, any subset the map's iteration may leave).

**PriceRooms**. `table` is the map of rooms, `topic[r]` a room's symbol. Looking
a room up and joining it are two steps (`Lookup`, `Join`), as are the end of a
delayed stop: `TimerWakes`, `Remove`, `CloseRoom`. The stream of a room is
`Stream`.

**BookSync** and **BookFeed**. `BookSync` is the goroutine of a book room:
connect, fetch the snapshot beside the stream, bridge, apply, notice losses,
overflows and gaps, begin again. `BookFeed` is what it promises: each message
is the exchange's book after some update, and later messages are of later
updates. `ShowsExchangeBooks` states the refinement, with the aggregated view
of each of the exchange's books as the mapping.

**LiquidationStats**. `hours` and `days` are the buckets, `coll[c]` and `loop[c]`
the collector and the saving loop of stop channel c: one pair in the background,
one for the browsers, whose last one starts a delayed stop. A row is written by
a goroutine of its own (`saves`), which may be overtaken or fail.

**NewsHub**. One loop fetches each source (`FetchNewsFeed`), merges and
broadcasts (`FetchAndBroadcast`); a browser's request is a token in a buffered
channel (`kick`); each snapshot is written to Redis by its own goroutine.

**HyperSession**. `alive` are a session's pumps, `helpers` the pinger and the
watcher of each upstream connection, `at` the session's own loop. Reading the
upstream has no deadline: only closing the connection ends it.

**DataFallback**. `heard` says whether a symbol's data are in time, `due` the
symbols of the round's list, taken before the lock was released, `polls` the
polling loops by their stop channel, `waking` the goroutines asleep before a
recovery.

**Monitors**. `kind` says which of the three monitors runs. A start is a number
for its context, its stop channel and its configuration; `listens[i]` is the
signal that loop i waits for, its own context or, for the allocator, the global
channel as it is when the wait begins.

**QtyRules**. `roundToStepSize`, `formatQuantity` and a percentage share, on
whole units of the last printed digit. It includes the code's treatment of
precision 0, where the zeros of a whole number are stripped (`Stripped`, the
number without its factor in `Tens`).

**SumFacts** holds no model: it is the lemmas about sums over finite sets, and
the two inductions, that the proofs share. The `_proofs` modules are section 5.

The `MC*` modules give the constants that a `.cfg` cannot write: records,
functions and sequences. Five of them also put several components into one run
(section 3), whose own constants they declare and the `.cfg` sets, so that the
theorems about them are not about one instance.

## 3. What each run checks

Bounds are constants named `Max...` and appear only in guards of the
environment's events (failures, calls, trades, moves), never in the code's own
control, except `MaxRetries` and `MaxPositions`, which are the code's. Every run
finishes within three minutes on two workers.

`MCDesk`, `MCSafety`, `MCFeeds`, `MCStreams` and `MCWatchers` hold several
components that share no state. A variable `sel`, chosen in the first state,
says which of them moves in a behaviour; the others stay in their first state.
So a run is the sum of its components' state spaces, not their product, and
nothing is gained or lost against one run per component. Their properties are
conjunctions; a conjunct about a component that does not move holds of its
first state, or is asked only when `sel` names the component.

| Run | Instance | Properties |
|---|---|---|
| `MCTpslFaults` | a take-profit that sells half and registers a trailing stop; one caller; one failure each of PostgreSQL, Redis, the process and an answer | `TypeOK`; `WriteAhead`: a condition in memory or in Redis has a row; `AckedOncePerLoad`: an object in memory sells at most once per accepted answer |
| `MCTpslLadder` | a two-level ladder and its stop; a caller that cancels or lists; no failures | `Agreement`: the three stores agree whenever nothing runs; `NoTakeProfitAfterStopLoss` |
| `MCTpslCallers` | one trailing stop, two callers, Redis failing once | `WatchedWhenActive`: an active row is watched or about to be; `AcceptedIsRecorded`: an accepted order is eventually recorded |
| `MCRiskLimits` | a limit of two losses or an amount of 2, two closed trades, midnight, a restart, an unlock, a shock the volatility guard locks for | `TypeOK`, `LimitMeansLocked`; `CountersMatchTable` |
| `MCWatchers` | the guard and two placers; or a monitor with two starts | `AtMostOneLateOrderEach`: a lock lets each placer finish at most the order it was in the middle of; `WatchersSettle`: the guard's lock ends (`VolatilityLockEnds`), the loops of a stopped monitor end (`StoppedLoopsEnd`), a running one shows in the end its last configuration (`CurrentConfigShown`) |
| `MCDesk` | five orders over six price levels; a simulated account of two symbols with reversals and a reset; two calls, three clients, a broken connection, a rejection, a refused logon; reductions, closes and reversals of one, two and four steps with one error; a trade table with two orders and one fault | `TypesOK`; `QuantitiesFit`: an order, its levels and a reduction fit the rules and what is held, no fill turns the position round (`SizesFit`, `ReductionFits`, `NeverTurnedRound`); `CoveredUnlessRegistrationFails`: a stop covers what is held; `NeverSellsMoreThanBought`; `TrailingNeverLoosens`; `AccountBalances`: balance and margins are the initial amount and the results; `CallsAreTrue`: what a caller reports did happen, no pending call is forgotten, reconnections leave one connection (`ReportsAreTrue`, `PendingCallsWait`, `OneConnection`); `OrdersFinish`: calls return, reductions complete, an order is left resting only after an error (`CallsReturn`, `ReductionCompletes`, `AbandonedOnlyAfterError`); `DayMatchesTable`; `EndedStaysEnded`: a record that ended is not opened again |
| `MCSafety` | two starts of each signal strategy, two tasks of the scalper, two rooms of a pair with two browsers and two timers, two hours of liquidations, two sources of news, the event strategies with two starts of one item and one start of two (`MaxLoad`), a monitor with two starts | `TypesOK`; `SpacedTriggers`: an event is answered again, an alert sent again, only after the cool-down; `HoldingsKnown`: the scalper holds what it believes (`DirectionTrue`), a count that caps trades is not below what is held (`CountCoversHeld`); `SidesMirror`: no rule leans to one side; `BrowsersServed`: a room of the table has a live stream, and liquidations are collected while somebody watches (`TableServes`, `ViewersAreServed`); `SeriesKept`: days are the sums of their hours, and the news are the newest of all that was fetched (`SeriesAgree`, `NewsKept`) |
| `MCFeeds` | three feeds of a symbol, two polled symbols, collectors with one late write, news of two sources, a browser that watches an address over two connections | `TypesOK`, of the price cache, the fall-back and the sessions; `RunningIsKnown`: no feed runs that nobody can stop, a stored channel has its feed, a polling loop its degraded symbol (`NoOrphanFeed`, `StoredMeansServed`, `PollsInHand`); `StoppedEnd`: stopped feeds and collectors and all six goroutines of a session end (`StoppedFeedsEnd`, `StoppedCollectorsEnd`, `SessionsEnd`); `LagsCatchUp`: a symbol whose data flow leaves the polling, a request for news or for an address is answered, the database follows the series (`RefreshAnswered`, `SnapshotAnswered`, `BackgroundSaves`) |
| `MCStreams` | six updates of a book, a queue of two; two tasks that follow two fills | `TypesOK`; `ShowsExchangeBooks`: `BookSync` implements `BookFeed`; `FollowsLeader`: one order per fill, positions as followed, at most one message after a stop (`FollowsFillOnce`, `HoldsWhatWasFollowed`, `OneLateMessage`); `StreamsProgress`: a room catches up with its stream, stopped rooms and tasks end (`FollowsCatchUp`, `StopEnds`, `StoppedTaskEnds`) |
| `MCStrategies` | a DCA, grid or auto-scale strategy, two callers, two tasks per process, two rounds of orders, two requests; two of restart, failing store, refused order and request of the administration | `TypeOK`; `LoopsInHand`: handler and loop close a stop channel once, no loop runs on out of reach (`ClosedOnce`, `NoStrayLoop`); `LastWordHolds`: the last acknowledged start or stop, in the process and in both stores, over restarts; `PlansFit`: orders are the plan's, stops left behind are as many as failures (`OrdersFitPlan`, `PairsBounded`) |
| `MCStrategyEnded` | the same | violates `RecoversOnlyRunning` (section 6) |
| `MCTwoRecords` | the trade table alone, two orders, one fault | violates `OneRecordPerOrder` (section 6) |

Why the bounds are enough:

* Two conditions suffice for the monitor's stores, because a thread handles one
  at a time and conditions touch each other only through their group; the ladder
  needs three, two levels and a stop. `MaxObj = 2` allows a condition to be
  loaded again while an old pointer is in use, which is where pointers differ
  from rows. A third object repeats the second's situation.
* One failure of each kind, because each hazard listed needs one. Two failures
  in a row of the same store are two separate conditions' hazards.
* Two placers and two callers, because the interleavings are between pairs:
  check against lock, wait against reconnection.
* Three feeds: one that ends late, its successor, and the one after an
  unsubscription. Three clients: the broken one, its replacement and the one
  after a refused logon.
* Two tasks of a strategy in one process: the one that was stopped, whose loop
  may still be busy, and its successor. Two rounds of orders complete a plan of
  two and try a third, and buy and sell a grid's level.
* Two starts of a strategy, a monitor or a follower: a loop that was stopped
  and is still busy, and its successor. Two items where an event of one must not
  use up the other's cool-down.
* Six updates of a book cover both sides, a level that changes, one that goes,
  both spellings of zero and two prices in one bucket; a queue of two overflows
  at the third event; a lag and a span of two give snapshots that are older than
  the first event, in its middle, and newer.
* Two rooms and two timers: the delayed stop of a room that has been replaced.
  Two channels of collectors: the background's and one that browsers started
  and left.
* Two orders in the trade table: one that opens and one that closes, or two that
  each open.
* Quantities of one, two and four steps with shares of 33, 50 and 100 percent:
  what rounds to nothing, what rounds and what divides.

`CHECK_DEADLOCK FALSE` is set in every configuration: all events are bounded, so
a behaviour may use them up and stop, and the code's goroutines may be idle.
In `Strategies` nothing is asked of the schedule: its properties are safety, and
`NoStrayLoop` says of a loop's end what can be said without fairness.
That threads do not wait for each other for ever is checked as liveness
(`AcceptedIsRecorded`, `OrdersFinish`, `StoppedEnd`, `LagsCatchUp`,
`StreamsProgress`, `WatchersSettle`).

## 4. Fairness

Weak fairness on the code's own goroutines, never on the environment:

* `LocalTPSL`: `Tick`, a ticker that is never stopped, and each thread's own
  next step once it is in a call. Requests, failures and restarts are not fair.
* `RiskControl`: `Guard`. Its loop has a ticker and no way out.
* `PriceCache`: each feed's goroutine, which waits in one `select` on a channel
  that is closed or a connection that has ended. Readers and the network are not
  fair.
* `WsOrders`: each caller's step (it waits at most for its timeout), the read
  loop's end once the connection is gone, and the reconnecting goroutine, whose
  dial and logon have timeouts. The exchange need not answer.
* `FillWatch`: the call and the watcher, which sleeps a bounded time. The
  exchange need not fill anything.
* `BookSync`: the room's goroutine, every wait of which has a timeout or a stop
  channel, and the delivery of what the stream holds. The exchange need not
  trade, and the number of lost connections is bounded.
* `HyperFollow`: each task's own next step. A read waits for the leader or for
  the pinger's silent connection to be dropped, which is the task's step.
* `DataFallback`: the monitor's round, degradation and recovery once begun, and
  the end of a polling loop that was told to stop. `LagsCatchUp` assumes besides
  that data do flow, and says so.
* `LiquidationStats`: the delayed stop, each collector and each saving loop.
* `NewsHub`: the loop, the fetch of each source, which has a timeout, and the
  writers. The ticker is not needed: a browser's request is a token that waits.
* `HyperSession`: the snapshot loop, the end of each pump once the client is
  closed, of the helpers and of a read whose connection was closed. The
  upstream need not send anything.
* `Monitors`: each loop's own next step. Strong fairness on `LoopEnds`, because
  a select that finds both channels ready takes either at random, and on `Fetch`,
  because not every request fails.

## 5. What is proved

Every invariant, action property and refinement that a passing run checks is
also a theorem, for every value of the constants. Liveness is not (end of this
section).

`LocalTPSL_proofs`, `RiskControl_proofs` and `Strategies_proofs` extend the
module they are about and prove theorems of its `Spec`. `Desk_proofs`,
`Streams_proofs`, `Feeds_proofs` and `Safety_proofs` extend `MCDesk`,
`MCStreams`, `MCFeeds` and `MCSafety`, whose components share no state, and prove
theorems of `AllSpec`: each component has an inductive invariant of its own,
kept by its own steps, and a lemma (`DeskSteps`, `StreamSteps`, `FeedSteps`,
`SafetySteps`) says that a step of the whole is a step of one of them and leaves
the others as they are. The sequences and records that `MCDesk` and `MCStreams`
define for TLC (`Updates` and the like) are what the `.cfg` gives constants their
values with; the theorems use none of them.

The theorems rest on named assumptions only. Those of a module that is brought
in by INSTANCE are restated by the MC module (`PaperAssumption`, `WsAssumption`,
`WatcherAssumption`, `LedgerAssumption` in `MCDesk`, `FollowAssumption`,
`FeedsAssumption`, `SafetyAssumption`), and TLC evaluates them on every run. What they say of the
code:

* bounds are naturals; sets of placers, prices and symbols are finite; a
  thread's name is not `Main`, `Monitor` or `Free`; there is a strategy, an item,
  a holding to begin with;
* prices, sizes, leverages, cool-downs, the hours of a day and periods are at
  least 1; the thresholds of indicators are integers, whichever;
* a registration creates new rows under a new group id, its stop loss after its
  take-profits (`local_tpsl.go:653`, `:711`, `:762`), and a partial take-profit
  registers a trailing stop (`FreshAssumption`, `StopLastAssumption`);
* the risk limits are naturals, and nothing about them or the trades is assumed
  besides;
* the percents of a ladder add up to 100 (`OrderAssumption`), because
  `RegisterLocalTPSLFromOrder` refuses another ladder (`local_tpsl.go:665`);
* an update of the exchange's book names one of the prices, and its quantity is
  a natural or the text `LongZero`.

Five theorems have a hypothesis besides, because without it the code, or the
whole numbers of the model, make the property false: `Covered`, `AllQuantitiesFit`
(`Precision # 0`), `AccountAddsUp` (`OneHand`, `WholeMargins`), `SidesAlike`
(`ScalpBalanced`, `SignalsBalanced`) and `StoresAgree` (`OneAtATime`). The
paragraph of each says why, and section 6 has the counterexamples.

Every invariant below was checked by TLC on the instance of its run before it
was proved. A theorem without a property states something no run lists.

| Module | Theorem | Property | Invariant behind it |
|---|---|---|---|
| `LocalTPSL_proofs` | `TypeCorrect` | `TypeOK` | itself |
| | `ActiveIsWatched` | `WatchedWhenActive` | itself, with `TypeOK` |
| | `AtMostOneOrderPerObject` | `AckedOncePerLoad` | `SpareInv` |
| | `EverythingOnRecord` | `WriteAhead` | `RecordInv` |
| | `StopLossStandsAlone` | `NoTakeProfitAfterStopLoss` | `CourseInv`, `DownInv` |
| | `NoneForgotten` | (`ActiveEverywhere`) | `RealInv`, `StoresInv` |
| | `StoresAgree` | `Agreement` | `StoresInv`, `AloneInv` |
| `RiskControl_proofs` | `TypeCorrect` | `TypeOK` | `TypeInv` |
| | `ReachedLimitLocks` | `LimitMeansLocked` | `LimitInv` |
| | `LateOrdersBounded` | `AtMostOneLateOrderEach` | `LateBound` |
| | `CountersAreTheTables` | `CountersMatchTable` | `CountersInv` |
| `Strategies_proofs` | `TypeCorrect` | `TypeOK` | `TypeInv`, `PlanInv` |
| | `TasksFitPlans` | `PlansFit` | `PlanInv` |
| | `LoopsStopOnce` | `LoopsInHand` | `HandInv` |
| | `LastWordStands` | `LastWordHolds` | `WordsInv` |
| `Desk_proofs` | `TypeCorrect` | (`TPSLGroup`'s `TypeOK`) | itself |
| | `Covered` | `CoveredUnlessRegistrationFails` | `GroupInv` |
| | `NeverSellsMore` | `NeverSellsMoreThanBought` | `GroupInv` |
| | `TrailingFollows` | `TrailingNeverLoosens` | `TypeOK`, by steps |
| | `DayIsTheTables` | `DayMatchesTable` | `LedgerInv` |
| | `EndedRecordsStay` | `EndedStaysEnded` | `LedgerInv`, by steps |
| | `AllQuantitiesFit` | `QuantitiesFit` | `SizeInv`, `WatchInv` |
| | `NothingAbandoned` | (`AbandonedOnlyAfterError`) | `WatchInv` |
| | `CallersToldTheTruth` | `CallsAreTrue` | `WsInv` |
| | `AccountAddsUp` | `AccountBalances` | `AccountInv` |
| | `DeskTyped` | `TypesOK` | those above, together |
| `Streams_proofs` | `TypeCorrect` | (`BookSync`'s `TypeOK`) | `FeedInv` |
| | `ShowsTheBooks` | `ShowsExchangeBooks` | `FeedInv` |
| | `FollowerFollows` | `FollowsLeader` | `FollowInv` |
| | `StreamsTyped` | `TypesOK` | `FeedInv`, `FollowInv` |
| `Feeds_proofs` | `FeedsInHand` | `RunningIsKnown` | `PriceInv`, `PollInv` |
| | `FeedsTyped` | `TypesOK` | `FeedsInv` |
| `Safety_proofs` | `SafetyTyped` | `TypesOK` | `SafetyInv` |
| | `EventsSpaced` | `SpacedTriggers` | `TrigInv`, `MonInv` |
| | `PositionsKnown` | `HoldingsKnown` | `ScalpInv`, `SignalsInv` |
| | `SidesAlike` | `SidesMirror` | `SignalsInv` |
| | `ViewersServed` | `BrowsersServed` | `RoomInv`, `LiqInv` |
| | `SeriesTrue` | `SeriesKept` | `LiqInv`, `NewsInv` |

**LocalTPSL.** `TypeOK` includes the discipline of the shared code: a thread that
writes a status has a terminal status and an object at hand, and the list's
entries are objects that were made. The routine that writes the stores is shared
by all threads and is proved once (`WriteTypeOK`), as is the insertion into
memory (`AddToMemoryTypeOK`).

* `ActiveIsWatched`: short of a restart or a failed statement, a row that says
  ACTIVE is in the monitor's list, but for two windows: between the row's
  creation and `addToMemory`, and between `removeFromMemory` and the UPDATE.
  Three lemmas treat the steps that open or close a window (`MarkWatched`,
  `UpdateWatched`, `CreateWatched`, with `AddWatched` for the insertion), and
  `OutsideWindows` treats all the others at once.
* `AtMostOneOrderPerObject`: the inequality `acked[c] <= made[c]` is not
  inductive, since nothing in it forbids one more order. `SpareInv` adds that a
  condition that can still fire has an object to spare, that a condition whose
  order was just accepted is out of the round's copy, and that the copy holds
  one object per condition. Firing spends the spare object; until
  `removeFromMemory` has run the condition cannot fire again, and afterwards
  only a new object can.
* `EverythingOnRecord`: the stores alone do not carry it. What is about to enter
  memory or Redis was read by a goroutine some steps before, so `RecordInv` says
  the same of the round's copy and of what each goroutine holds.
* `StopLossStandsAlone`: between the stop's execution and the last linked
  cancellation take-profits are still in the list, and callers may put them back
  there to cancel them. `StandDown` says that a take-profit in the list whose
  stop is on record as triggered is one that the monitor is about to collect or
  that a thread has collected and not yet marked; `Held` and `Fires`, that what
  was collected is never forgotten and that nobody but the monitor writes
  TRIGGERED. `CourseInv` excludes the one way around it: a registration that
  still adds take-profits when the stop has fired, for the stop comes last.
  `ActiveIsWatched` then gives the rows. The run has one caller; the theorem, any
  number.
* `NoneForgotten`: the half of `Agreement` that keeps orders from being lost, for
  any callers: between calls, without a restart or a failed statement, an ACTIVE
  row is in the list and in Redis. `RealInv` says that what anybody holds was
  made; `StoresInv`, that an object whose row is still ACTIVE has lost its own
  status, or its entry in the hash, only to a thread that is about to write the
  row.
* `StoresAgree`: the other half, that nothing else is in the list, needs
  `OneAtATime`: one caller, and no trailing stop for the monitor to register.
  Otherwise one goroutine can cancel, through the table, the row that another has
  created and not yet put in the list. Under it, `AloneInv` says, a new row is
  ACTIVE until it is in the list, and whoever settles a row has taken its
  condition off the list or is about to.

**RiskControl.** The table has no row for a day past the calendar's end, so the
types need `day <= MaxDay`.

* `ReachedLimitLocks`: one step writes counters and leaves them unlocked, the
  recovery that found no losing trade. `LimitInv` adds that a day without a
  losing trade has no loss (`TableSane`), and that step is harmless.
* `LateOrdersBounded`: counting late orders is not inductive, because placers
  who have passed the check may still order. `LateBound` bounds both together by
  the number of placers.
* `CountersAreTheTables`: the counters lag behind the table by the trade that is
  being reported, and the recovery, while it runs, has the day to itself;
  `CountersInv` says both. A close that overlaps the recovery or midnight is
  excluded by the property (`blurred`), not by the proof.

**Strategies.**

* `TasksFitPlans`: a plan's bound on orders follows from where the loop is, for
  the count goes up after the answer. `PlanInv` says for each kind what the count,
  the open order and the levels are together, and for auto-scale that pairs of
  stops outnumber the known one by at most the requests that failed. `TypeOK`
  has naturals where that argument is needed, so it comes second.
* `LoopsStopOnce`: `HandInv` says of every task where it is: active, known to the
  map, its channel open and its loop not past its end; or ended, and then its
  channel is closed or its loop will close it and nobody else did.
* `LastWordStands`: what was acknowledged holds because the writer of a record
  holds the type's mutex (`LockInv`), because handlers wait for the recovering
  main goroutine (`MainInv`), and because a request has done to the task what it
  is writing to the stores (`WordInv`, `RecordInv`). Over a restart the strategy
  is in the list that is being recovered. The theorem needs no bound on restarts.

**TPSLGroup.** `GroupInv` lists the states in which the conditions of an order
can be, a single take-profit (`SingleInv`) and a ladder (`LadderInv`), with what
has been sold in each, and says that what is open is at most what was bought and
not sold, plus the orders on their way. Under it are the lemmas about the
quantities: a rounded quantity is a multiple of the step, not above what was
asked and below it by less than a step (`RoundFacts`, `ShareFacts`); the half and
the rest of a take-profit are the whole (`HalfFacts`); the levels of a ladder are
together no more than the order and less by less than a step for each level
(`TotalFacts`).

`Covered` and `AllQuantitiesFit` assume `Precision # 0`. At precision 0 they are
false of the code:
`formatQuantity` cuts the zeros of a whole number (`order.go:365`), a trailing
stop of 100 is registered as one of 1, and the rest of the position has none.
The other theorems hold at every precision.

**FillWatch and QtyRules.** `AllQuantitiesFit` is three facts. `SizeInv` has the
opening and its levels, from the lemmas above. `ReductionFits` is about the share
that `Find` computes. For `NeverTurnedRound` the quantity on the book is bounded
by what is held at each step of the watcher: an order without `reduceOnly` has no
more left than the position, which `Query`, `Cancel` and `Replace` keep because
they replace an order only after it is gone. `WatchInv` says this of behaviours
without trades by hand, and before the opening half of a reversal, as the
property does. `NothingAbandoned` is the safety part of `OrdersFinish`.

**TradeLedger.** `LedgerInv` has what the table's two writers have read and not
yet written. `RowsInv`: the stream's handler writes back a row that is still as
it was read, because the other writer only adds records or merges an OPEN one
without profit, which changes nothing (`MergedFacts`). `FlowInv`: an order's reports come in order and its last one last.
`RecordInv`: a reduction has no record before its last report is handled. Then each step
adds to the day what it adds to the table, or adds it to the day only and counts
a fault (`DayInv`). `EndedRecordsStay` is a step property: each write goes to a
row that is open, or keeps the status that ended it.

**WsOrders.** `ReportInv` counts for each call the orders it has and those it may
still get of the request it wrote; the request is written once and taken off the
wire when the exchange decides, and REST comes after giving up its answer.
`MapInv` adds to the property that an answer waits in the channel only after its
entry was deleted. `ExtraInv` says that only a refused logon leaves a connection
that is neither the slot's nor being set up. `CallersToldTheTruth` is their
conjunction, as `CallsAreTrue` is.

**PaperEngine.** `PaperTyped`, the part of `DeskTyped` that takes work, says that
a position has a quantity and a notional above 0, so that averages and margins
divide by something. `AccountAddsUp` has two hypotheses:

* `OneHand`, one caller and one leverage. Reversal releases the lock in its
  middle, and a merge overwrites the leverage that the margin was taken at: with
  two callers or two leverages the account does not add up (section 6).
  `ReversalInv` is where one caller is used: nobody touches the position between
  the halves of its reversal.
* `WholeMargins`, a condition on each state of the behaviour: a margin, and its
  share for one unit of a position that may still be traded, is a whole number
  of units. The code has floating-point numbers, the model integers, and a
  quotient that rounds is a fault of the model's unit and not of the code. TLC
  finds `WholeMargins` in every state of the account that `MCDesk` has.

**BookSync.** The refinement has three parts. First, the code's message is what
a client should see (`TopIsView`): rounding to buckets, sorting and summing give
at rank i the bucket that has i - 1 live ones before it, with the sum over its
prices, and either spelling of zero is no level. Second, an event that is neither
out of date nor a break takes the local book from one of the exchange's books to
the one after its last update, though it repeats updates the book has
(`ApplyFacts`); this is an induction over the exchange's updates (`Untouched`).
Third, messages are of later and later updates though the goroutine begins again
with a snapshot that may be older than its last message: `FeedInv` says that
events under way are in order, the queued before those on the wire, and all of
them of updates after the last message, because a connection begins empty and
its events are of updates to come. Then each step is one of `BookFeed` or changes
nothing its clients see (`FeedStep`).

**HyperFollow.** Three independent arguments. `LateInv`: a task that handled a
message after its stop is past the read, and what it does next is to look at its
context. `MemoryInv`: as long as a task took no more fills than the memory has
room for, the memory is all it took, whatever the eviction might choose; so a
fill is ordered once though messages come twice. `HoldInv`: the one task that
nothing disturbed reads its messages in the order the leader made the fills, and
holds of each side the opens it followed that no followed close came after
(`Held`).

**PriceCache and DataFallback.** `PriceInv` needs little beyond the property: feeds
are numbered as they start, so a new feed's channel is nobody else's, and a feed
that ends removes the stored channel only if it is its own. `PollInv` is the same
for polling loops (`LoopsKnown`), which take their numbers from those no loop
has.

**Triggers and Monitors.** What was triggered is in a history, and three things
have to be said of every entry: its time is not younger than the time noted
(`TimesNoted`), which for funding may have been dropped since, but only when it
was cold; a loop about to act has its own last trigger a cool-down behind it, or
a copy that shows it (`ChecksCold`); and entries are a cool-down apart, which is
the property. `AlertsRemembered` is the same for the alerts of one start.

**Scalp and Signals.** `AloneAndRight`: while no request failed there is one
task, and what is held is one entry on its side, guarded, and not about to be
opened again. `ReadyToOrder`: who is about to order has counted and found room,
so the count covers what is held.

`SidesAlike` is about functions of a market, not about steps. Turned upside down,
a series' rises are its falls (`Moves`), Wilder's averages change places, and the
RSI is 100 less what it was, unless nothing moved; each candle pattern becomes its
opposite. The averages are a recursive function over the series, which is treated
by `NumberInduction`. The hypotheses are what makes the thresholds mirror images
(`RsiLow + RsiHigh = 100`, `Oversold + Overbought = 100`, the first below the
second), and two without which the rules are lopsided: `ShadowRatio >= 100`, for
otherwise a candle can be a hammer and a shooting star and the code asks for the
hammer first; and `Period >= 2`, for with 1 the average forgets the moves before,
and a market that moved and then stood still has an RSI of 100 either way up. The
defaults in the code meet them all. The ties that `Lopsided` names are excluded by
the property, and the runs as well as the theorem are about the rest.

**PriceRooms, LiquidationStats, NewsHub.** `RoomInv`: the timer that closes a room
has taken it out of the table first, under the lock, and no two timers close the
same (`ClosedOnce`); clients keep a room running, and a room that runs has a
stream (`StreamsRun`). `LiqInv`: collectors' channels are used in the order they
are made and all but the hub's are closed (`ChannelsNumbered`); an hour and its
day are added to together, and days are cut at the day of the hours' cut-off, so
that no hour outlives its day. `NewsInv`: what is stored is cut to the newest
already (`NewsCut`), and cutting a list before it is merged gives what the whole
list would.

**Induction over data.** The library's induction theorems take an operator as a
parameter, which the provers cannot instantiate. `SumFacts` has two that take a
set instead, `SubsetInduction` and `NumberInduction`, proved from the existence
of a least counterexample (`WFMin`). With them follow that sums over finite sets
exist and add up, that a finite set can be sorted (`SortingExists`), and what the
recursive functions `BookAt` (`BookExists`, `BookFacts`) and `Wilder` are. For the
same reason the quantities of a group, the buckets of a book, the margins of an
account, the profits of a table and the hours of a day are sums by `SumFunctionOnSet`
or `SumFunction`,
and the sorted levels are chosen by what sorting is (`SortedLevels`).

**Only model-checked.** Liveness, which is out of the prover's reach, as ENABLED
is: `AcceptedIsRecorded`, `WatchersSettle`, `OrdersFinish`, `StoppedEnd`,
`LagsCatchUp`, `StreamsProgress`. The formulas of section 6 are refuted by TLC and
are not theorems.

## 6. Where the code does not do what its comments say

Two runs expect a violation.

`MCStrategyEnded`, `RecoversOnlyRunning`:
`FEATURES.md:38` says that a restart recovers running strategies. Only StopX and
the administration mark the record (`strategy_persist.go:83` has no other
callers); a loop that placed its last order, reached its total stop or failed
too often clears `Active` and leaves the record ACTIVE (`dca.go:207`,
`grid_trading.go:348`, `auto_scale.go:194`). The next restart starts the strategy
again, with its count at zero: TLC's trace is a grid that closed everything on
its stop-loss and buys again after a restart.

`MCTwoRecords`, `OneRecordPerOrder`: `user_stream.go:175` says that one record is
kept per order id. `createCloseTradeRecordFromUpdate` looks for it (l. 176) and
creates it (l. 232); `persistTradeRecordAsync` does the same in its own goroutine
(`db.go:297`, called at `ws_order.go:254`). `order_id` has an index that is not
unique (`db.go:246`) and nothing is locked in between. TLC's trace is an order
that closes a position, fills at once, and is looked up by both before either
writes.

These formulas also state what a comment or a document says, or what one would
expect, and the models refute them. They stand in their modules and no run
lists them. To see the counterexample, add the name to the configuration as an
INVARIANT or, where it is a formula about steps, as a PROPERTY; where the table
gives a prefix, define the name in the MC module first, as in
`Refuted == Watcher!ReducesWhatWasAsked`.

| Formula | Configuration | Code | Says otherwise |
|---|---|---|---|
| `Agreement`, with `Caller = {a, b}`; or, with one caller, as an invariant of `MCTpslFaults` with `MaxDBFault = MaxRedisFault = MaxRestart = 0` | `MCTpslLadder`, `MCTpslFaults` | `local_tpsl.go:844`: a caller may cancel, through the table, a row that another, or the monitor with a trailing stop, is about to put in the list | |
| `FiresOnlyActive` | `MCTpslCallers` | `local_tpsl.go:171`: a round fires from its copy | `local_tpsl.go:154` |
| `RestartLoadsActiveRows` | `MCTpslFaults` | `local_tpsl.go:63`: Redis wins if it holds anything | `local_tpsl.go:56` |
| `StopCoversPosition` | `MCDesk` | `local_tpsl.go:342`: the registration's error is ignored | `FEATURES.md:21` |
| `NeverReverses` | `MCDesk` | `ws_order.go:641`: no `reduceOnly` on the monitor's order | `ws_order.go:590` |
| `GuardLiftsItsOwnLock` | `MCWatchers` | `volatility_guard.go:142` | `volatility_guard.go:139` |
| `RecoveryIsExact` | `MCRiskLimits` | `risk_control.go:185`: writes over what closed meanwhile | `FEATURES.md:103` |
| `SwitchStopsItsTargets` | `MCRiskLimits` | `risk_control.go:57`: the check passes empty names | `FEATURES.md:160` |
| `WaitsOnlyWhenSubscribed` | `MCFeeds` | `price_cache.go:144`: a stale entry is not subscribed again | `price_cache.go:132` |
| `Paper!OppositeIsRefused` | `MCDesk` | `paper_trading.go:118`: closes and reopens | `paper_trading.go:117` |
| `AccountBalances`, with `Leverage <- {1, 2}` or `Caller <- {"a", "b"}` for `Paper` | `MCDesk` | `paper_trading.go:114`, `:118` | |
| `Ws!RestOnlyAfterFailure` | `MCDesk` | `ws_order.go:169`: an unanswered request is placed again over REST, though it may have been executed | `ws_order.go:16` |
| `Ws!ReconnectClosesTheOld` | `MCDesk` | `client.go:73`: closes whatever the slot holds now | `client.go:72` |
| `Watcher!ReducesWhatWasAsked` | `MCDesk` | `ws_order.go:743`: the replacement asks for the full quantity, whatever was filled | `order.go:403` |
| `Watcher!ReversedInTheEnd` | `MCDesk` | `order.go:952`: opens while the close rests | `order.go:925` |
| `NoRoundWhenStopped` | `MCStrategies` | `dca.go:202`: a select with both channels ready may take the tick | `grid_trading.go:332` |
| `LastWordHolds`, with `"admin"` left out of `Undisturbed` | `MCStrategies` | `strategy_admin.go:50`: marks without the mutex | |
| `Copy!NothingAfterStop` | `MCStreams` | `hyper_follow.go:304`: the stop is looked at between two reads | `hyper_follow.go:121` |
| `Scalp!OneDirection` | `MCSafety` | `scalp_strategy.go:491`: opens though the closing failed | `scalp_strategy.go:20` |
| `Trig!NewsTradedOnce` | `MCSafety`, with `MaxTime <- 4` | `news_sentiment_strategy.go:207`: an id is dropped while its news stay listed | `news_sentiment_strategy.go:65` |
| `DroppedOnlyWhenFull` | `MCSafety` | `doji_strategy.go:409`: nothing counts down for a stop or a take-profit | `doji_strategy.go:64` |
| `Rooms!StopsOnlyEmptyRooms` | `MCSafety` | `ws_price_proxy.go:183`: counts one room and stops the symbol's | `ws_price_proxy.go:166` |
| `Mon!OneLoop` | `MCWatchers` | `strategy_allocator.go:96`: waits on the global channel | |
| `Mon!ErrorsAreItsOwn` | `MCWatchers` | `aave_monitor.go:390`: a cancelled request is reported as a failure of the service | |
| `Mon!OneOrderPerAlert` | `MCSafety`, with `MaxTrade <- 2` for `Mon` | `funding_rate.go:226`: orders at each check | |

`QtyRules!Formatted` has one more: at precision 0 a quantity of 10 is printed as
1 (`order.go:365`, against `order.go:361`). The instances use symbols with
decimals, and `Covered` and `AllQuantitiesFit` assume one, so that the other
properties are about the rest of the code.

## 7. Plan

The modules are there, in the order in which they matter: `LocalTPSL`,
`TPSLGroup`, `QtyRules`; `RiskControl`, `WsOrders`, `FillWatch`, `TradeLedger`;
`Strategies` and the strategies that decide; the streams, rooms and hubs. Each
safety property the runs check is proved. What is left:

1. An abstract specification of a strategy ("it runs from a start until it stops
   or completes, restarts included") which `Strategies` is compared with, as
   `BookSync` is with `BookFeed`. `LastWordHolds` says the part of it that is
   about what was acknowledged.
2. The trailing stop's extreme price over a restart, for which `TPSLGroup` would
   need the restart of `LocalTPSL`.
3. Proofs of the liveness properties, with a prover that has ENABLED.

## 8. What is not modelled, and why

* Volume profiles, regimes, VaR, stress tests, backtests, recommendation scores:
  computations on series of floating-point numbers that change no state another
  component depends on. The indicators that strategies trade on are modelled in
  `Signals`, where they are comparisons on small numbers; the scalper's are
  inputs.
* `SmartRoute` (`smart_router.go`) and `CheckPortfolioRisk` (`portfolio_risk.go`)
  have no callers; the portfolio's sums are refreshed for a page.
* Conditional orders at the exchange (`algo_order.go`): signed requests, whose
  outcomes are in `Strategies`.
* The weights of `strategy_allocator.go` and the thresholds of `aave_monitor.go`
  and `funding_rate.go`: a round finds some alerts or none.
* The content of an address's snapshot and the parsing of news feeds
  (`ws_news_hyper_proxy.go`); the quality counters of ticks
  (`ws_data_quality.go`); the renewal of the listen key (`websocket.go`), a
  goroutine per connection that survives it and repeats a request.
* Order parameters, signatures, HTTP and JSON: a request is a value, and only
  its outcome matters.
* Symbol rules: constants of `QtyRules`. Their fetching and caching is left out,
  except that `TPSLGroup` has the case in which they cannot be read.
* Prices in `LocalTPSL`, threads in `TPSLGroup`: see section 2.
* The time zones of the risk counters: `RiskControl` has one midnight, the code
  a UTC one in recovery (`risk_control.go:165`) and a local one in the counters.
* Kill switches over a restart, which releases them: nothing promises more. The
  trailing stop's extreme after a restart is a hazard in `PROJECT.json` without a
  property, with the reason.
* The window of a cascade, which counts only what the first minutes of an hour
  hold (`liq_cascade_strategy.go:172`), is in `Triggers` (`Counted`), without a
  property: no document says what it should count. Its cool-down begins though
  the order was refused (l. 237), which is modelled likewise.
* The scalper's four-hour trend, read at the head of a check, is an input; that
  it is refreshed once only (`scalp_strategy.go:449`) is left out.
* A restart in `LiquidationStats`, after which a row shrinks; messages of rooms
  and hubs other than the book's.
* A server without PostgreSQL (`DB == nil`), and two failures within one recovery
  of strategies.
* The REST proxy, the self-test, the scripts and the mobile application.
