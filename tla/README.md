# BinanceTrade: verification project

TLA+ models of the parts of `binance-trade` that keep state and can go wrong in
ways a unit test hardly reaches, the TLC runs that check them on small
instances, and TLAPS proofs of what matters most for every instance.
Paths are relative to the repository (`src/binance_trade/...` unless said).

## 1. The system

`binance-trade` connects a Binance account (Spot or USD-M futures) to trading
strategies. One asyncio process per daemon (or per stack of daemons), a
threaded dashboard process, and short CLI commands share one SQLite database, a
directory of status files and the account at the exchange. No lock spans two of
their steps: what holds the system together is the order in which each of them
reads and writes.

| Component | State it keeps | Operations | Talks to |
|---|---|---|---|
| order lifecycle (`service.py`, `state.py`) | table `orders`, one row per client order id | `submit_order`, `order_status`, `cancel`, `reconcile`, `user_messages` | REST client, user stream, SQLite |
| order rules and risk gate (`filters.py`, `types.py`, `risk.py`) | none; reads the count of open rows and the last order time | `_prepare_order`, `validate`, `RiskGate.evaluate` | called by `submit_order` |
| strategy daemon (`daemon.py`) | `runtime_sessions`, `runtime_status`, heartbeat file, restart count and delay | `run`, `_run_once`, heartbeat and reconcile loops, `request_stop`, health check | runner, services, SQLite, signals |
| daemon stack (`daemon.py`) | `runtime_stack_sessions`, `runtime_stack_status`, dict of member tasks | `run`, `_stop_member_tasks`, heartbeat, health check | its daemons as tasks of the same loop |
| runner and persistent strategy (`strategy_runtime.py`, `examples/strategies/spot_ema_persistent.py`) | queue, `_pending_client_order_id`, `_position_qty`, `_last_close_time`, `ctx.state` | `on_start`, `on_market_event`, `on_user_event`, `_execute_order`, the pumps | both streams, `submit_order` |
| process control of the dashboard (`dashboard.py`) | `stack-<name>.json` with a pid, status rows | `start_stack`, `stop_stack`, `_stop_process`, `_mark_*_stopped` | operating system processes, SQLite |
| research (`research.py`) | cash, position, trades, equity curve of a replay | `fetch_recent_candles`, `run_backtest_with_options` | REST klines |
| REST clients (`rest.py`, `futures_rest.py`) | server time offset, rules of each symbol seen (kept for ever) | public requests with three attempts, signed requests with one | HTTP |
| streams (`ws_market.py`, `ws_user.py`, `futures_ws_user.py`) | connection, reconnect delay, listenKey | connect, listen, reconnect after a growing delay, keepalive | websockets |
| portfolio overview and Earn (`service.py`, `dashboard.py`) | `_portfolio_cache` with the time it was taken, a lock; the flexible position at the exchange | overview section by section, `redeem_simple_earn_flexible`, drop of the cache | REST, snapshots |
| Strategy Lab and deployment (`dashboard.py`) | `research_state.json`, generated profiles and stacks, `deployment_suggestions.json` | scan, generate a stack, update a parameter, budgets of a start, suggestions of a snapshot | research, process control |
| HTTP server of the dashboard (`dashboard.py`) | a thread per request, its locals | `do_GET`, `do_POST` | the two above, process control |
| built-in strategies (`builtin_strategies.py`, `strategy.py`) | a deque of candles, `_last_close_time`, the one order | `on_start`, `on_market_event`, `build_order`, thirty `compute_signal` | runner, backtest, persistent wrappers |
| profiles, presets, CLI, pages, signing, reports, logging | none to speak of | parse, render, sign | everything above |

### What is hard, and what makes each part correct

* **Orders.** `submit_order` awaits the network between writing the row and
  writing the outcome; events, snapshots and late responses write the same row
  with an unconditional `UPDATE`. Correct: no row claims a fill that did not
  happen; nothing is asked of the exchange without a row to find it by; a slot
  of a dead order is given back; a resting order is found again; an unknown
  outcome is resolved; the maximum of open orders is kept.
* **Daemon.** Four tasks may end in the same instant, in any combination with a
  stop request or a kill between two transactions. Correct: both tables and the
  file tell one story, sessions are closed, a working daemon never looks stale,
  a stop request ends it, a failure restarts it.
* **Stack.** Members fail while others are being stopped, and take longer than
  the grace period. Correct: no member trades on under a stack reported
  stopped; a dead member shows in the health check.
* **Strategy.** The result of `submit_order` and the execution reports reach it
  in either order, with candles between them, or not at all. Correct: one order
  at a time, never long twice, never short, position equal to balance.
* **Process control.** Threads work on a file, a process table and rows without
  a lock; a process id may be reused. Correct: one daemon at most, none
  forgotten, an answer "stopped" is true, late writes do no lasting harm.
* **Research.** History grows while it is paged; a fill closes and opens in one
  bar. Correct: pages join exactly, trades account for the money, fills never
  pay, spot is long-only.

* **Built-in strategies.** The window is filled from REST, open candle included,
  and continued by a stream that loses candles; a backtest hands the same code
  the whole history. Correct: the window is the recent past, live and backtest
  say the same, a crossing is said once, buying and selling are one rule.
* **Dashboard.** Snapshots read sections one after another behind a cache that
  posts drop before they act; scans, generations and edits share files nobody
  locks. Correct: what a snapshot is given is recent and shows a redemption, a
  plan accounts for its capital, what is on disk can be used or its damage has
  a reason, suggestions share the money there is.

`PROJECT.json` lists each hazard at its line with the properties that cover it.

## 2. The modules

| Module | What it models |
|---|---|
| `OrderLifecycle` | the orders table, the calls, the wire and the exchange |
| `OrderJournal` | abstract: what the journal promises; implemented by `OrderLifecycle` (`view <- journal, truth <- exch`) |
| `OrderRules` | preparation, validation and the gate as operators |
| `StrategyDaemon` | one supervised strategy over time |
| `DaemonStack` | the stack over its members, seen by task and row |
| `PersistentStrategy` | runner, queue, streams and the EMA strategy |
| `ControlPlane` | dashboard threads against a process table |
| `Research` | paging and backtest |
| `Fractions`, `Indicators`, `Signals` | exact fractions, the indicators, the signals of the thirty strategies: operators only |
| `KlineFeed` | the window of candles of a built-in strategy and its one order |
| `BuiltinStrategies` | `KlineFeed` with `Signals`: what relates signal, backtest and market |
| `Funding` | scores, budgets, simulated portfolio, suggestions: operators only |
| `DashboardServer` | threads of the HTTP server and the requests they get |
| `Portfolio` | overview behind its cache, redemption |
| `StrategyLab` | scan result, generated stacks, edited profiles, suggestions |
| `Dashboard` | `Portfolio` and `StrategyLab` under one server, with time and kills |
| `MC*` | the sets TLC needs; `*Proofs` the theorems of a module |

### OrderLifecycle

`journal[o]` is `orders.status` (`"ABSENT"`: no row), `exch[o]` the truth.
`submit_order` is cut at its awaits and at its transactions: `Evaluate`,
`RecordOrderRequest`, then by mode `DryRun`, `SendTestOrder`/`TestOrderReturns`,
or `PlaceOrder` and one of `ReceiveReply`, `TransportFails`, `CallCancelled`.
The synchronous stretch between two awaits excludes other tasks of the same
process (`LoopFree`), not other processes. `reconcile` is `GetOpenOrders` (the
moment the exchange answers), `ApplyOpenOrders`, then `GetOrder`/`ApplyOrder`
per row left open; for futures it ends after `ApplyOpenOrders`, as the code
does. `Crash` drops calls, passes and connections; journal and wire stay.

Coarser than the code: the loop over the open orders is one action (one
transaction per row in the code, but no await between them); `CANCELED` stands
for `EXPIRED` and may follow a partial fill; ids are fresh, as
`new_client_order_id` makes them; leverage calls, the raw event log and market
data getters are left out, as no row depends on them.

### OrderRules

Decimals are whole numbers in the smallest unit of a symbol, optional values
are sets of at most one element. It has no behaviour, hence no run; its theorems
are about every order, symbol and profile. Rounding of products at the 28
digits of Python's context is abstracted away.

### StrategyDaemon

`pc` follows `run()`; the four tasks of `_run_once` end on their own
(`task[t]`), and `CycleRaises`, `CycleStops`, `StrategyExits` are the outcomes
of `asyncio.wait` in the order of the code's checks, including the exception a
dead pump throws out of a cancelled runner. Each transaction is one action, so
`Crash` falls between any two. `Cancel` is the stack that gives up on a slow
member (`daemon.py:632-636`), or the end of `asyncio.run`: `CancelledError` leaves
any await and `run()` passes it on (98-99), so nothing is recorded and a session
that has begun stays open. `LoopRaises` is a write of `run()` itself, outside its
`try`, that raises; `LoopFails` a heartbeat or reconcile loop that does. `cut`
(a history variable) holds the sessions one of the three interrupted.
`Tick` advances time in awaits only and never past a due timer. `mem` and
`row.saved` are the strategy's state and its snapshot.

`SessionsClosed` says that nothing else leaves a session open: each failure, stop and
exit closes it first. `FileMirrorsRow` holds while the strategy runs, in a backoff and
after `run()` has ended on its own. It does not hold during startup, where the
row is `STARTING` and the file still that of the session before; there it says only that
the file claims a running strategy after an interrupted session at most.

### DaemonStack

The tables and loop of `StrategyDaemonStack.run`: `SeeStop`,
`SeeHeartbeatFail`, `SeeMembers`, then `NoteMember` for each completed member,
`StopMemberTasks` with its grace period and `CloseStack`, or `StopRaises` where
an awaited member's exception leaves the session open. Both switches vary. The
order of the loop over completed members is left open (the order of the dict in
the code). A member is what `StrategyDaemon` shows outside: its row and its task.

### PersistentStrategy

One candle is a number and a signal, the signal an input. `OnMarketEvent`,
`OnUserEvent`, `SubmitReturns`, `SubmitRaises` are the runner's one-at-a-time
loop, `PumpMarket`/`PumpUser` its pumps, `Match` a market order that fills in
one or two trades or expires, with a response that may be lost. An order in
flight is decided before the next cycle begins (recvWindow and restart delay
are both five seconds). One owner per symbol; commission in the base asset is
left out, as the strategy leaves it out.

### ControlPlane

A request is a thread cut at each read or write of the file, the process table
and the rows. Heartbeats, exits, crashes and strangers that take over a process
id interleave. One stack of one profile; the single-profile functions take the
same path. `thread[t].path` tells whether a stop names the stack file. Only then is
the file loaded, which may fail (`LoadFails`), and are the rows marked after an answer
that says stopped (`Conclude`, `dashboard.py:1217`): a stop by name alone leaves the
rows of a stack that was killed at `RUNNING`, and `StopIsTrue` speaks of the rows
only where the path was sent. `WriteBack` is the write of the metadata read at the
check, a step of its own after the last poll. The properties about how many processes run assume that requests do
not overlap (`~overlapped`): there is no lock, and two starts at once do start
two stacks. Process ids may be reused even so.

### Research

Candles are their open times; prices and signals are drawn bar by bar. Money is
exact: floats are whole numbers, and `Capital` is rich enough in factors that
every division of the bounded run is exact. Summary ratios, folds and benchmark
are left out.

### Fractions, Indicators, Signals

A bar is whole prices and a volume, an indicator an exact fraction where the
code has a float; a standard deviation is compared by its signed square, so no
root is needed. Periods are constants (the defaults of 20 and more would need
histories of a hundred bars), thresholds and comparisons are the code's.
A strategy answers 1, -1 or 0 (`None`) for a sequence of bars. What differs from
the code is the rounding of floats: two values closer than that may compare
otherwise there.

### KlineFeed and BuiltinStrategies

`window` is `_candles`, `last` is `_last_close_time`, a candle its position in
history and its bar. `OnStart` takes the newest candles with the open one as it
is then; `CandleCloses` appends to the history of the exchange and either calls
`OnMarketEvent` or is lost by the stream. `BuildOrder` knows market, trade side
and the sizes that are set. In `KlineFeed` the direction is an input, so that its
theorem holds for any signal; `BuiltinStrategies` states what the thirty signals
must have in common on the windows the feed reaches. Its three sets name the
strategies for which a property is not meant: `Seeded` (an average begun anew in
every window), `Standing` (a state, not a crossing) and `Lopsided` (rules that
are not each other's mirror).

### DashboardServer, Portfolio, StrategyLab, Funding, Dashboard

`pc[t]` is the step a request's thread is at, `job[t]` its locals; any thread may
go on between two steps of another. A session says what is done with the
dashboard, because all of it at once is more than TLC can enumerate.

`Portfolio`: `AskPortfolio` takes the lock and the time or answers from the
cache, `ReadAccount` and `ReadSections` read at different times, `FillCache`
keeps answer or error with the time taken before. `InvalidatePortfolioCache`
comes before `FindPosition` and `RedeemPosition`, as in `do_POST`. One asset and
one flexible position stand for all; ages replace clocks and stop at
`CacheSeconds`.

`StrategyLab`: a write of a file is two steps, truncate and write; what a second
writer leaves may be whole or torn. A scan is one step up to its file (it touches
nothing shared before), a generation one step per file, an edit is read, truncate,
write. `StackLoads` is what the two loaders demand of the files. Coarser than the
code: the suggestions file and the files of a new stack are written in one step
each, a snapshot discovers all stacks in one step, and the two times a scan
fetches candles give the same ones. Starting the process of a stack is in
`ControlPlane`.

`Funding`: percents, money, scores as whole numbers rounded where the code
rounds.

## 3. The runs

| Run | Instance | What it shows |
|---|---|---|
| `order_one` | 1 order, 2 processes, all modes, 1 slot, 1 crash, spot, fair; 31,644 states | the safety of the journal, its refinement of `OrderJournal`, and the three liveness properties |
| `daemon` | delays 2 to 3, beat 2, stale 3, reconcile up to 2, 3 sessions, 1 kill, fair; 127,354 states | tables, file, sessions, backoff, health, stop, restart |
| `stack` | 2 members, all four settings, beat 1, stale 2, grace 2, fair; 55,368 states | members, health, finality of a session, stop |
| `strategy` | lot of 2, 4 candles, 3 orders, queue of 4, 3 cycles, all modes; 139,749 states | one order at a time, no double long, no short, position |
| `control` | 2 threads, 2 pids, 1 poll, 2 starts, 1 stranger, 3 requests, fair; 188,236 states | one daemon, none forgotten, truth of answers, recovery |
| `research` | 5 bars in pages of 2, up to 7 candles, both markets, 3 trade sides, 2 prices; 10,577 states | paging, ledger, costs, long-only |
| `builtin` | 4 histories of 7 bars, up to 3 further candles of 5 shapes, window and required bars 9, periods 2 to 5; 33,224 states | window, live against backtest, crossings, mirror |
| `dashboard` | 1 browser, 3 clients, 5 kinds of session, cache and suggestions 2, capital 1000, 3 strategies, up to 3 posts, at most 1 kill; 635,073 states | cache, redemption, plan, files, suggestions |
| `order_cap_broken`, `daemon_restore_broken`, `daemon_pump_broken`, `strategy_blocked` | one property each | the disagreements of section 6 |

Why the bounds are enough: each hazard needs at most two orders for a slot (`order_cap_broken`), two
processes for a journal, one crash between two steps of each operation, three
sessions (a crash, a failure, a run after both), delays that reach the cap on
the second restart, two members (one ends while the other is stopped), a grace
period longer than a heartbeat, a lot of two for a partial fill in between, and
one page that is full, one that ends at the request and one that is empty or
short. The histories of `builtin` are chosen so that, with three more candles,
every strategy buys and sells; a window shorter by one than the longest history
lets a candle leave it. In `dashboard` a file needs two writers and a third
request that reads what they left, a cache two ages below and at its limit, an
allocation three candidates of whom two are taken; one name of a generated stack
is enough, since a second generation in the same second meets it. `CHECK_DEADLOCK
FALSE` stands in every run because bounded histories
end: no further order, session, candle or request.

Failures in `StrategyDaemon` need `runs < MaxRuns`: in the last session of a behaviour
nothing that makes a cycle fail happens, because there is no room for the cycle after it. In
the code failures may repeat for ever. `FailureRestarts` is therefore not a promise that a
strategy ever runs again: it says of each failing cycle, the first or a later one, that the
*next attempt* begins, and the next may fail in turn.

The type invariants and inductive invariants (`TypeOK`, `FeedTypeOK`,
`DaemonInv`, `BackoffInv`, `FileInv`, `StrategyInv`, `ConvergeInv`, `JournalInv`,
`LoopInv`, `GateInv`, `FetchInv`, `BookInv`, `AccountInv`, `AdviceInv`, `FundedInv`,
and `SlotFreeWhenTaken`) were checked by TLC on such instances first; they are
proved, so the runs leave them out.

The `order_one` bounds make `RestingOrdersTracked` meaningful although a crash
is bounded: reconcile passes are not, and failures of the network repeat for
ever in the model.

### Fairness

* `OrderLifecycle!FairSpec`: weak for the listing of open orders (the periodic
  loop, or the startup pass of the next cycle), strong for the steps a network
  failure can take the place of (failures are transient, the pass is repeated),
  weak for synchronous code. Nothing of the exchange, the user stream or the
  place-order response. A process that never restarts is outside of it.
* `StrategyDaemon!FairSpec`: the event loop runs what is ready, sleeps end, a
  set event wakes its waiter, the heartbeat returns; no failure, signal, cancellation or
  launch must happen. A stop request is honoured under that alone.
* `DaemonStack!FairSpec`: likewise for supervision, heartbeat and time.
* `ControlPlane!FairSpec`: threads run, living processes send heartbeats;
  requests and ends need not come.
* `PersistentStrategy`, `Research`, `BuiltinStrategies` and `Dashboard` state
  safety only.

## 4. What is proved

All for every value of the constants under the `ASSUME`s of the modules
(finiteness of `Orders` and `Members`, positive times, roles within
`Procs`); TLC evaluates those assumptions in the runs.

* **`OrderProofs`**, the lifecycle: `TypeCorrect`; `RequestsJournaled`;
  `JournalInvariant`, hence `NeverAhead`; `SlotFree` for a single process;
  `Refinement`. `JournalNeverAhead` alone is not inductive: a snapshot in
  flight may be wrong before it is written. `HistoryInv` says that everything
  on its way to the journal (response, event, listing, answer) names a status
  the order has had, and the history of an order only grows. `RowInv` and
  `WireInv` tie requests to rows. `SlotFree` needs `LoopInv` (one call at a
  time in the synchronous stretch) and `GateInv`. The refinement maps every
  submission and answer to `Open`, `Learn` or a stutter, and `Accept`/`Trade`/
  `AskCancel` to `Happen`.
* **`StrategyDaemonProofs`**: `TypeCorrect`, `TablesAlwaysAgree` (inductive with
  the types), `SessionsAlwaysClosed` by `CloseInv` (every place outside a cycle is
  reached over a closed session or an interruption, which `cut` remembers), `AliveAlwaysHealthy` by
  `TimingInv`: the age of the heartbeat and what is left of the await at hand
  never exceed the length of that await. `BackoffAlwaysBounded` by `BackoffInv`
  (the delay is the closed form of the doublings so far, and a sleep is never longer).
  `FileAlwaysMirrors` by `FileInv`: row and file are written in two steps, and it
  says for each place between them which of the two came first, and that what a cycle
  leaves in the file is never `RUNNING`.
* **`DaemonStackProofs`**: `TypeCorrect`; `StackInvariant` with five parts
  (members taken out of the dict have ended, terminal rows belong to ended
  tasks, the session is closed last, reports come in time, a count of all
  members was right when taken); hence `NoneOutlives`, `DeadAlwaysNoticed`,
  `ClosedIsFinal`.
* **`PersistentStrategyProofs`**: `TypeCorrect`; `KnowsItsPosition`
  (`StrategyInv`: until the first order of a cycle has returned, the position is
  the balance and nothing is unread; after it has returned the captured id
  blocks every further order); hence `OneOrderAlways`, `NeverLongTwice`,
  `NeverShort`. That these hold rests on the blocking reported in section 6:
  a repair of it will need reports to be read before the next order, and the
  proofs show at which step. `PositionAlwaysConverges` by `ConvergeInv`: of the
  reports on their way (on the wire, then in the queue) the last one that moves the
  position moves it to the balance, so a strategy that has read all of them knows it.
* **`ControlPlaneProofs`**: `TypeCorrect`; `ControlInvariant` (while requests do
  not overlap, each stage of a handler knows what runs, and a finished request
  has left what its answer says: of the processes always, of the rows if it named the
  stack file); hence `NeverTwo`, `NeverForgotten`,
  `StoppedIsTrue`.
* **`BuiltinStrategiesProofs`**: `WindowStaysRecent`, with the types as its
  strengthening: the last position seen is never ahead of the open candle, so what
  is appended is newer than all the window holds, and what drops out at the front
  is the oldest. `CrossingsAlwaysFireOnce`, for any bars and periods: a strategy
  that compares two bars asks on the earlier one whether the condition did *not*
  hold, and on the history without its last bar that very condition is the one it
  must have found true (`NotAgain`); the work is to show that what it computed then
  is what it now computes for the earlier bar, for sequences that are built up by
  recursion (`ObvFront`, `HeikinFront`) a comparison of two runs.
  `LiveAlwaysMatches`, for any bars, periods and window: a window that lost nothing is
  the end of the history (`LiveIsEnd`), and each strategy outside `Seeded` is computed
  from bars counted from the end (`EndPart`, one lemma for each group of indicators).
  On-balance volume is not: it starts anew in every window. There it differs by one
  number (`ObvShifts`), its mean by the same (`MeanShifts`), and so the crossing of the
  two is the same one, which needs exact fractions to compare as their products
  crosswise do (`UpToIs`, by `DivisorDivides` and `WholePartsFirst`).
  `SidesAlwaysMirror`, for any bars, periods and height of the reflection: twenty-two
  strategies say the opposite in the market turned upside down. The fractions are exact,
  so the proof is too. `Flip(t, f)` is `t - f` with the denominator of `f`; a fraction
  reduced by its greatest common divisor flips as it is (`FractionFlips`, since
  `Divisor` finds the greatest, `DivisorIsGreatest`), hence so do sums, differences,
  parts, means and moving averages, seeded ones by a comparison of two runs
  (`EmaFlips`, `HeikinFlips`). From there one lemma for each indicator: closes and
  channels reflect in `Top`, differences and flows in 0, the stochastic in 100, widths
  and ranges stay (`TrueRangeStays`), the two lines of Aroon and of the directional
  index change places. A reflection turns every comparison around (`MirrorOrder`), also
  of fractions that are equal in value only (`Mirrors`), and the rules to buy and to
  sell never hold both (`RisesAndFalls`, `NotBothSides`), so that the order in which
  the code asks them does not matter (`ChooseFlips`). In what is `Lopsided` one of
  these steps fails.
* **`ResearchProofs`**: `TypeCorrect`, `FetchedAlwaysRecent`, `SpotNeverShort`,
  `FillsAlwaysCost`, `LedgerNeverAhead`, `LedgerAlwaysBalances`. `FetchInv` (what is
  fetched is one run of candles that ends at the newest, and the next page ends
  before it) is needed because `FetchedIsRecent` says nothing while paging;
  `BookInv` gives side, units and price of a position their signs; `AccountInv`
  keeps money and results equal for the futures and, for spot, no more money than
  results, since the whole number of units bought is rounded down. That spot
  balances exactly is `LedgerAlwaysBalances`, under `WholeQuantities` (no entry
  is rounded), which the quantities of the code, floats, come close to and all
  prices of the run satisfy. A slippage of the whole price (`SlipDen = 1`) is
  excluded: a sell would be free (section 6 names the missing check).
* **`DashboardProofs`**: `CacheStaysRecent` and `RedemptionsAreShown` from
  `OverviewInv` (who holds the lock is the one thread that reads; the ages of
  reading, time taken and change are ordered: a balance that differs from the
  cache changed after the first section was read). `DiskStaysConsistent` from
  `DiskInv`: `Refers` (what the locals of a thread name exists), `JobOK`, `Alone`
  (of the threads that generate, one owns a directory), `ListsWritten`, and that
  each file that cannot be read has its reason; that a torn file is among the
  spoiled is needed for a restart, which leaves no writer to blame.
  `AdviceAlwaysSound` from `AdviceInv`: a snapshot carries the money it has read,
  the stacks it has seen and scores that are numbers, up to the step that shares
  the money out; `Shared` says that what it wrote are shares by budgets or scores,
  and sums of rounded shares do the rest. `PlanAlwaysFunded` from `FundedInv`
  (what a scan carries to its file, and the file once whole, has a plan) and
  `BuildIsFunded`, which is the weight of it: ranking is a bijection between rows and
  places, so amounts may be summed in either order; the rounded shares of a scan
  account for the capital with its reserve; and the curve starts with all of it.
* **`OrderProofs`**, the rules: `SnapRounds`, `SnapTwice`, `PrepareTwice`,
  `PreparedIsOnGrid`, `NeverMoreThanAsked`, `AllowedIsWholeLots`,
  `MarketIgnoresLotSize`.

The library's induction theorems take an operator and cannot be used with these
provers. Where a proof needs induction (runs of a recursion, sums, pages) it takes
the least element of the set of counterexamples instead (`LeastNat`, `Induct`), and what is
recursive is written as a function (`Fractions`) or unfolded into one that satisfies
the recursion (`ObvRun`, `HeikinRun`; `RunUnfolds` and `RunExists` for any step). Sorts and filters are treated by counting: `At` and
`InOrder` give each element its place.

`PeriodAssumption` of `Signals` asks for periods of at least 1, and of at least 2 for `Period`
and `Slow`: `aroon` divides by `period - 1` (`builtin_strategies.py:281`).

`BarAssumption` of `BuiltinStrategies`: prices are whole numbers, no bar is lower at its high
than at its low, and a window of `RequiredBars` is longer than what any strategy looks at. Each `required_bars()` exceeds the
look-back of its own strategy, by three bars or more (`slow_period + 5`, `k_period + d_period +
10`, ...).

Two assumptions narrow what a scan may be given. `BacktestAssumption` of
`StrategyLab`: a completed backtest has numbers and a curve that starts with the
capital where it is complete (a depleted one has fewer points). `RequestAssumption`:
what is asked for are strategies, and weights are positive, as `_parse_manual_weights`
keeps them. `PlanIsFunded` leaves out one case that the code has: a strategy named
twice in a manual scan is funded twice.

Only model-checked: every liveness property (`SlotsReleased`,
`RestingOrdersTracked`, `UnknownResolved`, `StopHonoured`, `FailureRestarts`,
`StackStops`, `MemberEndStops`, `RequestsAnswered`, `RowRecovers`: fairness and
`ENABLED` are out of reach of the proof system). Every safety invariant and every action
property of a passing run is proved.

## 5. Assumptions that are not in the code

`AliveIsHealthy` needs heartbeat interval, longest backoff and startup
reconcile within `stale_after`. The defaults (30, 60 and 90 seconds) satisfy it
if startup takes at most 90 seconds; `runtime_profiles.py` requires positive
settings and ordered delays, and relates none of them to `stale_after`.
`SlotFreeWhenTaken` is true of one process: two processes on one database can both pass the gate.

## 6. Where code and documentation disagree

Four are runs that end in a counterexample; `PROJECT.json` quotes both sides.

1. `order_cap_broken`: a place-order request whose response is lost is written
   `SUBMIT_FAILED` (`service.py:467`), which frees its slot although the order
   rests at the exchange.
2. `daemon_restore_broken`: the snapshot is read after the new session has
   overwritten it (`daemon.py:87` before `:184`), so no state is ever restored.
3. `daemon_pump_broken`: an exception in a pump task is noticed by nobody while
   the runner waits on its queue.
4. `strategy_blocked`: `last_order_result` is never cleared, so the strategy
   sends one order per cycle and ignores every later signal.

Met while modelling, without a run of their own:

* exits to flat and the final mark of a backtest have no slippage
  (`research.py:286-290`; README.md:473 says per side); after `DEPLETED` the
  position is closed at the last candle of the history (`research.py:330-333`);
  `slippage_bps` of 10000 or more is not rejected;
* a quantity that snaps to 0 raises `ValueError` before anything is recorded,
  rather than a recorded rejection; a spot MARKET BUY may carry both a quantity
  and a quote amount, and the notional estimate looks at the quote only;
  `MAX_NUM_ORDERS` and `MAX_POSITION` are parsed and used nowhere;
* `on_start` takes the open candle as if it were closed; reports of foreign
  orders on the symbol overwrite pending id and position;
* a stack session stays `RUNNING` when a member fails while being stopped; a
  stop request in a backoff leaves a row `RESTARTING`; a member the stack cancels
  leaves its session open and its row as it was (`daemon.py:98-99`);
* a stop by name alone answers `STOPPED` or `ALREADY_STOPPED` and leaves the rows of a
  stack that was killed at `RUNNING` until they are stale (`dashboard.py:1217`); a stop
  signals whatever program has the process id by now (1186);
* the cooldown is measured from `updated_at`, which snapshots refresh too
  (README.md:49 "between accepted orders");
* `FuturesTradingService.reconcile` never queries rows that are no longer open
  (`service.py:942`), so `PENDING_UNKNOWN` (`exceptions.py:99`: "must be
  reconciled") and its slot stay for ever;
* where `MARKET_LOT_SIZE` has a `stepSize` of 0, a MARKET quantity is checked
  against no step at all (`filters.py:117`).

Strategy Lab and dashboard:

* `_generate_research_stack` writes back the result it read at its start, over
  that of a scan that finished meanwhile (`dashboard.py:1447`);
* `_write_profile_param` (1390-1394) loses one of two edits, and two writers or a
  kill leave a profile that cannot be read; nothing repairs it;
* a strategy named twice in a scan's list yields a stack that does not load: the
  generation answers with an error and leaves directory and stack file behind;
* a depleted backtest has a shorter curve: where it is not the first funded one,
  the scan fails with `IndexError` (1930), where it is, the curves are out of step;
* manual weights of strategies that failed take their share of the capital with
  them while the reserve is 0; a missing profit factor (no losing trade) makes the
  score 0, so a strategy that never lost is never funded;
* budget overrides of a start are written before the `ALREADY_RUNNING` check;
* suggestions are kept 1800 seconds by path alone, whatever the profile says by
  now; a snapshot writes their file, though README.md:234 says the dashboard does not
  "change runtime files until you click an explicit control";
  starting every stack with its suggested budgets commits the money once per stack;
* an overview that failed is cached like an answer; its sections are read at
  different times, so the sum may count a redemption twice or not at all.

Built-in strategies:

* README.md:297 counts 21 of them, the code has 30;
* averages seeded with the first bar (`ema_crossover`, the MACD, RSI and ATR
  families and others, the set `Seeded`) may say live, on a window, something else
  than in a backtest of the same candles;
* `chandelier_trend` buys where both its stops are crossed, and thresholds that
  a still market meets (`rsi`, `mfi`, `williams_r`: overbought without a loss) favour one side.

## 7. Not modelled

* Request signing (pure cryptography), logging, the HTML report, pages, cards,
  charts and the status log of the dashboard (rendering of rows), the command
  line, environment and presets (parsing; their values are the constants here),
  titles and sources of `STRATEGY_SPECS`.
* Of the REST clients: the three attempts of a public request and the cache of
  symbol rules, which is kept for ever. Of the streams: the growing delay and the
  futures listenKey; that its keepalive can end the pump is `PumpDies` of
  `StrategyDaemon`.
* Of research: annualised figures, benchmark, walk-forward folds (loops over what
  is modelled).
* Of the portfolio: locked positions, wallet totals and prices, which are shown
  and decide nothing.
* Of allocation: a manual weight that is given by the title of a strategy instead of its
  name (`dashboard.py:1838-1842`). Of the suggestions: the score of 1 for a profile
  that is not spot or lacks parameters; the profiles of the model have them.
* Failures of the database other than a kill, except in `StrategyDaemon`. Helpers of a line
  or two, and actions that repeat the lines of another mapped one, may have no
  entry of their own in the map.

Hazards that no property catches stand in `PROJECT.json` with the reason: two processes
at the gate of one journal; futures rows that nobody queries; a row left `RESTARTING`;
requests of the dashboard that overlap, and process ids of strangers; the candle at which a depleted run
is closed; the age of scores. Others are caught in part and say which.

## 8. Plan

The order lifecycle came first, because everything else exists to place orders;
then what keeps it running (daemon, stack), what decides on orders (strategy,
rules), what starts processes (control), research, the built-in strategies and
the dashboard with portfolio and Strategy Lab. What is left:

1. REST clients: the attempts of a public request, the rules cache against rules
   that change; streams with their delay and the futures listenKey
   (`futures_ws_user.py:53-56`).
2. `spot_builtin_persistent` as a composition of `PersistentStrategy`, `KlineFeed`
   and `Signals`.
3. `DaemonStack`'s member as an abstract specification that `StrategyDaemon`
   implements (row and end of the task).
4. Walk-forward folds as windows over `Research`.
5. A two-process instance of the gate, with the exact excess over the maximum.
6. `Dashboard` over `ControlPlane`: budgets written while a stack starts.
