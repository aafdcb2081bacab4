# Verification of the LIP market-making bot and its companions

This project models the repository's programs in TLA+. At its heart is the live
one, the LIP (liquidity-incentive) market-making bot for Kalshi under
`src/lipmm/` with its entry point `src/deploy/lipmm_run.py`; around it are the
services the bot consists of, and beside it the earlier bots and tools that the
repository still holds. TLC checks the models on small instances; TLAPS proves
every invariant it checks, from the order manager and the runner to the
services and the earlier bots, for every value of the constants.

The bot quotes two sides (bid, ask) of many strikes. Its difficulty is that
several asyncio tasks (the runner's cycle, the operator's HTTP requests,
background sweeps) work on the same orders, each waiting for an exchange that
may refuse, answer late or never answer, while the operator kills, pauses and
locks. The difficulty of the services is that each acts on something that is
old when it is used: a position, a book, a fair value, a program, a listing, a
snapshot.

## 1. Inventory

| part | source | state | module |
|---|---|---|---|
| Order manager | `lipmm/execution/order_manager.py` | `_resting`, a lock per key, cached cash | OrderManager, QuoteSlots |
| Exchange adapter, REST client | `lipmm/execution/adapters/kalshi.py`, `feeds/kalshi/client.py`, `rate_limiter.py` | token buckets; attempts of a call | OrderManager, RestClient, DefaultQuoting |
| Control state | `lipmm/control/state.py` | version, kill state, pauses, side locks, theo overrides, four layers of knobs, active events | ControlState, ControlTabs |
| Control server | `lipmm/control/server.py` | none of its own | ControlTabs, OrderTools, LipRunner, ExploitRunner, Broadcaster |
| Manual orders | `lipmm/control/manual_orders.py` | none | LipRunner, RiskGates |
| Runner | `lipmm/runner/runner.py` | cycle, position cache, books of the cycle | LipRunner, RiskGates, DefaultQuoting, CycleLedger, BotLifecycle |
| Deployment | `deploy/lipmm_run.py` | tasks of a session | BotLifecycle, LipRunner, TheoSources |
| Strategies | `lipmm/quoting` | sticky machine per side | DefaultQuoting, StickyDefense |
| Theo providers | `lipmm/theo`, `feeds/truflation/forward.py` | copies of a file, an endpoint, prices | TheoSources |
| Risk gates | `lipmm/risk` | counter of the cycle, last mids | RiskGates |
| Broadcaster, web | `lipmm/control/broadcaster.py`, `web/` | pool of tabs, last snapshots | Broadcaster |
| Exploit runner | `lipmm/exploit` | phase, ladder and legs of each market | ExploitRunner |
| Incentives, markout | `lipmm/incentives`, `lipmm/observability/markout.py` | programs, accruals, fills | CycleLedger |
| Logs | `lipmm/observability` | files by day, samples | DecisionFiles, EarningsLog |
| Earlier LIP bot | `deploy/lip_mode.py` | orders and prices by strike, sticky machine | LipMode, LipModeQuote |
| Soybean bot | `deploy/main.py`, `engine`, `hedge`, `state/positions.py` | open orders, positions, hedge trigger | GrainBot, PositionBook, GrainQuotes |
| Rewards web app | `mm-setup-main/kalshi_rewards_app.py` | bot settings, blocked markets, cached snapshot | PennyBot |
| Kalshi feeds | `feeds/kalshi/{ws,capture,store,events,lip_pool,lip_score}.py` | subscriptions, cursors, periods, windows | KalshiWs, FeedCapture, EventGrid, PoolStore, ScoreTracker |
| Scripts | `deploy/exploit_quick.py`, `deploy/truev_wait_and_reanchor.py` | outstanding orders; an anchor in a source file | QuickRounds, Reanchor |
| Exchange | external | open orders of the account | KalshiExchange |

How they interact. The runner reads the control state at the top of a cycle,
before every ticker, and after the strategy's decision; it calls
`OrderManager.apply` for each side, bid first. Manual orders call `apply` from
their own task. `cancel_order` takes the key's lock itself. A kill changes the
state at once and starts a background sweep: a batch cancel of the tracked
orders, then `reconcile`, which replaces the whole view and takes no lock.
`remove_event` does the same for one event's orders before it removes the
event. All state is in memory; after a restart the first `reconcile` is the
only source of truth. Fair values, books and positions flow into a ticker's
turn through the theo registry, the adapter and the position cache; the gates
see the strategy's decision; what rests at the end of the cycle is scored
against the programs; tabs are told of every command and of a snapshot every
few seconds. The earlier bots are programs of their own and share with the LIP
bot only the REST client.

What makes each part correct is stated with its properties in section 3.
`PROJECT.json` lists the hazards at their lines, with the properties that cover
them and, for four, why none does.

## 2. Modules

```
Strikes -- KalshiExchange -- OrderManager -- OrderManagerInv -- MCOrderManager
   |                          |    |              |
   |                          |    |              +-- OrderManagerProofs -- OrderManagerSafety
   |                          |    |                        |
   |                          |    +-- (INSTANCE) QuoteSlots|
   |                          |                             |
   |                          +-- OrderTools -- OrderToolsProofs
   |                                  |               |
   |                                  +-- LipRunner --+-- LipRunnerProofs
   |                                  |
   +-- ControlState ------------------+
            |
            +-- ControlTabs -- ControlTabsProofs

ExploitRunner, RiskGates, Broadcaster, StickyDefense, DefaultQuoting, CycleLedger,
DecisionFiles, TheoSources, RestClient, BotLifecycle, EarningsLog  -- MCLipServices
RestClient, RiskGates, BotLifecycle, TheoSources, ExploitRunner, StickyDefense,
DefaultQuoting, DecisionFiles, CycleLedger, EarningsLog, SumLemmas  -- ServiceProofs
CycleLedger -- MCCycleLedger

PositionBook -- GrainBot
LipMode, LipModeQuote, GrainBot, GrainQuotes, KalshiWs, PennyBot, PoolStore, ScoreTracker,
FeedCapture, QuickRounds, Reanchor, EventGrid  -- MCEarlierBots
all of these, SumLemmas  -- EarlierProofs
```

A module named `...Proofs`, OrderManagerSafety and SumLemmas hold theorems. A run checks an MC module, or the component's module itself where its
constants need no more than values.

### The order path

* **Strikes**: the keys, (ticker, side).
* **KalshiExchange** (external): the account's open orders and the effect of
  place, cancel, amend, fills and exchange-side cancels. Order identifiers are
  numbered in the order they are issued.
* **OrderManager**: `apply()` from await to await. A task runs without
  interruption between two awaits, so an action is that stretch of code. A
  call's frame is `call[t]`: `stage` is the await it is at ("queued" for the
  lock; "cancel", "amend", "replace", "place", "instead" for a request, named
  after the branch of `_apply_locked`; "list" for `reconcile`), `oid` the
  identifier it works on, `reply` the answer that has come. `Acquire` is the
  code from the lock to the first request, with its four branches; `Answer`
  is what the adapter can come back with, including attempts that are lost
  before or after the exchange executes them; `Resume` is the code after an
  answer. `Crash` loses memory and keeps the book.
* **QuoteSlots**: what `apply()` promises, without requests or identifiers: a
  slot per key, at most one quote in it, calls one at a time, and the only
  quote that can appear is the one asked for by the call in progress.
* **OrderManagerInv**: the inductive invariant.
* **OrderTools**: `cancel_order` (`FindOrder`, `PullOrder`, `OrderPulled`) and
  sweeps (`StartSweep`, the batch, the one-by-one fallback, `SweepRebuild`) as
  tasks beside the callers. The history variable `slipped` records that a tool
  has dropped an order that was newer than what it had looked at; `spared` records
  the orders that a sweep was to cancel and that its requests failed.
* **ControlState**: commands and reads. One knob stands for all of them: their
  layers are independent of each other. Time is `LockLapses` and
  `OverrideLapses`; what an expired lock does is in `DropLapsed`.
* **ControlTabs**: tabs that hold the last snapshot they were sent.
* **LipRunner**: composes order manager, tools and control state with the
  runner's cycle (`run.phase`: boot, asleep, refresh, quoting, applying) and
  with the operator's requests as tasks (`job`). The strategy and the risk
  gates may decide anything (`\E plan` in `Judge`).

### The services of the LIP bot

* **RiskGates**: `RiskRegistry.evaluate` with its five gates, called in the
  runner's rotated order once a cycle (`StartCycle`, `EvaluateTicker`) and by
  manual orders at any time (`ManualCheck`, cycle 0, no position). `cached` is
  the runner's position cache, which a failed refresh leaves as it was.
* **DefaultQuoting**: one ticker's turn from the raw book (`Bands`, own orders
  taken out) through the strategy's targets, caps, rounding and tick bands to
  what the order manager keeps, amends or places in cents (`QuoteTicker`).
* **StickyDefense**: one side of the sticky machine (`Raced`, relaxing, the
  duration breaker, the cooldown) with the clamps of `StickyDefenseQuoting`.
* **ExploitRunner**: `_advance` of a registered market, an await at a time
  (`tick.at`), while the operator starts, pauses, resumes, kills and removes it
  and the sweep of a kill works beside the tick.
* **Broadcaster**: broadcasts that write to the tabs one after the other and
  overlap; a tab that does not take a frame is dropped from the pool.
* **CycleLedger**: what a cycle accounts for: positions turned into fills, and
  the score of what rests turned into earnings, with programs that are cached.
* **TheoSources**: providers that poll a file, an endpoint or prices, and when
  they trust what they have (`Trusts`).
* **RestClient**: `_request` of several tasks over one token bucket: tokens are
  taken once, failures are retried after a growing pause.
* **BotLifecycle**: a session from the sweep of the last one's orders to the
  shutdown sweep, with the runner and the dashboard placing orders meanwhile.
* **DecisionFiles**: the decision log, its compression and eviction by a thread,
  and kills between any two of its steps.
* **EarningsLog**: samples of a total that starts again with every session.

### The earlier bots and tools

* **LipMode**: the cycle of `lip_mode.py`, its cancel-all (batch, then one by
  one, then a second look) and the repositioning of a side (amend, else cancel
  and place). **LipModeQuote**: its pricing of a strike.
* **GrainBot**: the cycle of `deploy/main.py`: clear the last cycle's orders,
  quote, poll fills, hedge, check the kill switch, and shut down or restart.
  It works on the positions of **PositionBook**. **GrainQuotes**: what the
  quoter wants, over the strikes of an event, around USDA releases.
* **PennyBot**: the threads of the rewards app; `App` builds a snapshot under
  its lock and keeps it for a few seconds.
* **KalshiWs**, **FeedCapture**, **EventGrid**, **PoolStore**, **ScoreTracker**:
  subscriptions across reconnects; polls over a list that changes; the grid of
  an event's buckets; reward periods from two sources; scores and their windows.
* **QuickRounds**, **Reanchor**: the one-shot trading script, and the job that
  rewrites the index anchor: each of its writes empties a file first, and its
  backup is named by the whole second (`second`), so that a later backup of the
  same second takes the place of the earlier one (`BackupOpened`, `BackedUp`).

Conventions. `None` is Python's `None`. The cash check is in integers
(`10 * committed <= 9 * cash`), `FullPrice` is the 100 cents a contract pays,
lowered in the runs to keep prices small. A lock or override is one of
"none", "held" (no expiry), "timed", "lapsed" (past its expiry, record still
there).

Abstractions that matter. Batch cancels are one step with respect to the
manager's view, and their outcomes are all, some, or an exception after some. A
batch that costs more than the token bucket holds (`BatchLimit` orders; 50 in
the code) is never sent and never raises: its sweep stays where it is
(`TooLarge`), as `batch_stuck` shows of the client.
A ticker that the ticker source leaves out (its event could not be listed, its
market is closed) is a ticker whose processing fails (`TickerFailed`): neither
changes anything. A risk veto of a manual order is a request that never comes.
The runner's `fail_loud_on_strike_error` is off, as it is deployed. The version
check of the commands that await before they change state is not in LipRunner:
an operator there sends no `if_version`. In the services, times are ticks
and money is cents or parts of a pool; a history variable (`tally`, `excuses`,
`evicted`, `missing`, `calm`, `dropped`, `clashed`, ...) is named as such where it is declared.

## 3. Runs

| run | what it asks | distinct states |
|---|---|---|
| `order_manager` | two callers on one side, two prices and sizes, a restart, requests lost: no double, no orphan, correct view, refinement of QuoteSlots, calls return | 80 k |
| `control_state` | all commands, locks that expire, a tab that lags | 313 k |
| `order_tools` | `apply`, `cancel_order` and a sweep whose requests fail, on one side | 458 k |
| `lip_kill` | a kill whose sweep's requests fail, manual orders, two strikes | 1.0 M |
| `lip_requests` | every request of the operator on one side | 1.3 M |
| `lip_live` | liveness of cycles, pauses and sweeps with failing cancels, two strikes | 61 k |
| `services` | the eleven services about the order path, each by itself | 340 k |
| `earlier` | the earlier bots and tools, each by itself | 0.9 M |
| `cancel_race` | finding: `cancel_order` forgets a newer order | violation |
| `fills_recorded` | finding: no fill is recorded | violation |
| `batch_stuck` | finding: a large batch waits for ever | violation |
| `grain_shutdown` | finding: a shutdown cancels nothing | violation |

Deadlock is checked but in the runs whose system stops at its bounds:
`services`, `earlier`, `fills_recorded`, `grain_shutdown`. The runs `services` and `earlier` put modules that share no state
side by side: a behaviour is that of one of them, chosen at the start (`part`),
and the others stay as they begin. So each module is checked by itself and
completely; nothing is claimed about their composition.

**Properties of the order path.**

* `OneOrderPerKey`, `NothingUntracked`, `ViewMatches`, `CallsReturn`,
  `ImplementsSlots` (OrderManager). `NothingUntracked` allows an order whose
  acceptance a call has in hand and has not yet recorded.
* `SafeUntilSlip`, `SweepsEnd` (OrderTools; `SweepsEnd` is checked of the composed
  bot). The tools do break
  `NothingUntracked`; `SafeUntilSlip` says that there are exactly two ways: a
  cancel that forgets an order placed since its lookup, and a sweep that
  installs a listing older than an order. `cancel_race` shows that the first is real.
  `SweepsEnd` says that a sweep ends whatever its cancels meet, the fallback that
  an exception cuts short included, unless its batch is larger than the bucket:
  that one waits for ever, and so does the kill or shutdown that started it.
* `KilledStaysStopped`, `OnlyLapsesUnseen`, `NarrowerWins` (ControlTabs).
  `OnlyLapsesUnseen` is what remains of optimistic concurrency: a matching
  version hides nothing but timed locks that have lapsed.
* `FewOrdersAfterKill`, `HandsOff`, `PauseClears`, `CyclesEnd` (LipRunner). Each
  names the exception the code makes: the sides of the ticker in progress, the
  ticker already checked when a lock is set, orders that slipped from view.
* `KillTriesEverything` (LipRunner): a kill does not empty the book, as its sweep is
  tried once, works from what is tracked, and takes any answer. What it does do is
  to try: an order from before the kill that still rests is one a sweep has still
  to come to, one whose cancel failed or was given up (`spared`), one that a call
  had in hand when the sweep looked (`missed`), or one lost from view before.

**Properties of the services.**

* `OvershootBounded` (RiskGates): by how much the position cap is exceeded at
  most, given that the gate looks at old positions.
* `ManualsUpsetOnce` (RiskGates): manual orders write to the gates that keep
  state. One resets the orders-per-cycle counter, which grants another cap
  (`CapHolds`). It also shows the mid-delta gate 50 cents, which can hide one
  move of the runner's fair value or show one that did not happen, and no more
  (`FewMisjudged`; the history `judged` keeps what the gate should compare with).
* `WithinTolerance` (DefaultQuoting): what rests is never beyond the fair value
  and the tolerance, in the cents that are compared, but at the ends of the scale.
* `ReleaseEarned` (StickyDefense): a race is given up only after its own calm looks.
* `BaitsKnown` (ExploitRunner): no order is lost from sight but those whose
  request in a tick failed, those whose cancel by a kill's sweep came back False
  while they rest (`PurgeEnds` forgets every order that has an answer, whatever it
  is), and takers that rest.
* `ScreensCatchUp` (Broadcaster): frames may come out of order; a tab that stays
  connected shows the state in the end.
* `EarnedAtMostPool`, `RatesAddUp`: what is shown as earned is bounded by what
  the programs pay and by what was counted.
* `ConfidentIsRecent` (TheoSources): the age that counts is the one since the value
  was last what the source showed. A file that nobody writes any more goes on
  showing its value; what then ends its use is the time since it was loaded,
  which is what `file.py` compares, although its text speaks of the mtime.
* `RateHolds` (RestClient), `LinesSurvive`
  (DecisionFiles).
* `LeftBehindExplained` (BotLifecycle): the four reasons for which an order
  still rests after the exit.

**Properties of the earlier bots and tools.** `ModeViewFaithful`,
`LeftoversExplained`, `OutstandingPulled` and `BotArbsExplained` say which
failures leave an order nobody looks after, and that nothing else does;
`RefreshedWithinTolerance` and `NoArbitrage` are about prices; `BooksBalance`
relates cash, cost and caps; `SubscriptionsKept`, `CaptureIsComplete`,
`OperatorsPoolsHold`, `SharesAreShares`, `GridPartitions` and
`AnchorRecoverable` say what a feed or a store may be relied on for. The last
has an exception of the code's own: two backups made in the same second have one
name, and the later may be a copy of a file just emptied by the job it overlaps.

**Bounds, and why they are enough.**

* Keys do not share anything in the order manager but the cash, so one side of
  one strike shows all interleavings of `apply`. The runner's runs have two
  strikes when a cycle must be caught between tickers.
* Two tasks contend for a lock; a third would wait behind the second. The
  runner is one task in the code too. One operator task and one sweeper: the
  requests of a second operator are those of the first at another time, except
  for two sweeps at once, which no run has.
* `MaxOrders` (2 or 3) orders are issued: enough for an order, its replacement
  and one more after a restart. When they are used up, placements are only
  refused or lost, so every call still ends.
* `MaxTries` 2 shows an attempt and a retry; the client's default of 3 adds
  nothing but another retry. `MaxCrashes` 1. `MaxSize` 2 allows a partial fill.
* Two knob values, so that an override of the wrong layer shows.
* `MaxVersion` (1 to 4) commands: kill, arm, resume and one more in the control
  state's run, two in those of the runner. Commands that
  the operator cannot send after it leave the liveness properties to hold for
  ever after, which is what they are about.
* `SweepFaults` is what the requests of a sweep may meet: a batch that leaves some or
  raises, single cancels that are refused, lost, or executed and not answered.
  `order_tools` and `lip_kill` have all of them, `lip_live` those after which a sweep
  goes on differently; `lip_requests` has none, as its property is about the
  runner's own requests. `BatchLimit` is 2 in `lip_kill`, so that both strikes'
  orders fit a batch and the fallback has two orders to come to, and 1 in
  `order_tools` and `lip_live`, so that a batch of two is too large.
* `lip_live` lets cancels and amends of `apply` be executed and not answered. It has no
  refused and no lost cancel: after one of these the skip path forgets an order
  that rests, nobody tries it again, and a paused side is not cleared.
* `Requests` selects the operator's requests of a LipRunner instance, so that
  each run's question stays small.
* The services and the earlier bots have one of what does not interact (a
  market, a side, a ticker) and two of what does (tickers under one cap, tabs,
  tasks at one bucket, jobs at one file, legs of a pair). Page and listing sizes
  are lowered to one, so that a second page exists; prices are few, chosen on
  both sides of every threshold the code compares them with, the ends of the
  scale included; cycles, restarts, polls and sweeps are two or three, which is
  one more than the longest-lived stale value needs. The `*Faults` constants say
  which requests may fail; each is a failure the code catches. The rewards app
  has only placements fail: lost cancels leave bids that the property does not
  distinguish.

**Fairness, and why the code justifies it.** A request is answered or raises:
the HTTP client has a timeout and bounded attempts (weak fairness on `Answer`).
The event loop resumes a task whose await is done (weak on `Resume`, on the
runner's phases and on sweeps). What waits for tokens is not answered: a batch
larger than the bucket (`TooLarge`) has no step that fairness could force. `asyncio.Lock` wakes its waiters first in,
first out, so a waiter is not passed over for ever (strong on `Acquire`).
LipRunner needs two assumptions about the world for its liveness: neither the
ticker source (`Refreshed`) nor the reading of any one ticker (`Judge`) fails
every time. In Broadcaster, a send ends by its timeout, the snapshot task comes
back every few seconds and an accepted tab is sent its first frame. In
RestClient time passes and tasks that can go on do; the request of
`batch_stuck` waits in spite of it. The operator's commands, the market, crashes
and expiry have no fairness.

## 4. Proofs

| theorem | property | module |
|---|---|---|
| `TypeCorrect`, `MutualExclusion` | `TypeOK`, one call per key | OrderManagerProofs |
| `Inductive` | `IInv` | OrderManagerSafety |
| `NoDoubledQuote`, `NoOrphan`, `ViewIsRight` | `OneOrderPerKey`, `NothingUntracked`, `ViewMatches` | OrderManagerSafety |
| `Implementation` | `ImplementsSlots` | OrderManagerSafety |
| `ToolsSafe`, `ToolsExclude` | `SafeUntilSlip`, one call per key | OrderToolsProofs |
| `KillLeavesLittle`, `KillTriesAll` | `FewOrdersAfterKill`, `KillTriesEverything` | LipRunnerProofs |
| `HandsAreOff`, `BotLosesNothing` | `HandsOff`, `SafeUntilSlip` | LipRunnerProofs |
| `TabsTypeCorrect`, `StaysStopped`, `OptimisticConcurrency`, `KnobPrecedence` | `TypeOK`, `KilledStaysStopped`, `OnlyLapsesUnseen`, `NarrowerWins` | ControlTabsProofs |
| `RateIsBounded` | `RateHolds` | ServiceProofs |
| `OvershootIsBounded` | `OvershootBounded` | ServiceProofs |
| `ManualsUpsetGatesOnce` (`QuotaIsKept`, `JumpsAreSeen`) | `ManualsUpsetOnce` | ServiceProofs |
| `NothingLeftUnexplained` | `LeftBehindExplained` | ServiceProofs |
| `TrustedValuesAreRecent` | `ConfidentIsRecent` | ServiceProofs |
| `BaitsStayKnown` | `BaitsKnown` | ServiceProofs |
| `RacesAreEarned` | `ReleaseEarned` | ServiceProofs |
| `QuotesStayWithin` | `WithinTolerance` | ServiceProofs |
| `LoggedLinesSurvive` | `LinesSurvive` | ServiceProofs |
| `EarnsAtMostThePool`, `RatesAreTheEarnings` | `EarnedAtMostPool`, `RatesAddUp` | ServiceProofs |
| `ModeBotKnowsItsOrders`, `RefreshStaysWithin` | `ModeViewFaithful`, `RefreshedWithinTolerance` | EarlierProofs |
| `GrainLeavesOnlyFailures` | `LeftoversExplained` | EarlierProofs |
| `BotMakesNoArbs` | `BotArbsExplained` | EarlierProofs |
| `ScriptPullsItsOrders`, `AnchorCanBeRestored` | `OutstandingPulled`, `AnchorRecoverable` | EarlierProofs |
| `CaptureMissesNothing`, `FeedKeepsItsSubscriptions` | `CaptureIsComplete`, `SubscriptionsKept` | EarlierProofs |
| `OperatorHasTheLastWord` | `OperatorsPoolsHold` | EarlierProofs |
| `CashAndPositionsAgree` | `BooksBalance` | EarlierProofs |
| `NoRisklessProfit` | `NoArbitrage` | EarlierProofs |
| `SharesStayShares` | `SharesAreShares` | EarlierProofs |
| `GridsPartition`, `BucketsCoverPrices` | `GridPartitions`; one bucket for every integer price | EarlierProofs |

They hold for every set of tickers, tasks, prices, events, tabs and values of
the bounds, under the named ASSUMEs of the modules (which TLC evaluates in
every run that extends them).

*Order manager.* `TInv == TypeOK /\ Shape /\ Locks` is inductive whatever the
faults: the lock of a key and the call inside its critical section name each
other. From it `TypeCorrect` and `MutualExclusion` follow without any
assumption on the faults. The safety results need `BenignFaults`: no placement
is executed unanswered, no cancel of a live order is refused or lost before the
exchange, and no startup listing fails. The
assumption is not idle: after such a fault the view and the book part, and the
code does double or lose an order (section 5). All other
faults, amends and cancels that are executed but unanswered and placements that
never arrive among them, are covered. Beyond `TInv`, the invariant
`IInv` says that before the startup listing nothing is tracked (`Boot`), that
identifiers are issued once (`Ids`), that what is tracked on a key was issued
for it (`View`), that a startup listing covers the book even though fills
continue (`Listing`), and what each stage of a call knows (`Work`): a call that
cancels or amends works on the order its key tracks, and a call that places
works on a key where nothing rests but the order it has just been told of.
`OneOrderPerKey` alone is not inductive: that a placement meets an empty side
is `OnEmpty`, which in turn needs that a returned cancel means the order is
gone (`OnTracked`).

The refinement maps a slot to the order that rests on the key, and the target
to the decision of the lock's holder. Answers map to `Quote` or `Clear`,
acquiring and releasing to `Begin` and `End`, fills to `Clear` and `Shrink`,
restarts to `Restart`, and everything else to stutters. `EnterUnlocked`, a
mutant that drops the lock, shows what would break it.

*Tools.* `ToolsInv` is `IInv` carried over to callers, cancellers and sweeps on
the same keys: `ToolsShape` (locks, frames, identifiers) holds whatever slips;
`Safe` and `SkipOK`, which say that the book is tracked and that every frame is
aimed at what rests on its key, hold until `slipped`. A tool's step either keeps
them or sets `slipped`, and that is the theorem: there is no third way to lose an
order. Nothing can be said after a slip, since the next `apply` may double the
quote. The assumption is `NothingLost`: like `BenignFaults`, but a sweep's own
requests may meet any fault, and the startup listing may fail.

*The bot.* `KillLeavesLittle` counts: `issued - atKill` on its own is not
inductive, so `KillBound` adds to it the calls that could still place
(`CouldPlace`) and the sides the runner has still to apply (`MayPlace`), and
says that the sum, which a placement leaves as it is, is at most what was owed
at the kill. It needs `PlacesOnce`: a placement is tried once, or the exchange
answers every placement it executes; otherwise the client's retry may place
twice for one decision. `HandsAreOff` follows from `HandsInv`: a side that is
locked while the runner is applying, and that it has still to come to, was
locked after it looked. `LipUnslipped` is the invariant of the tools for the
composed bot; startup is a sweep there, as manual orders are accepted before it.
`KillTriesAll` rests on it: a sweep's list is what is tracked when it starts, and
only because nothing has slipped does that hold every order that rests but those
in the hands of a call. `KillInv` adds to `KillTriesEverything` that a sweeper with no sweep, or with one
still to start, is idle. The assumption is `NothingLost`, and no request of a
sweep itself is assumed to succeed.

*Control state.* `KilledStaysStopped` becomes inductive as
`StoppedIsPaused`: killed or armed implies globally paused. For
`OnlyLapsesUnseen`, every command raises the version, so a tab that matches
afterwards does not exist unless it was refreshed, and what happens without a
new version (expiry and its lazy removal) is what `SeesAllButLapses` allows.
`KnobPrecedence` is an action property, from the choice of the lowest layer.

*Rate limiter.* `spent <= Burst + window` is not inductive: a full bucket may be
spent at once. What the bucket would hold after a refill counts too,
`spent + Refilled <= Burst + window` (`RateInv`): a request moves tokens from the
second summand to the first, a tick adds at most one to each side, and a wait or
a look at the bucket stores what `Refilled` says already.

*Risk gates.* A ticker that has had its turn may have a fresh quote beside the
position it was checked with; one that has not is a quote short of that.
`ReachInv` therefore distinguishes tickers still in the cycle's queue: if the
cached position of such a ticker is below the cap, position and quote are
below the cap by one quote more than the bound allows. A new cycle gives every
ticker its turn back and refreshes the cache, which restores that; a failed
refresh or a manual order adds a quote to the bound. That a ticker has one turn
a cycle is `NoRepeats`, kept by `Rotated`. For the quota, the gate's own count
bounds what it may still grant while it belongs to the cycle (`CapInv`), and a
manual order that resets it pays with another cap. For the mid-delta gate, the
tickers whose stored value is not the runner's own count as misjudged already
(`MidInv`): a manual order adds one at most, and the runner's next look at the
ticker, right or wrong, stores its own value again.

*A session.* `LifeInv` says at each stage of a session what every order on the
exchange is: tracked, unanswered, or excused; from the recount on tracked no
longer counts; at the end neither does unanswered. The module takes it that the
runner's task does not end with an exception, which would skip the shutdown's
sweep (`lipmm_run.py:632` catches the timeout only): what its cycle, its listing
and the providers' warmup and shutdown raise is caught where it is raised, and
the strategies' warmup and shutdown are empty.

*Fair values.* A value may be trusted long after it was read, so `TheoInv` says
of every copy when its version was last shown (`ShownAt`), of every reading under
way that it was shown when the poll left or later, and that no poll takes longer
than `SlowestPoll`.

*Exploit runner.* A ladder that starts forgets the bait of the last one. `ExploitInv`
says that the phases in which that happens have none, and that a tick between
two of its requests has cleared the bait it is about to replace, although the
operator may pause, kill and restart the market meanwhile.

*Prices.* `StickyInv` bounds the machine's own count of calm looks by those of
the present race. `QuotingInv` and `RefreshedWithinTolerance` are about one turn,
so little is to be strengthened; the work is in the lemmas about rounding to
tick bands, clamping and capping.

*Logs.* A line is readable while its day's log or a whole compressed copy is
there. `FilesInv` says that what a sweep has still to compress are whole logs of
closed days, each listed once, that a log about to be unlinked has a whole copy,
that a compressed file holds nothing its log does not (so that one cut short
may be overwritten), and that whatever the sweep has read, it evicts nothing of
the day or later.

*Earlier bots and tools.* In `ModeInv` a strike that is being repositioned, and
the orders a flush has not come to, are the exceptions, stage by stage.
`GrainInv` says the same of a cycle: until it has cleared, an order is one it
still has to cancel or has missed; afterwards it is the cycle's own, or missed.
`PennyInv` relates the bids on the book to the snapshot the bot decides on: a
snapshot that counts as fresh while the bot sleeps has all its bids, and in a
cycle a bid is in the snapshot or was placed since. `QuickInv` says which baits
the script knows at each stage; `ReanchorInv` that, as long as no two backups have
had one name (`clashed`), every backup still being filled has a name of its own
(`OwnBackups`), and some backup is whole (`WholeBackup`) or no job has touched the
file yet (`Untouched`); `CaptureInv` that a market of a walk is still to be
asked, missed, or stored; `PoolInv` only adds the types, as every step that
writes a row applies the operator's entries last; `WsInv` carries what was asked
for through a reconnection: what is subscribed and what is still to be are
together all that was asked for and not dropped.

*Sums.* Money, scores and exposures are sums over finite sets, as the module
Functions defines them: an element chosen, and the rest, by a recursive function.
Induction over such a set needs a theorem with an operator parameter, so
`SumLemmas` argues by the least counterexample instead: among the sets for which
a sum is not what it should be there is one of least size, and one element less
makes it smaller. From this come the type of a sum, that an element may be taken
out or changed, that sums of equal functions are equal, and bounds.

*Accounts.* For a fill, `BooksBalance` is a case split on the side it takes the
position to: the cost that is closed is rounded, but what is realised and what
is left differ by the same cent, so no rounding is lost. How a half is rounded
(`TieUp`) is left open, as the quotient is a float. `LedgerInv` adds the types to
`EarnedAtMostPool`; the work is that a side's qualifying orders weigh no more
than all of them, so a share is at most the whole. In `EarningsInv` what the
windows count and what has accrued since the last sample are together at most
what was earned. A window of scores is a suffix of the snapshots by time
(`ScoreInv`), so dropping from its front drops exactly the old ones.

*Quotes and grids.* Quotes are made from the lowest strike up, each capped by the
least bid and the least ask below it; `NoRisklessProfit` follows for all pairs,
as the function over the strikes exists whatever their number (again by the
least counterexample). For the grid, edges that meet pairwise rise, so of two
buckets only one holds a price (`EdgesRise`, `AcceptedDivides`); conversely, in
sorted buckets that hold every price about a strike once, each ends where the
next begins (`OrderedAccepted`), so that nothing that divides is refused.
Sorting is a permutation into which equal buckets may fall in any order.

*Assumptions on constants* that the proofs need and the code gives: the strikes
of an event and the events are sequences without empty members
(`ModeAssumption`), lists of markets are sequences (`CaptureAssumption`), the
prices the rewards bot sees and moves to are whole cents in 1 .. 99, best bid
below best ask (`PennyAssumption`, `kalshi_rewards_app.py:728`), the channels a
caller subscribes to are different (`WsAssumption`), operators and sweeps are
finitely many (`RunnerAssumption`), markets and strikes too (`PositionAssumption`,
`GrainQuotesAssumption`), ladders and tops of a book are in whole cents
(`LedgerAssumption`, `ScoreAssumption`, `QuoterConfig`), discounts are natural
numbers (the powers of the discount factor, scaled), and an event has a strike (`GridAssumption`).

*Only model-checked:* liveness under fairness (`CallsReturn`, `SweepsEnd`,
`PauseClears`, `CyclesEnd`, `ScreensCatchUp`), which is beyond TLAPS. Every invariant and every action property of the passing runs is
a theorem.

## 5. Findings

Each is a violation run whose trace is the code's behaviour; `PROJECT.json`
quotes the sentences they contradict.

1. `cancel_order` forgets an order that replaced the one it cancelled.
2. No fill is ever recorded by the markout tracker: the books it takes a proxy
   price from are dropped at the top of the cycle.
3. A batch cancel of more than fifty orders waits for tokens for ever, so the
   sweeps of a kill and of a shutdown do not reach their fallback.
4. A graceful shutdown of the soybean bot cancels nothing after a complete cycle.

Met while modelling, plain from the code and without a run of their own:
`apply()` does not recover from a placement whose answer is lost, though
`order_manager.py:19` says so (the proofs assume it away in `BenignFaults`); the
cash check ignores placements on their way; the lapse of a lock bumps no
version; a cancel that raises ends the one-by-one fallback of a sweep; a kill
can leave an order resting for as long as the bot is killed; the startup
reconcile may fail and the bot quotes all the same; manual orders are accepted
in ARMED; the runner passes `bid_overrides` to every strategy and
`StickyDefenseQuoting.quote` does not take them; the sticky machine's duration
breaker is not reached while a race goes on; `check_pre_trade` is called by
tests only, and takes what is added to a short for sold at 100 less its price, so
that below 50 cents it lets a worst case pass beyond the cap
(`engine/risk.py:406`; by how much is in `BooksBalance`); an unchanged theo file goes stale after three refreshes; a manual
theo override never does; the trades cursor of the capture is shared by all
tickers; the histogram of earnings is not covered by retention; the exploit
runner's `cancel_all_resting` says that it cancels every resting exploit order and
forgets those whose cancel came back False (`exploit/runner.py:91`); the reanchor
job's "atomic backup-validate-replace" (`truev_wait_and_reanchor.py:6`) writes in
place, and of two jobs that make their backups in the same second the later may
leave no whole anchor anywhere.

## 6. Not modelled

* Authentication, audit, request schemas, HTML: no state of the control loop.
* Pricing models, densities, volatilities, fees, attribution, and the values of
  theos: floating-point arithmetic. Where a decision depends on a value, the
  value is any input.
* The fetchers of CME, USDA, weather, Pyth and Trading Economics data, the
  prototype under `trufaidp`, research, notebooks and fitting scripts: input,
  output and arithmetic without state shared between tasks.
* Compositions: the runner's cycle is composed with the order manager, the tools
  and the control state, but the gates, the strategies, the ledger and the
  session's life are modules of their own, each with what it needs of the cycle.
* Sequence gaps of the websocket (only logged), delayed markout samples, the
  heartbeat of the broadcaster, knob overrides of gates, `kill_all` of the
  exploit runner, which `lipmm_run.py` does not start.

## 7. Next

The commands that check a version and then await, joined to LipRunner; the
composition of the ledger and the gates with the runner's cycle.
