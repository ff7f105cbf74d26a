# A TLA+ model of hyperkaehler

Hyperkaehler is a trading bot for Manifold Markets. One Go process scans
markets, lets strategies produce signals, sizes them under risk limits, places
bets and records them in SQLite; it also collects market snapshots, which a
second process can replay as a backtest. Shell scripts keep the bot running.
This directory holds TLA+ modules for these parts, TLC configurations that check
them on small instances, and TLAPS proofs of what holds for every instance.

Check a run with `tlc -config MCTradingCycle_faults.cfg MCTradingCycle`, a
module of proofs with `tlapm TradingCycleProofs.tla`.

## 1. The system

| part | source | state | operations |
|---|---|---|---|
| portfolio | `internal/risk/portfolio.go` | balance, investment value, total | Refresh: two API calls |
| risk manager | `internal/risk/manager.go` | peak balance, total exposure, exposure per market | CanTrade, SizeSignals, RecordTrade, Refresh, SetMarketExposure |
| executor | `internal/execution/executor.go` | failures per market and answer | Execute, recordBet, EnsureMarketExists |
| scheduler | `internal/scheduler/scheduler.go` | three tickers, the context | Run, runTradingCycle, loadMarketExposure, runCollection, runPerformanceReport |
| scanner | `internal/market/scanner.go` | none between calls | ScanBinary, ScanMultipleChoice, ScanAll, enrichWithProbs, enrichWithResolution |
| collector | `internal/collector/collector.go` | none between calls | Collect: upsert and snapshot per market |
| backtest | `internal/backtest/runner.go` | a virtual portfolio and a risk manager of its own | Run |
| database | `internal/db` | `markets`, `market_snapshots`, `bot_bets`, `bankroll_snapshots`, `active_orders` | Open, Migrate |
| strategies | `internal/strategy` | none | Evaluate |
| performance | `internal/performance` | none | Generate, LogReport |
| cache | `internal/market/cache.go` | markets with their time | SetAll; Get and All have no caller |
| supervision | `run.sh`, `healthcheck.sh` | the PID file | start, wait, restart; check every five minutes |
| maintenance | `rotate-logs.sh` | none | trims snapshots older than 90 days |

How they interact. `main` wires one object of each and runs `Scheduler.Run`. A
trading cycle is sequential: refresh the portfolio, refresh the manager from it,
load the exposure per market from `bot_bets`, scan, evaluate, size, ensure the
markets, place and record each bet, and only then tell the manager what was bet.
Collections and reports run in the same goroutine, between two cycles. There is
concurrency inside a scan (one goroutine per candidate market), between the
signal handler and the loop, between the processes on one database file (bot,
backtest, trimming) and between the scripts and the processes they watch.

What is hard here:

* the exposure of a bet is kept in several places that are updated at different
  times: SizeSignals' own map, the results of Execute, the manager's two
  figures, `bot_bets`, and Manifold itself;
* every step of a bet can fail alone: the query of the exposure, its rows, the
  insert of the market, the reply of the API, the insert of the bet; most of
  these errors are logged and the cycle goes on;
* the process may die anywhere, and only the database survives;
* the loop takes any ready case of its `select`, cancelled or not;
* the PID file is shared by two scripts and outlives the process it names;
* the account and the markets are read by several requests each, and do not
  stand still in between: a fill is counted twice or not at all, an answer has an
  old price and a new resolution; each request can fail or leave something out;
* four strategies judge the same markets without knowing of each other, and a
  limit they compute is rounded to whole percents when it is sent.

What makes each part correct:

* risk manager, executor and cycle: no bet goes over the cap of its market by
  what the process knows; what it knows covers what is recorded; the total limit
  holds or is missed by a bounded amount; a blacklisted bet stays so; every bet
  placed is a row;
* loop: a signal ends the process, no ticker starves;
* portfolio and breaker: the breaker stops what is down from its peak and
  nothing else, up to the errors the two reads can make; the reported drawdown
  is one the account went through;
* scanner: no send on a closed channel, no deadlock, no result lost; a resolved
  answer is bet on only when Manifold did not tell;
* strategies: a fair market is left alone, nobody bets against himself, and a
  limit keeps its edge when it is rounded;
* collector: what has a snapshot can be read back;
* backtest: each snapshot is replayed once; the limits hold over the replay;
  simulated bets do not count as real ones;
* supervision: one bot, and no more than one more for each time the scripts are
  started, stopped or killed by hand; and always one again.

## 2. Modules

```
RiskSizing ------------ Portfolio           operators only
   |    |  \             /     |
   |    |   TradingCycle       |   ---refines--->  BetLedger
   |    |        |             |
   |    |  TradingCycleProofs  |
   |    +-------------- DrawdownBreaker - DrawdownBreakerProofs
   |
   +-- Strategies (operators) -- SignalScan - SignalScanProofs
   |
   +-- Backtest -- MarketStore
          |
     BacktestProofs

ResolutionFetch   ---refines--->  AtomicFetch
   |
ResolutionFetchProofs

SchedulerLoop - SchedulerLoopProofs     Supervisor - SupervisorProofs

SharedLemmas: induction, and the sizing of a signal, for the proofs of
TradingCycle, SignalScan and Backtest
```

An `MC` module per specification gives the constants their small values.

**RiskSizing** is the arithmetic of `manager.go`. Mana is a natural number and
limits are whole percents, so `floor(x * pct)` is `(x * pct) \div 100` and no
comparison rounds. Probabilities are whole multiples of `1/One`; `One` is 100 in
the cycle and 1000 where prices are judged. The code computes the same in
`float64`; a result that float rounding would tip over a boundary is outside the
model. `CanTrade`, `SizePosition`, `ApprovedAmount` carry the names of the code.
In the Kelly formula the net odds are eliminated: `(b p - (1 - p)) / b` with
`b = 1/price - 1` is `(p - price) / (1 - price)`.

**Portfolio** has one operator per outcome of `Portfolio.Refresh`, the nil
portfolio that leaves two figures of the last refresh in place included.

**TradingCycle** is one process and its cycle. `pc` walks through `refresh`,
`load`, `evaluate`, `size`, `ensure`, `execute`, `record` back to `idle`; `down` is
between two processes. SizeSignals is one action per signal, Execute one action
per API call and one per insert, so that a crash can fall between them. What
`executeSingle` returns is kept in `booked` until `RecordTrades`, as the slice
`results` is in the code. `bot_bets` is `ledger`: the sum of unresolved rows per
market, which is all the bot reads of it. Nothing in the code ever sets
`resolved`, so it only grows. The strategies are the choice of a batch. `Faults`
names the faults an instance allows: `noPortfolio`, `nilPortfolio` (GetUserPortfolio
fails, returns nil), `load`, `rows` (the query of the exposure fails, loses
rows), `ensure`, `record` (an insert fails), `lost` (PostBet succeeds and its reply is
lost), `crash`. Rejected bets and failed user reads need no permission: they may
happen at any time.

**DrawdownBreaker** is the account as it is beside the bot's picture of it. `cash`
and `invested` move at any time, also between the two requests of a refresh;
`ReadUser` and `ReadPortfolio` are those requests with every outcome, `peakBalance` is
the manager's, `snapshots` are the rows of `bankroll_snapshots` across restarts, and
`ReportsDrawdown` is what the tracker computes of them. Ghost variables measure
what the properties speak of: the account's highest value, the error of the
reads (`slip`), the cash that moved between two requests (`drift`).

**Strategies** has the four strategies as operators from a market to a set of
signals, with the thresholds of the `[strategy]` section in the record `Config`.
Where the code divides, the model compares fractions: `p - p/total >= 0.03` is
`100 p (total - One) >= 3 One total`, and a limit is a pair of numerator and
denominator until `Rounded` does what `executeSingle` does. Whether a question
names a date is part of the market.

**SignalScan** runs them on what the scan found. A multiple-choice market is read
three times: the search (no prices), a batch of prices, a request for its
resolutions if it is a candidate. `Change` may trade or resolve its answers, or add one,
between any two of them, `ReadPrices` and `Fetch` may leave markets or answers out.
`partial`, `moved` and `late` note which markets had such bad luck. `WithPrices` leaves out
the price of the market itself (`mp.Prob`), which no strategy reads of a
multiple-choice market.

**BetLedger** is what the cycle promises of the ledger: a market's sum grows by
one bet at a time, and only within the limit in force when the bet is made.

**SchedulerLoop** is `Scheduler.Run` with the goroutine of `main`. Tickers and the
signal channel have one slot each; a tick that finds it full is dropped.

**ResolutionFetch** is `enrichWithResolution` at the granularity of channel
operations: semaphore, WaitGroup, the closing goroutine, the draining caller.
**AtomicFetch** is what the scan relies on, and what SignalScan takes for granted: each
request is answered in one step, with resolutions or with nothing, and the scan goes
on when all are. A request counts as answered when `GetMarketByID` returns; what
the scan was told is, once it goes on, what was applied.

**Supervisor** is `run.sh` and `healthcheck.sh`. The PID file names run.sh or the
bot, and `stranger` says that its PID was given to an unrelated process. The first
run.sh is started by its operator, who may start more (`StartByHand`). The check is
three steps, `CheckLooks`, `CheckRemoves` and `CheckStarts`, and the scripts go on between them. A
stop is two: `Cleanup` is the signal that the trap sends and `RemoveFile` the removal of
the file. The trap is armed before run.sh writes its PID, so `Cleanup` may come at
every place of the script. Until the bot's PID is written the file names a run.sh,
most often the one that is stopped: it then signals itself from its own trap, again and
again, until its shell is gone, and the file is removed or not (bash 5.2 does not get to
the removal).

**MarketStore** is what is written to `markets` and `market_snapshots`, statement
by statement: the collector, EnsureMarketExists, the nightly trimming. Of a row
it keeps whether `resolution` is NULL, because that is what decides if the backtest
can read it. **Backtest** composes it with the replay by the second process and
with the table of bets they share.

Definitions marked *Faulty* stand next to the definition they could replace.
They belong to no specification. Each is the definition with a plausible mistake
in it, and with it TLC finds the property of `PROJECT.json`'s `mutants` violated:
they show that the properties can tell.

## 3. What is checked

Runs that pass:

| run | bounds | shows |
|---|---|---|
| cycle_faults | one market with two answers; an account that grows, invests and loses; three faults of every kind | no bet over the cap by what is known; knowledge covers the database; a bet still fits when it is posted; the blacklist holds |
| cycle_ledger | two markets, accounts just under the total limit among others, two faults | the recorded bets implement BetLedger; until the first fault every bet is a row and within the cap; how far a cycle can overshoot the total limit |
| breaker | an account of 7 mana, most of it cash or most of it invested, three changes, two rows | the breaker means a loss and holds, up to the errors of the reads; complete reads err by the cash that moved; a reported drawdown was one |
| signals | two multiple-choice markets with 15 and 2 sets of answers, one change, a batch per market; 96 binary markets around every threshold; the thresholds of the strategies in `config.toml`, every strategy on, `min_edge` 0.01 instead of 0.03, so that more signals count as sized | limits keep their edge; no opposing bets; resolved answers only when unseen; fair markets left alone |
| loop_live | no parameters | a signal ends the process; no ticker starves |
| fetch | four candidates, two slots, any of them failing | the channel protocol; no result lost; the scan returns; ResolutionFetch implements AtomicFetch |
| supervisor_scripts | three runs of run.sh, two faults of a start, stop or kill of run.sh, a reboot and a reused PID | one bot, and one more at most for each time run.sh is started by hand, stopped or killed; with cron the bot comes back through all of it, unless a process with its PID lasts for ever |
| backtest_replay | two markets, three seconds, one fault, one live bet | snapshots can be read back and are replayed once; the market cap over the whole replay |

The bounds are small because the interesting cases are: a cap is reached by two
bets of a cycle or by one of each of two cycles, a blacklist by three failures,
total exposure is overshot by the second bet; a peak, a fall and a
recovery are three changes; a market is misread by one change between two
requests; a semaphore and a channel need more
goroutines than slots. `BotsBounded` counts the first run.sh among those started by hand,
and two bots already need no fault: a check that comes before run.sh has written its PID.
One more fault makes three, so the scripts run under three names, and the run
reaches its bound. TradingCycle needs no bound on cycles: caps make the
ledger finite. Where the bound is on faults, the theorems below hold without it.

Runs that end in a violation show where the code does not do what the
repository says; `PROJECT.json` quotes the sentence for each.

| run | the code | what is said |
|---|---|---|
| cycle_total | every bet of a cycle gets the whole remaining budget | at most 50% deployed |
| signals_sized | a quote has the price itself as its confidence, and so no size | limit orders on both sides of the market |
| supervisor_norestart | `wait ... \|\| true` hides the exit code | auto-restart |
| backtest_ledger | simulated bets are rows of `bot_bets` | a table of their own |

Some behaviours are not runs of their own and show as the premise a property
needs; dropping the premise gives the counterexample:

* a bet whose reply is lost is made again and goes over the cap, and a crash
  between PostBet and the insert loses the row (`faults = 0` in
  `CappedUnlessFault` and `RecordedUnlessFault`);
* a failed load after a restart leaves an empty exposure map, and the cycle bets
  again in a market at its cap ("at most 10% per market" is `CappedUnlessFault` for
  that reason, and `KnownExposureCapped` speaks of what the process knows);
* a failed request for resolutions makes resolved answers look open to arbitrage
  ("Filters out resolved answers" is `ResolvedOnlyIfUnseen`);
* a market that changes between the request for its prices and the one for its
  resolutions looks mispriced though it never was: when one answer resolves, the
  old prices of the others stay (`moved` in `FairMarketsLeftAlone`); a reply with the
  prices of some answers only has the same effect (`partial`), and so has an answer
  that is added after the search listed the others, whose price is dropped (`moved`);
* a restart forgets the peak: a bot that was halted by the breaker trades again
  once its process is started anew (`seen`, not `highest`, in `BreakerHolds`), although
  the README says the breaker "halts all trading" and the rows that could tell
  are in `bankroll_snapshots`. A restart forgets the blacklist as well, the entries
  that the code calls permanent included (`BlacklistHolds` is about one process);
* a failed portfolio request makes the balance the total, which can halt the
  cycle without a loss; a fill between the two requests can be counted twice and
  raise the peak for good (`slip` in `HaltMeansLoss` and `BreakerHolds`);
* a process that was given the PID in the file keeps healthcheck.sh from starting
  anything for as long as it lives (`<>[]stranger` in `BotComesBack`);
* a check cannot tell a stop by the operator from a crash, and starts run.sh again
  within five minutes (`CheckLooks` needs no failure);
* an operator who stops run.sh does not wait for the bot, and the next check starts a
  second one; a run.sh that is killed, or stopped and signals itself, before it wrote
  the bot's PID leaves a bot that nobody can see; a check just after a start by hand
  does not see that run.sh and starts another; and the removal of the file, by a stop
  or by the check, can hit the PID another run has written meanwhile (`mishaps` in
  `BotsBounded`).

More follow from reading a definition. In SchedulerLoop a tick may win over a
cancelled context, since `select` takes any ready case, and the first cycle does not
look at the context. In Backtest `Refresh` forgets the exposure at every timestamp, so
the total limit of 50% holds per timestamp and not over the replay; the strategies
it calls compare dates with the present and not with the timestamp, and its
markets have no answers, so arbitrage never signals there. In Strategies,
`Underpriced` includes a deviation of exactly the configured one above 1, whose edges
are negative and come to nothing; an answer without a price counts as pinned;
a fair market with very many answers can look mispriced, because answers under
0.001 are left out of the sum (with the shipped deviation of 0.10 that takes a hundred
of them, which is why `FairLeftAlone` has a premise on the number of answers);
and a market whose answers are independent questions is judged like one whose
prices must sum to 1, since the scan does not keep that difference. With
the thresholds of `config.toml` a mispricing signal has at most 0.02 of edge, less than
the `min_edge` of 0.03, so it is never sized either.

Deadlock is checked for TradingCycle, which always has a next step. The other
specifications end, by shutdown, by the end of the scan, by a clean exit, or
where the clock stops; DrawdownBreaker goes on for ever and is checked too.

## 4. Fairness

* SchedulerLoop: the goroutines run, jobs end, and each case of the `select` is
  taken if it is ready again and again (strong fairness): Go chooses among ready
  cases with uniform probability. TickerFires and SignalArrives have no fairness.
  Jobs end because every API call returns, which the client library decides.
* ResolutionFetch: goroutines that can run do, and requests come back. Channel
  and semaphore need only weak fairness here because each waits for a state that
  stays once reached, or for a slot that all holders give back.
* Supervisor: scripts go on, cron keeps calling, a signalled bot ends. Faults and
  the failure of the bot have no fairness. A check is over when the next one comes,
  and a run.sh that a check started is then past the writing of its bot's PID, as it had
  five minutes for it (`FiveMinutesLater`). Of a run.sh started by hand nothing of the kind
  is assumed: the check may come at any of its steps.

## 5. What is proved

`TradingCycleProofs`, for every configuration, signals, accounts and number of
faults:

* `TypeCorrect`. Amounts stay natural numbers because a position below the
  minimum bet is rejected and the cap leaves a positive remainder.
* `ApprovedBetsAlwaysFit` and `KnownExposureAlwaysCapped`. That a bet fits when it is
  posted is not inductive: it was decided when the bet was sized. The invariant
  (`CapInv`) says of the whole queue that each bet carries the exposure it was
  sized against, that this includes every earlier bet of its market in the queue,
  and what was booked since. `Phases` says which variables are empty in which phase.
* `MemoryAlwaysCoversLedger`, if rows are never lost while loading. The ledger
  grows in the same step as `booked`, so a refused row only widens the gap.
* `OvershootAlwaysBounded`. `SmallBets` gives each approved bet a bound against the
  budget of the cycle, `OvershootInv` adds them up bet by bet.
* `LedgerImplemented`: TradingCycle implements BetLedger when the load cannot
  fail (`load`, `rows` are not in `Faults`) and the cap per market is on. A bet is
  within the cap by memory, and memory covers the ledger.
* `BlacklistAlwaysHolds`, an action property: `sized` is drained by Skip alone.
* `EveryBetAlwaysRecorded`: until the first fault every bet is a row between two
  cycles, because every market of the queue is known once EnsureMarkets is done.

* `CappedAlwaysUnlessFault`: until the first fault memory and ledger agree, and
  no market's bets exceed its cap.

`DrawdownBreakerProofs`, for every account and every sequence of changes:

* `TypeCorrect`; the peak is never below the value a decision is made on.
* `ReadErrorAlwaysBounded`. Between the two requests the error of the picture is
  at most the cash that moved since (`ReadsInv`), as the triangle inequality
  adds one change at a time.
* `HaltAlwaysMeansLoss` and `BreakerAlwaysHolds`. The peak is within `slip` of the
  most the cycles of the process saw; both properties are linear in it.
* `ReportedLossAlwaysReal`: while no read was in error every row is a value the
  account had, in the order it had them, and none is more than `highest`.

`SignalScanProofs`, for every configuration, market and order of requests:

* `ArbitrageLimitsKeepEdge`, `TimeDecayLimitsKeepEdge`: the limit lies halfway, half
  the edge is more than the half percent lost to rounding, so it is still on
  its side of the price and of the estimate. Together they are `LimitsKeepEdge`
  for the strategies that get sized with limits; `QuotesNeverSized` is the rest.
* `ScanInvariant`. `Told` is its core: of a candidate that is not waiting for its
  request, whatever resolved is known, or the reply was partial, or it came late.
* `NeverOpposed`, if the threshold of an extremely high price is at least 0.5:
  ids tell markets apart, arbitrage looks at one sum per market, time decay and
  mispricing disagree only above and below 0.5, quotes have no edge.
* `LimitsAlwaysKeepEdge`, if the risk manager's or the time-decay strategy's `min_edge`
  is more than 0.01 (both are, as shipped): the lemmas above, one strategy at a time.
* `ScanTypeCorrect`. What the scan knows of a market is the market but for its
  answers, and no strategy computes a confidence above 1 or a negative edge. No
  premise on the thresholds is needed.
* `ResolvedAlwaysUnseen`, if `min_liquidity` is at least 50: the answers arbitrage
  takes for active are among those that made the market a candidate.
* `FairLeftAlone`, if `min_liquidity` is at least 50 and no market has so many answers
  at any time that a thousandth for each makes up `min_prob_sum_deviation` (99 answers are few
  enough as shipped). `PriceInv` is the invariant: a market that neither moved nor was
  told in part has no price at all or every price as it is, and what the scan takes
  for resolved has resolved. The strategy sums the open answers but those near 0 or
  1. One near 1 leaves no room for an answer that counts, and without such there is
  no signal; otherwise it leaves out at most a thousandth per answer, in all less
  than the deviation.

The sum of prices is a fold over a set, of which `SignalScanProofs` proves the
unfolding (`TotalUnfold`: a sum is any one summand and the sum of the rest) by
induction over the subsets of the answers. The induction theorems of the library
take a predicate as parameter; `SubsetsReached` and `NaturalsReached` in `SharedLemmas` take
the *set* where it holds in its place, from the well-foundedness of both orders.

`ResolutionFetchProofs`: the two counters count goroutines exactly (`TypeOK`),
nothing is sent on the closed channel, and the buffer has room for whatever is
about to be sent: as many results were sent as goroutines are past their send,
and the sender is not one of them. `NoResultEverLost`: what was sent is in the
channel or applied once, and the channel is empty when the scan goes on.
`AtomicFetchImplemented`: the answer of `GetMarketByID` is the step of AtomicFetch, the end
of the draining is the scan going on, and every other step is invisible to it, the last
one because what was told and what was applied are then the same.

`BacktestProofs`, for every replay, and whatever the bot does to the database
meanwhile: `SimulatedMarketAlwaysCapped`. Bets are sized against a map that is
thrown away and recorded later in another, so the cap is not inductive in either.
The invariant (`Within`) says that recording the queue bet by bet leads a market
from its recorded exposure to the one its next signal is sized against, without
ever passing the cap. `SharedLemmas` holds what it shares with the trading cycle:
bounds of a position, and of what is approved of it.

`AlwaysReplayedOnce` rests on the order of the timestamps. `Timestamps` is the one
ascending sequence of the seconds read; that there is one for every finite set of
seconds is proved by induction on a bound of them (`SortsExist`), so that the
`CHOOSE` is never void. In `ReplayInv` a snapshot is replayed when its second is no
longer ahead, none of whose second is ahead was replayed before, and a snapshot
that is gone is of a past second: the collector stamps with the present, so a
trimmed one never comes back under the same second. `BacktestTypeCorrect` and
`BacktestSnapshotsReadable` follow from the same invariant; for the second, between
upsert and snapshot the row holds a text (`UpsertedReadable`), which the bare
MarketStore has too (`SnapshotsAlwaysReadable`).

`SupervisorProofs`: `BotsAlwaysBounded`, for any number of runs of the scripts and any
faults. The number of bots is not inductive: a bot can come from every run that is
starting, and a removal of the file that is still to come will hide one. `Load` counts
the runs that start or have a bot, and the removals to come. The invariant
(`Counted`) says that it is at most one above `mishaps`, and not above when a check
may start a run: when the check has looked already, or when nothing is `InSight`, neither
a live process in the PID file nor a run that a check started. `TypeCorrect` rests on `Awake`, no
run.sh ever sleeps, which is the finding about its exit code: with the status of
the bot, run.sh and healthcheck.sh would both restart, and the bound would not hold.

`SchedulerLoopProofs`: `LoopTypeCorrect`, by which no tick waits before the tickers exist.

Assumptions are those the modules state for their constants.

Every invariant and safety property the runs check is proved. Only model-checked is
liveness (`SignalStops`, `EveryTickServed`, `FetchReturns`, `BotComesBack`): the prover has no
rules for fairness. AtomicFetch and BetLedger state no fairness, so the refinements
say what may happen and the four properties that it does.

## 6. Not modelled

* The performance figures other than the drawdown: they are SQL aggregates that are
  logged and nothing depends on them. Those over resolved bets are always zero,
  since nothing sets `bot_bets.resolved`. TOML parsing and the deployment files:
  see the notes in `PROJECT.json`. The cache is written and never read.
* `hyperkaehler.service`, the alternative to run.sh and cron, is declarative. Its
  `StartLimitIntervalSec` is not a key of `[Service]`, so systemd's default interval of
  ten seconds applies, and with starts thirty seconds apart the limit of ten is never
  reached: systemd goes on restarting.
* Float rounding in the strategies: the model computes exactly.
* Limit orders as such: they are bets that may stay open; the bot keeps no track of
  them (`active_orders` is never written, `order_cleanup_interval` never read).
* TradingCycle reads the account as one consistent pair; that it is two requests
  is the subject of DrawdownBreaker.
* Foreign keys are a setting of a connection, and `db.Open` sets it on one
  connection of the pool. TradingCycle refuses a row without its market. On a
  connection without the setting it would be accepted, which only makes EnsureMarkets'
  failures harmless.

## 7. Plan

Done: the trading cycle, its refinement and its proofs; the loop; the fetch and its
refinement; the scripts; the market tables; the backtest; the drawdown breaker with
its two reads and the report; the strategies and the scan that feeds them; proofs of
all invariants. Open: the backtest's simulated bets as a second implementation of
BetLedger; the market tables as the backtest sees them as an implementation of
MarketStore, which needs the faults of the two processes counted apart; SignalScan on
top of AtomicFetch with a set of candidates that the scan itself chooses.
