# Verification of heisentick-strat

TLA+ models, TLC runs and TLAPS proofs for the backtest and forward-testing
engine of this repository (`engine/`, `contextcols/`, `dsl/`, `report/`,
`cmd/`). Every definition that models code is translated from the Go source;
`PROJECT.json` maps each one to the lines it stands for and lists the runs, for
each property a mutation of the code that it detects, the hazards the properties
are aimed at, and the theorems.

## The system

The repository compiles a strategy DSL (`dsl/`) to a configuration, computes
indicator columns over a market series (`contextcols/`, `marketdata/`), replays
the bars through a broker (`engine/`) and reports the result (`report/`,
`cmd/heisentick/`, and WebAssembly bridges in `cmd/enginewasm/`). Several
strategies replay the bars in a loop of their own. Two forward modes continue a
replay as data arrives: the prefix commands (a checkpoint, or a receipt that is
verified by replaying) and the bid/ask paper runner (a recorded stream of bars
and quotes). A separate core counts sequential setups (`engine/seqcore/`).

Almost everything is sequential. What is hard is long histories: state that one
bar leaves and a later bar trusts, records that arrive late or twice, restarts
from saved state, and a file system that may fail between two calls. Only the
parameter grid runs goroutines.

| Component | State | Operations | What is hard | What makes it correct |
|---|---|---|---|---|
| Broker (`broker.go`, `broker_deferred_exits.go`, `window_close.go`, `flag.go`) | one position slot, market-order queue, resting limits, deferred exits, trades, realized balance | the calls of one loop body of `runRangeWithFinalization` | stale orders and exits across bars, same-bar exit and re-entry, window edges | one exposure; exits belong to the open position; orders due on time; nothing opened or closed outside the window |
| Strategy families (`family_*.go`) | traded keys, cooldown, counters, armed levels, zones | one handler per bar: filters, setup, bracket, order | keys across rejected and expired orders, armed levels that age | sane brackets, one order per key, nothing armed on a dead level |
| Self-contained loops (`family_clock_range_breakout.go`, `family_scheduled_trade.go`, ...) | pending order, position, marks, rows | the open, range and close part of a bar | daily inputs that a later bar completes, gaps, series end | no look-ahead, honest exits, every position in one row |
| Sequential core (`seqcore/`) | bars of history, per side a run, a setup, a countdown | `Step`, `StepAfterClosure`, `Checkpoint`, `Restore` | gaps, closures, deferral, recycling, restart | counters agree with their definitions; every checkpoint restores |
| Sequential scheduler and market (`sequential_*.go`) | pending opportunity, its own broker, a book of marks | admission; one step per bar around a core step | order of time exit, fill, bracket and core step; calendars | true reasons; the ledger is the trades; exact admission |
| Ordinary backtest (`ordinary_backtest_*.go`, `run.go`) | request, witness, events | decode, admit, run, accept, project, answer | two observers of one broker, faults at every stage | an honest run is published, a wrong one is not |
| Grid (`cmd/heisentick/grid.go`) | slot channel, wait group, result slices | spawn, run, sign off, wait, read | interleavings, failures | reads after writes, one outcome, returns |
| Context columns (`contextcols/`, `engine/runner.go`) | trackers carried along the series | one row per bar, projections of other series | look-ahead, session edges, holes | a row is what one finds by looking back |
| Forward prefix (`cmd/heisentick/forward_prefix.go`, `engine/prefix*.go`) | checkpoint files | read, replay, create, write, sync, link, sync directory, print | races, kills, power loss, retries | no replaced or truncated checkpoint; no trade booked twice |
| Midpoint paper prefix (`paper_prefix*.go`) | receipt, shadow account | verify, extend, report the new events | an extension must agree with what was delivered | deltas are the replay |
| Bid/ask paper runner (`paper_bidask*.go`) | pending decision, position, quote identities, coverage, account | bar, quote, episode, seal, closure, coverage gap, experiment clock | late, reordered, duplicated records; lost coverage; two sources of exits | one outcome per decision; one authority per exit; no look-ahead; final coverage |
| Frozen levels (`frozenlevels/`, `frozencontrol/`) | a level's state, a lock's stops | observe a quote, resolve an admission | freshness, one success without retry | no early admission, locks only tighten |
| DSL of the paper prefix (`dsl/parser*.go`, `paper_prefix_orb.go`, `paper_prefix_vwap.go`) | the configuration being folded | one handler per line | repeated and conflicting lines | an admitted source means what its lines say |

How they interact: a command prepares a run (`run.go`), which owns one broker;
the broker calls the family's handler, which reads the context columns at its bar
and writes back to the queues; the paper collector and the backtest's witness
observe the broker by callbacks; the sequential scheduler calls the core before
it accepts its events; the prefix commands and the paper runner reuse the
broker's position, family handlers and stop tightening. Components that share no
state are modelled apart and composed only in the instance that checks them.

## Modules

| Module | Models | Extends or instantiates |
|---|---|---|
| `Broker` | the bar loop and the broker's handlers | |
| `FamilyTape`, `FamilyBreaks`, `FamilyFades`, `FamilyPullbacks`, `FamilyZones` | what a family reads; the setup functions, by kind; supply and demand zones and the setups on pivots | the others extend the first |
| `Families` | the handlers of the families around their setups | the modules above |
| `HigherSeries` | inferred widths and the trend of a higher timeframe | |
| `PaperPrefix` | chains of submissions of the two prefix commands | `HigherSeries` |
| `PaperSource` | the parser and the paper admission of a source's lines | |
| `LoopTape`, `LoopClock`, `LoopCandles`, `LoopSchedule`, `LoopReversion`, `Loops` | the self-contained bar loops: common parts, by kind, together | `LoopTape` is extended by each kind, these by `Loops` |
| `FrozenLevel` | one level, its admission, three managers of its position | |
| `SeqCore` | the core, its checkpoint and restore checks | |
| `SeqLedger`, `SeqScheduler`, `SeqAdmission` | the accounting collector; policies E1 and E2; requests and calendars | `SeqScheduler` extends the first and `SeqCore` |
| `Sequential` | a request from admission to answer, and a direct caller of the core | both above; `Contiguous == INSTANCE SeqScheduler WITH ...` |
| `BacktestRequest`, `BacktestWitness` | run preparation and admission; the two observers, acceptance and projection | |
| `Backtest` | one call of the ordinary backtest | the above |
| `Columns`, `ContextColumns` | the columns of the calendar and of prices; the pass that builds them, the projections of other series | the second extends the first and `HigherSeries` |
| `Grid` | the goroutines of the grid command over a shared context | `ContextColumns` |
| `ForwardPrefix` | invocations, file system, caller; its symmetry for TLC | |
| `PaperBidAsk` | the paper runner and the records its validation admits | |
| `BrokerProofs`, `FamilyProofs` (of `Families`), `ForwardPrefixProofs`, `GridProofs`, `LoopProofs` (of `Loops` and of `FrozenLevel`), `PaperBidAskProofs`, `PaperPrefixProofs`, `SequentialProofs` | theorems | the module of that name, TLAPS |
| `MCBroker`, `MCFamilies`, `MCLoops`, `MCSequential`, `MCBacktest`, `MCGrid`, `MCPaperBidAsk` | small instances | the modules above |

Beside some definitions stands a variant of it that nothing uses (`LimitExpiredLate`
before `LimitExpired`, for example). These are plausible bugs, paired with the
properties in `PROJECT.json` under `mutants`: with one in place of the real
definition, TLC finds the paired property violated.

### Broker

`phase` names the call of the loop body that comes next, and each call is an
action; a call that loops over orders takes a step per order. `run` is the
configuration, chosen at the start: the family's way of entering (immediate,
next open, limit, deferred queue, captured), its management (trail, partial,
break-even, hold limit, close-all), the execution window, the slot rule, and
whether the run liquidates (`RunPrefix` does not). Signals are nondeterministic:
a handler may act at any bar, also where the families' cooldown or seen sets
would keep it silent (`Families` has those). Prices are integers, quantities a
constant `Lots` with a part `PartLots`; a fill at the stop's own price has size
zero, as the division by distance gives in the code. A bar is drawn when the loop
reaches it.

Three guards of the code turn out never to act: the ribbon family's test for an
already queued exit, the managers' test that the position slot changed under
them, and `openPosition`'s window test when called from a fill. The invariants
show why.

### Families

A run has one family, one set of parameters and a series that grows by a candle.
The broker around the handler appears only by its outcome: an order is filled,
rejected, waits or expires; a position may close before the handler or by its
management. The ATR is 1 or unavailable, so a distance of `k` ATR is `k`; the
mirrored halves of a handler are one formula on directed prices. The cap of 500
remembered sweeps and of 80 zones are beyond the instances.
`pruneSupplyDemandZones` does not reset `HasPendingTouch` and `HasChochTouch` when
a zone flips (`family_supply_demand.go:190-222`); the model keeps that.

### Paper prefix and its sources

`PaperPrefix` compares the two ways to extend a recording: the paper prefix
replays the whole prefix and reports the events after those its receipt counts;
the resumable prefix restores the checkpoint's fields and runs the new bars. A
digest is the value it is taken of. The replay runs the opening-range family,
long side, in UTC slots, with scaled buffer, hold and target; the VWAP and legacy
handlers are admitted but not replayed. A fill of size zero is refused with
`ACCOUNTING`; the branch that closes a position of another slot is unreachable.

The paper prefix refuses a source with a higher timeframe (`CONTEXT`). The
resumable prefix admits one, so its submissions carry the higher rows and a bar
may signal only if its trend allows it (`Informed`). The trend is computed anew
from each submission's series, the checkpoint binds only the rows opened by its
last bar (`Through`), and what later rows and bars change is finding 5. `decided`
records the bars of a chain with the trend each had when its submission ran it.
`DeltasAreTheReplay` says for every chain that the booked trades are the replay of
`decided`; of the last submission without a gate and, with one, where no series has
a hole and the widths show in the first submission (`Regular`). A caller may withhold the latest row: if the row had opened by the
last bar, the next resume is refused, since the row is then bound.

`PaperSource` folds logical lines (section, head, words, numbers with their cues)
over the default configuration and then reads them a second time as the paper
runners do. Lexing is abstracted to such lines, with `residue` for what a handler
leaves unread. Noticed, and inside what `MeansWhatItSays` allows: `target 0 range`
is admitted and executes as 1R; a target's range multiple or pips outlive a
repeated selector; an edge stop after `stop N atr` or `stop N pips` leaves type
and pips; the slot of `opening range every` sticks.

### Loops

A bar is replayed in the three parts the loops have in common, in the order of
each loop's body. Days are a few bars long, constants such as 4, 6, 24 hours or
the gold flag's six bars are scaled. A series may end after any bar; loops that
liquidate then do.

### Frozen levels

Quotes carry provider time, sequence and availability; the key is the pair of the
first two. After the admission the same position is given to three managers (no
lock, scale lock, pivot lock), which see the same quotes.

### Sequential

The frozen counts (9, 4, 13, 5, 8, 22) are constants with the order relations
they have in the code. A call of the core is one action, with its events; an
out-of-order bar makes the instance terminal. The scheduler's step takes the
parts of a bar in the code's order, with the collector called from the broker's
own steps. Left out: JSON shape, identity precedence, int64 overflow guards,
event sequence numbers, legacy strategies of version 1. The count reaches no
`int8` limit. The reasons `warmup` and `simultaneous_signal` never occur
(`docs/sequential-market-contract.md` says that a decision is possible only from
the fourteenth bar).

### Backtest

A call decodes, admits, runs once, accepts the witness, projects and answers; a
fault may strike at each stage. The broker is reduced to what it does to position,
queues and money, every fill being a choice. Map depth (32) is 2; node and text
budgets are flaws of a request; the output limit is `ask.output`. `SharedContextKey`
does not include the higher-timeframe mode: only a caller of the library can share
a context across modes, the commands do not.

### Context columns and grid

`ContextColumns` carries the trackers from bar to bar as `contextcols.Build`
does and states beside them what each means by looking back. Periods are scaled
to tapes of twelve bars; EMA and SAR factors, channel gap and body violation are
fractions such as 1/2 and 1/4; the SAR's bar validity is left out. Session
trackers merge two sessions when no bar falls between them; so does the
definition. No series carries its width: as in the code it is the least distance of
two of its bars (`runner.go:501-510`), so it depends on the whole series, later bars
included. With one bar there is none and every projection is unavailable. What is read of
another series is therefore compared by `ColumnsCausal` only at bars whose widths
are settled, that is, inferred alike from what is known and from the whole series;
before, a backtest over the whole series does see a width that a reader of its
beginning would not. In `Grid`, main and the goroutines interleave at every channel,
wait-group and slice operation; a variant fails or not by its configuration.

### ForwardPrefix

An invocation has a program counter through `runForwardPrefix` and
`writeNewCheckpoint`; it may fail at each system call and be killed anywhere.
The file system keeps contents and names in memory until synced; a crash keeps
or drops each unsynced name and content. The caller follows `README.md`: the
published name becomes the pointer and the trades are booked in one durable step.
Assumed: removal of an invocation's own candidate succeeds; later data extends
earlier data; all names are in one directory.

### PaperBidAsk

Each record kind is an action. A record that sets the runner's error ends the
request with no result, so what makes the code refuse is a guard. Input
validation (order of commits, clocks of bars, quotes, closures) is modelled as
the admissible records; provider and request times may lag their commit by
`MaxLag`. The family is an oracle that may signal, tighten or decide a slow-EMA
exit. Refusal wording is folded into one `noFill` event; marks, drawdown and the
phase view, which nothing reads back, are left out, as are the limits on bytes
and events. The limit on quote identities equals the limit on records and cannot
be reached.

## Runs

Each run finishes in less than five minutes with two workers. `expect: violation`
runs are the findings below.

| Run | Shows | Bounds and why they are enough |
|---|---|---|
| `broker` | the broker's six properties over twelve configurations | four bars: signal, fill, management, exit; six candles that stay inside, cross, gap through and span the bracket; limit life and hold limit of two bars, slots of two, windows with warm-up and tail |
| `families` | handlers of 29 families, chains of submissions of both commands, paper sources | a few candles per family chosen to make its setups, more runs where a parameter changes the route; four recorded bars twelve or forty-eight hours apart under three bindings, one of them with a gate on the higher timeframe (two recordings of it, one with a hole over a weekend), one bar restated without that gate; up to four lines from nine vocabularies, so that a selector can be repeated with lines between |
| `paper_resume_higher` | finding 5 | the recordings of `families` alone |
| `orb_stop_padding` | finding 4 | the sources alone |
| `loops` | the bar loops and the frozen level | a run per loop, more where parameters exclude each other, series with gaps, ends after any bar; quotes at five times with lag 0 or 1 and two sequence numbers, both directions |
| `sequential` | core, scheduler, ledger and admission | counts 2 and 3 (references 1 and 2), recycling at 4, ten bars, two holes, hold 2 and 1: setup, deferral, completion, recycling, cancellation, entry and every exit occur |
| `seqcore_closure_checkpoint` | finding 1 | the callers of the core in the instance of `sequential` |
| `backtest` | the ordinary backtest; in other behaviours, publication and booking of `ForwardPrefix` | every flaw and class of request alone and in pairs, runs of two and three bars, a fault at every stage, grids of variants; three invocations (two that race and one before or after), two names, two bars, one machine crash; symmetric in invocations and names, which no property tells apart |
| `grid` | goroutines and columns | three variants on two slots with two cost modes, every set of failures; tapes of twelve bars (words of four candles along four drifts, with gaps and weekends) with scaled periods |
| `higher_trend_lookahead` | finding 3 | the same tapes |
| `paper_bidask` | the runner's five properties | three bars of three time units, lag one, two quotes; quotes that stay, stop, and reach the target with thin depth; candles that stay, reach and gap; requests with and without hold limit, slot, warm-up, experiment horizon and closure |
| `paper_bidask_quote_conflict` | finding 2 | one dated request |

Deadlock is checked where a stop would be a fault (`broker`, whose end state
stutters, `sequential`, `backtest`, `grid`). A recording and a series do end, so
`families`, `loops` and `paper_bidask` do not check it; so do invocations of
`ForwardPrefix`, which in `backtest` may stutter.

### The properties

* `Broker`: `SingleExposure`, `ExitsMatchPosition`, `OrdersOnTime`,
  `WindowRespected` as invariants, `PositionPersists` about steps.
* `Families`: `BracketSane`, `OneOrderPerKey`, `ArmedIsCurrent`. `PaperPrefix`:
  `DeltasAreTheReplay`, `StatementReconciles`. `PaperSource`: `MeansWhatItSays`.
* `Loops`: `DailyInputsCausal`, `HonestExits` (no exit better than the market
  offered; the stops of the clock-hour and weekend loops are filled at their
  price over a gap and are exempt), `RowsAccountForPositions`, `PositionKept`.
  `FrozenLevel`: `ExecutableAfterSubmission`, `HeldInsideBarriers`,
  `LocksExitFirst`.
* `Sequential`: `CountsAreDefinition`, `ReasonsTrue`, `LedgerIsTrades`,
  `AdmissionExact`, and `ClosuresInvisible`, a refinement: a run across declared
  closures implements the scheduler over adjacent bars with the same prices.
* `Backtest`: `HonestRunPublished`, `ReportReconciles`, `AnswerBound`.
* `Grid`: `ReadsAfterWrites`, `Returns`; `ContextColumns`: `TrackersDefined`,
  `ColumnsCausal`.
* `ForwardPrefix`: `PublishedComplete`, `PrintedIsDurable`, `BookedOnce`,
  `NeverReplaced`.
* `PaperBidAsk`: `DecisionAccounted`, `AccountReconciles`, `CoverageIsFinal`,
  `NoLookAhead`, `OneAuthority`.

### Fairness

`Grid` has weak fairness of main and of each goroutine: the Go scheduler runs
every runnable goroutine, and a blocked one is not enabled. `Returns` counts from
the loop over the variants. `Broker` has weak fairness of `Next`: the loop is
plain sequential code, which takes its next step. The other specifications state
safety only: nothing obliges a bar to arrive or an invocation to be made.

## Findings

1. **A checkpoint after a declared closure does not restore**
   (`engine/seqcore/checkpoint.go:192`). `StepAfterClosure` keeps the history
   across the hole "as if the bars were adjacent" (`core.go:90-92`); until the
   hole has left the four-bar history, `Restore` refuses the engine's own
   checkpoint as "noncontiguous segment history", against `core.go:82-83` and
   `checkpoint.go:29`. Run `seqcore_closure_checkpoint`.
2. **An original quote refused for the experiment horizon leaves no identity**
   (`engine/paper_bidask_execution.go:428`). The handler returns before it stores
   the fingerprint, so a later record of the same provider time with other
   content is accepted, against the comment at 416-418 and
   `spec/forward-paper-bidask.md:160-161`. Run `paper_bidask_quote_conflict`.
3. **The higher-timeframe trend looks ahead at a hole**
   (`engine/runner.go:544`). Whether the last higher bar before a hole is stale is
   decided by the open of the next one, later than the decision, against "No
   strategy-visible value may depend on the current bar's future or on later bars"
   (`spec/dsl-spec.md:573-575`) and `runner.go:512`. Run `higher_trend_lookahead`:
   two tapes with the same widths that agree up to the decision give it different
   trends; the legacy bias has the same test (`runner.go:600-604`). `ColumnsCausal`
   holds of the other columns, and of trend and bias outside a hole.
4. **An opposite-edge stop takes its bound for its padding**
   (`dsl/parser_management.go:65`). `firstNumber` reads the first number of the
   line whether or not `by` stands before it: `stop beyond opposite range edge min
   0.5 max 4` runs with a padding of 0.5 ATR, not 0.25, against the form at
   `spec/dsl-spec.md:401`. Run `orb_stop_padding`.
5. **A resumed chain with a higher timeframe is not its replay**
   (`engine/prefix_checkpoint.go:131`). The trend of a bar that was already booked
   can change with the rows and bars after the checkpoint: the next row's open ends
   a hole (finding 3), or a width narrows. The digest binds only the rows opened by
   the checkpoint's last bar, so the resume is accepted, and what the chain has
   booked is not what a replay of the submitted series yields, against "the returned
   trades are deltas since the supplied checkpoint" (`prefix_checkpoint.go:238`). Run `paper_resume_higher`. `spec/forward-paper-prefix.md:104` names
   this problem as unsolved for the paper command, which refuses the source.

Also noticed, and modelled as it is: the re-entry of the down-shock rebound after
a source gap of more than two hours (`spec/down-shock-rebound.md:58-59`).

## Proofs

The theorems hold for every value of the constants that the named `ASSUME`s of
the proved modules allow; TLC evaluates these on the instances.

**`BrokerProofs`** (any candles with ordered extremes, horizon, costs, distances,
configurations). All of the broker's run properties are proved.
`TypeCorrect`: `TypeOK` alone is not inductive, since a partial close subtracts
`PartLots`; `SizeOK` relates the size to `partialTaken`. `Exposure`,
`ExitsMatch`, `Deadlines` and `Persists` rest on `IInv == TInv /\ OInv`:
`SingleExposure` is not inductive because the deferred-entry families append
without looking at the queues. `OInv` adds what saves it: by phase, every queued
market order is due at this bar until the orders are processed and none is left
when a handler runs; every resting limit is placed before this bar and unexpired;
every deferred exit is due and names the open position; the dual-EMA flag implies
its exit is queued or was just consumed. `Window` adds that no order
is left when the window's first bar begins (`WarmUpForgotten`: the queue is cleared
before and after a warm-up bar), and, of a position and of each
trade, that its entry lies in the execution window (`InWindow`,
`TradesInWindow`), and that an opening-range position has its slot ahead
(`SlotAhead`); an action that trades is guarded by the window or is the close at
its edge.

**`ForwardPrefixProofs`** (any number of invocations, names, bars, crashes). All
run properties are proved: `Publication`, `Durability`, `Booking`, `Replacement`.
`PathOK` says of a name that whoever published it was past its link and that the
directory on disk has no other file there; `RunOK` says what an invocation's
progress has made of its file, and that the checkpoint it started from belongs to
an invocation that ended well. Such a file can change no more, so the bars it
skips are those its caller had booked (`CallerOK`).

**`GridProofs`** (any number of variants, slots, cost modes). `ReadsAfterEveryWrite`
and `SlotsAreHeld`: the wait group counts the goroutines that have not signed off
with the one main has announced, the channel those that hold a slot, and a
goroutine past its run has written its own index. The cardinality steps use the
library's facts on finite sets.

**`PaperPrefixProofs`** (any chain of recordings and submissions, any integer prices
and positive time steps, `PaperAssumption`). `DeltasAreTheReplayHolds`
and `StatementReconcilesHolds` rest on `PaperInvariant`: the receipt and the account
are those of the replay of what was submitted; the checkpoint and the booked trades
are those of the replay of `decided`, the same bars with the trend that each was
decided on. A restored chain joins the bars it has booked to the new ones, and a
bar reads of the bars before it only what the market printed (`BarLocal`), so the
join is a replay whatever the new rows say of the old bars. Without a gate every
trend allows, and `decided` is the last submission (`InformedIs`). With one, but
without holes, `decided` differs from it at most in the first bar, which asks for no
trend (`ChainInv`): a part of an even series that has two members has its width
(`SpacingIs`), so the trend at a booked bar follows from the rows opened by the
checkpoint's last bar (`TrendSettled`), and those the checkpoint binds. Otherwise no
assumption is made on the rows, the holes or the widths.
What a replay of a prefix leaves is a recursive function over bars; the lemmas
say what one bar more does to it, and the induction over the length is a
well-founded minimum (the least length at which a claim fails), which needs no
operator parameter.

**`PaperBidAskProofs`** (any policy, economy, calendar, recording).
`EntersFromNow`, `CoverageLostForGood`, `ExitsHaveOneAuthority` and
`DecisionsAccountedFor` rest on `Clocks` (the last completed bar ends a duration
after it opens; a waiting decision is the last bar's, and whatever was skipped
since was declared shut; no observation is newer than the newest) and, for the
last, on `Book`: each decision is pending, open, or in exactly one outcome.
`AccountAlwaysReconciles` adds that the balance is the sum of the nets of the
trades, a recursive function over the list of them, less what the open position
has paid.

**`SequentialProofs`** (any counts in the order of the code's, a warm-up no longer
than the lookback and a Setup together, a response shorter than a Setup, any asks
whose stamps and prices are not negative: `CountsAssumption`,
`SchedulerAssumption`, `SequentialAssumption`).
`CountsAreTheDefinition` is the claim that a few bars and counters are enough.
`SequentialKept` ties each of them to the segment: the history is its end, a run
counts its last comparisons, an active Countdown its qualifying bars, a Setup
holds the extremes of its bars 6 and 7; and the scheduler steps across a hole
only as a declared closure, so that no request has a data gap.

`ReasonsAlwaysTrue` rests on `ScheduleKept`, which has two parts. `AuditKept` says
of each opportunity what became of it and by what right: it is pending and of the
last bar, or owned by exactly one trade or position that entered at the bar after
its decision, or rejected for a reason that the position then held, the stop or its
age bears out. The broker's steps (time exit, fill, bracket) lie between a bar's
arrival and the core's sight of it, so it is stated of a scheduler that has decided
up to bar n while its broker is at n or n + 1. `SignalsKept` ties the opportunities
to the core: each comes from an anchor, the bar at which its Setup was completed,
and what a side keeps has been answered once it is perfected (E1) or completed (E2),
and not before. That no two sides answer at one bar, on which the choice of the
pending one depends, follows for E1 from the comparisons: two Setups in time at one
bar would share a bar whose close is both below and above. For E2 it follows from
the cancellation: no two Countdowns are unfinished at once.

**`LoopProofs`** has two halves. The first is of the loops (any run whose
parameters the parser admits, any positive gaps between bars, `LoopsAssumption`).
`PositionAlwaysKept`: `PositionKept` is not inductive by itself, since an order may
wait beside a position and a shock beside an order; `LoopKept` says per kind of
loop what may wait beside what.
`RowsAlwaysAccount`: by `RowsKept` the ids of the rows that were traded are those of
the trades and of the open position, each once, and `Book` counts them.
`DailyInputsAreCausal` rests on `CausalKept`: a date whose row has inputs has come,
and the inputs are those the series so far gives. Bars rise, so once a date has
come the earlier dates and their bars are settled: a longer series gives it the
same inputs, and a completed day never changes what was read from it.

The second half is of the frozen level (any price, offsets, latencies, ages,
stops, ladder, quotes at any times). `Executable` rests on `Submitted`, which
ties a ready admission to the crossing that was submitted. `InsideBarriers` and
`LocksFirst` rest on `Managed`, which ties each manager to the control without
a lock: a lock only tightens, so a quote that leaves the lock open does not reach
the control's barrier.

**`FamilyProofs`** (any runs: candles, series, parameters, within
`FamiliesAssumption`). `KeysTradedOnce` rests on `KeysKept`, which says of each way
of keeping a key why an order's key cannot come back. A family with a seen set has
every ordered key in it; the pullback's orders carry no key. The gap family has at
most one gap of a side and a bar, new ones are of the current bar, and one that was
ordered is taken away. The zone families have one zone per base: a detected base
ends later than any before (the shortest base is found from below, hence a least
counterexample over base lengths), and a zone that was ordered stays marked until
it is pruned. The flag family remembers a level when it arms it, the armed level is
untraded in its day, and none is armed beside an order or a position. `ArmedAlwaysCurrent`
follows from the same invariant and the handler's order of clearing and arming. It
is about bars with an ATR: without one the handler returns before it clears, and a
level may wait past its age, which is then cleared before it can trade.

TLC checked each inductive invariant as an invariant of the component's run before
it was proved.

Only model-checked:

* `Returns`: liveness under fairness is out of the prover's reach.
* `LedgerIsTrades`, `ReportReconciles`, `TrackersDefined`, `ColumnsCausal`,
  `MeansWhatItSays`: sums, columns and parses are folds over a history, and need
  induction over data; `ClosuresInvisible` has such a fold in its mapping.
* `HonestExits`: it needs a slip no larger than the distance to the stop, which
  the code does not require.
* Not attempted: `AdmissionExact`, `HonestRunPublished`, `AnswerBound`; and
  `BracketSane`, which is a fact about the price formulas of some twenty setups and
  holds, for a few of them, only of parameters in an order that the parser does not
  require.

## Plan

1. Proofs next: `Sequential!AdmissionExact`; `Backtest!AnswerBound`;
   `Families!BracketSane` for the setups whose parameters need no order.
2. Then the bid/ask receipts (`paper_bidask_checkpoint.go`), by the scheme of
   `PaperPrefix`, and the VWAP and legacy handlers in its replay.
3. Abstract specifications still worth stating: a ledger with one position at a
   time that `Broker` implements, an atomic register of checkpoints that
   `ForwardPrefix` implements.

## Not modelled

* Bid/ask receipts: an extended recording is replayed and compared with a receipt
  by digest; the midpoint receipts, which work alike, are modelled.
* The other families' DSL lines and filters, market-data loading, reports,
  statistics, diagnostics, Monte Carlo, flag parsing: functions from input to
  output with no state between calls; their difficulty is numeric or textual.
* Research engines (`regime`, `master`, `adaptivestudy`, `regimeadaptive`): fixed
  numeric studies. The adaptive and gold flag reference loops are in
  `LoopReversion`.
* WebAssembly bridges: codecs on one thread; the call behind them is `Backtest`'s
  and `SeqAdmission`'s.
* Floating point: prices are integers, so rounding is out of scope; so are
  digests, encodings and byte budgets.
