# Verification of the market replay engine

TLA+ specifications of the deterministic market replay engine, TLC
configurations that check them on small instances, and TLAPS proofs of what
matters most for every instance. Paths below are those of the repository.

## 1. The system

The engine replays a merged historical feed (book updates and public trades)
through a discrete-event loop, shows it to a strategy, simulates the orders the
strategy emits with latency and a queue model, and accounts for the fills. It
is single-threaded. The difficulty is not preemption but *virtual concurrency*:
orders are in flight between submission and arrival while the market goes on,
cancels race with trades, several own orders share one trade, and every handler
can schedule events for the very instant it runs in.

| component | state | operations | talks to |
|---|---|---|---|
| Event loop, scheduler, clock (`src/event_loop.cpp`, `src/simulation_clock.cpp`) | feed and cursor, heap of internal events, sequence counter, clock, trace | `schedule_internal`, `run` | calls the handlers; handlers call `schedule_internal` back |
| Order book (`src/order_book.cpp`) | price to quantity per side | `apply`, depth and price queries | updated by the loop before `on_market`; read by strategy, execution, mark |
| Order (`src/order.cpp`) | terms, filled quantity, status | `transition_to`, `record_fill_quantity` | owned by execution |
| Execution simulator (`src/execution_simulator.cpp`) | next order id, next fill id | order factory, market sweep, fill factory, fee | used by the latency layer |
| Latency-aware execution (`src/latency_execution.cpp`) | orders, registry of resting limit orders with their queue ahead, executions, fills | `submit_order_intent`, `request_cancel`, `process_order_arrival`, `process_cancel_arrival`, `process_trade` | schedules arrivals and cancels in the loop, reads the book |
| Replay engine (`src/replay_engine.cpp`) | one run's locals | `run`: merge, handlers, results; `write_replay_artifacts` | all of the above |
| Portfolio (`src/portfolio.cpp`) | cash, realized PnL, fees, turnover, FIFO lots, ledger, applied fill ids | `apply_fill`, `mark_to_market` | fed by the engine after trades and arrivals |
| Strategies (`src/strategy.cpp`, `strategies/`, scripted strategy) | last imbalance, emitted flags | `on_book`, `on_trade`, `on_timer` | emit intents into a sink |
| Feed parser (`src/market_feed.cpp`) and `merge_events` | events read so far, line number | `parse_csv`, `merge_events` | files; makes the loop's feed |
| Artifact writer (`write_replay_artifacts`) | the output directory and a temporary beside it, kept across calls and crashes | write, check, remove, rename | file system |
| Numeric types (`src/types.cpp`) | none | parse and format decimals, ticks | parser, configuration |
| Configuration (`load_replay_config`, `validate_replay_config`) | keys and values read so far | read, convert, refuse | file; makes the engine's `ReplayConfig` |
| CLI (`apps/replay_cli.cpp`) | options taken so far | arguments to exit code | configuration, engine, writer |
| Python bindings, benchmarks | none | wrappers | `run()` |

What makes each correct:

* loop: one total order of dispatch (timestamp, market before internal, sequence
  number), nothing lost or repeated, no event overtaken by the clock, no handler
  sees the future, and the run ends;
* book: what was last said of each level and nothing else, best level first;
* execution: registry, statuses, quantities and fills are four views of one
  truth; fills respect limits, queue, and time priority; trade volume is not
  duplicated; orders follow their lifecycle;
* engine: every order gets exactly one arrival, against the book as of that
  moment, and an answer; aborts happen only for stated reasons;
* portfolio: FIFO to the unit, the accounting identity, no fill applied twice;
* feed: the inputs that keep the data contract become a feed, and no others,
  strictly ordered and complete, with every price exact;
* configuration and command line: every setting takes effect as it is written or
  is refused, and the exit code, the output and the recorded hashes say what was
  done;
* artifacts: what appears is one run's whole set, nothing is destroyed without
  `--force`, and a call that fails before everything is written leaves what it
  found.

`PROJECT.json` lists the components with what is left out of each, and under
`hazards` what is hard to test, at its line.

## 2. Modules

| module | models | role |
|---|---|---|
| `EventOrder` | the promise of the loop: a single pending set, dispatched in one total order | abstract specification |
| `EventLoop` | `EventLoop`, `InternalEventScheduler`, `SimulationClock` | component; implements `EventOrder` |
| `EventLoopProofs` | | theorems, of both |
| `Ordering` | the elements of a set by rank | used by the book and the strategies |
| `OrderBook` | the book as a value and its queries as operators | used by execution, engine, portfolio, strategies |
| `StrategyRun` | `run_strategy`, `QueueImbalanceStrategy`, the scripted strategy and its configuration | composes `EventLoop` and `OrderBook`; checks the book against the feed |
| `StrategyRunProofs` | | theorems |
| `OrderLifecycle` | the promise to a strategy about its orders | abstract specification |
| `LatencyExecution` | `LatencyAwareExecution`, with the parts of `ExecutionSimulator`, `OrderFactory`, `FeeModel` and `Order` it uses | component |
| `ExecutionCalls` | any caller of it | closed system for checks and proofs; implements `OrderLifecycle` |
| `ExecutionProofs` | | what each call does, as lemmas for any caller; theorems, under any caller |
| `ReplayEngine` | the handlers of `ReplayEngine::run` | composes `EventLoop`, `LatencyExecution`, `OrderBook`, `Portfolio` |
| `ReplayEngineProofs` | | theorems, from those lemmas |
| `Portfolio` | `Portfolio` as a value, its member functions as operators | used by the engine |
| `PortfolioFills` | a portfolio given any fills | closed system for checks and proofs |
| `PortfolioProofs` | | theorems |
| `Decimals` | the decimals, tick sizes and integers of `types.cpp`, over texts of characters | used by the parser and the configuration |
| `MarketFeed` | opening, `parse_csv` and `merge_events`, line by line | component |
| `ReplayConfig` | the settings, their defaults, conversions and checks, as operators | used by the program |
| `ReplayRun` | `main` of `replay_cli`, `parse_key_value_file`, `run_replay_from_config_file`, and what `ReplayEngine::run` hashes and parses | composes `MarketFeed` and `ReplayConfig` |
| `ReplayRunProofs` | | theorems, of the whole program |
| `ArtifactWriter` | `write_replay_artifacts`, one file operation at a time | component |
| `ArtifactWriterProofs` | | theorems |
| `DataLemmas` | | sums, ranks, folds, sorted sequences and induction, shared by the proofs |
| `MC*` | | feeds, handlers, intents, books, files for TLC |

### Event loop

`feed` and `next` are `historical_events_` and the cursor; `queue` is the heap
as a set, whose top is the element `EarlierScheduled` than all others; `status`
records how `run` stands. A handler is any program: a call of it is the list of
requests it makes and whether it throws afterwards (`Handle`). A request in the
past makes `schedule` throw, so a call may stop after any prefix of its
requests. One action is one turn of the `while` loop, clock and handler
included (`DispatchMarket`, `DispatchInternal`, `Return`); `ClockBackward` is
the turn in which `advance_to` throws. The refinement mapping to `EventOrder`
sends the pending set to the unread feed plus the queue; it holds for feeds in
source order; without that assumption the loop may stop with `clock_backward`,
after it has dispatched everything before that event (`ExactlyOnce`).

Two things the loop's interface permits are left out: a second `run()` on one
loop and a handler that moves the clock through the mutable `clock()`. Nothing
in the repository's sources does either.

### Execution

`orders` is `orders_`; `resting` is `active_limit_orders_` keyed by order, with
`rank` (the number of arrivals processed before it) for the position in the
vector; side and limit, which the code copies into the registry and never
changes, are read from the order. `executions` is only a count. `nextFill` and
`nextOrder` are the factories' counters. A call that throws sets `threw` and
changes what the code has changed by then: an intent that fails in the `Order`
constructor has used up an id, one that fails on the latency has not.

The loops of the code that hand out an amount along a list keep a running
remainder. Here what an entry gets is written from what the entries ahead of it
want: `TakenAt` for the levels of a sweep, `VolumeBefore` and `FilledBy` for the
orders a trade reaches. `Left(a, b)` is "what is left of a once b is taken".
A market order's sweep (`execute_market_order`) and a limit order's
(`process_limit_order_arrival`) are the same operators: they differ in which
levels are allowed and in what becomes of the remainder (`StatusOnArrival`).

A fee may not fit its type (`FeeFits`, range `MaxFee`), and `create_fill` throws
in the middle of a sweep or of a trade. What the code has done by then stays
done: an order that was sweeping is still pending in `orders_`, since the sweep
works on a copy, though fill ids were used up (`Charged`); in a trade the orders
before the one that failed are filled, the queue ahead of that one is used up,
and the erasure of filled orders from the registry at the end is skipped, so
that they are found in it afterwards (`Leftover`). `RegistryMatchesStatus` says
that active orders are always in the registry, that only a call that throws leaves
another one there, and that the next trade that fills an order and returns takes
all of those away.

`QueueRespected` says what one call may do. `QueueEarned` (in `ReplayEngine`,
where trades and books are known) says what comes of it over an order's life: it
is filled by what was traded at its limit since it arrived, less the queue it
joined.

### Strategies

`StrategyRun` is a run of `run_strategy` from the configuration on: `Load`
accepts or refuses the strategy's settings (`validate_replay_config`, and
`parse_scripted_intent` for every entry, whatever the strategy) and sorts the
script. `std::sort` is not stable, so `Sorted` is *every* arrangement that the
comparison allows, and one of them is taken. Timers are scheduled before `run`;
`OnBook`, `OnTrade` and `OnTimer` are the handlers. A double is a fraction: the
thresholds are the ones in the configuration, and the imbalance is what the
constant `Divide` makes of the two integers, any function that stays within one
(`DivisionAssumption`). The code converts both to doubles and divides those, which
rounds beyond 2^53; TLC's `Divide` rounds to quarters, so that in the run different
volumes have one imbalance as well. Volumes that do not fit
`Quantity` make the strategy throw, before it has updated what it remembers.
`load_replay_config` is the only source of settings here; a `ReplayConfig` that
a program fills in by itself is not sorted. The feed may repeat keys, which
`run_strategy` does not refuse.

### Replay engine

`ReplayEngine` extends the execution layer and the portfolio and instantiates
the loop with no handlers of its own: the actions `OnBook`, `OnTrade`,
`OnOrderArrival` and `OnCancelArrival` conjoin a dispatch of the loop with the
calls the handlers of `ReplayEngine::run` make, in their order: a trade meets the
resting orders, their fills go to the portfolio, then the strategy may submit; an
arrival is processed, its fills go to the portfolio, then a cancel is scheduled.
`applied_fill_count` is the length of the portfolio's ledger, since the engine
applies the fills in their order; `Rejected` says that the next one was refused,
and then the rest of the handler does not happen and the exception ends the run.
After the loop, `Report` is the final mark, which may throw as well. `config`
holds the two latencies. The strategy may emit any of `IntentLists` after any
market event, which includes what the two strategies of `StrategyRun` do.
`run_latency_aware_strategy` is the same without automatic cancels
(`cancelAfter = NoCancel`). Timers are left out since neither function schedules
one. The loop's `ClockBackward` cannot occur: `ArrivalsMatchOrders` says so and is
checked.

### Portfolio

A portfolio is a record, and `Applied` is what `apply_fill` makes of it. Every
amount is checked against one range `-MaxAmount-1 .. MaxAmount`, the model of the
64-bit integers. `Acceptable` is the conjunction of all the checks `apply_fill`
makes on its way; `RejectFill` is the call that throws. `Matched` folds the lots
in the order the `while` loops of `apply_buy_lot` and `apply_sell_lot` visit them,
and serves both, since they are mirror images. That a refused fill changes nothing
is taken over from the code, which works on a copy and assigns it at the end;
`MarkFits` has every check of `mark_to_market`, lot by lot and sum by sum.

### Numbers

`Decimals` follows `parse_non_negative_decimal` character by character: a text is
a sequence of character codes, `ReadCharacter` is one turn of its loop, and the
state of the scan is a record. The widths of the integers are the constants
`MaxU64` and `MaxI64`, so that texts of four characters reach every limit: the
coefficient (before trailing zeros are dropped), the power of ten of a scale, and
the quotient in ticks. The loop is a fold, digits are picked by division, and a
power of ten is `pow10`'s own recursion (`Pow10`, a recursive function). The
reference (`Whole`, `Places`, `IsTicks` in `MarketFeed`) is what decimal notation
means: the sum of the digits, each by the weight of its place.

### Market feed

A line is what the parser makes of its text: `blank`, the `header` of its file,
`malformed` (the wrong number of columns, or a key or quantity that is no
number), or a `row` with an event key, a side, a quantity and the text of a
price; `RowReads` are the checks on its columns. A file is opened when its turn
comes (`Open`), and what is read is what it held then. Each turn of the `while`
loop of `parse_csv` is one of `SkipBlank`, `SkipHeader`, `RefuseRow` and
`ReadRow`; the first refusal ends the replay (`stage = "refused"`). Book updates
are read whole before the trades are opened. An event remembers its line, so
that order and completeness of the merged feed can be told.
`Merge` is `merge_events`: `StableSort` is what `std::stable_sort` promises, an
entry's place being counted from the entries that go before it, and the check of
neighbors comes after it. `MergedFeed` is what the engine's runs assume of their
feeds (`Merged` in `ReplayEngine`), apart from the payloads.
`ReadsFail` lets `std::getline` end a file early: it does so when a read fails,
and no caller asks.
`Acceptable` is the contract of `docs/data_contract.md`, of a file as a whole: blank
lines are ignored, and what is left may begin with the header. The code asks for
more (`HeaderFirst`), and `ContractDecides` says that this is the only difference:
what keeps the contract and has a header behind blank lines is refused. It judges both files, also when the first is
refused and the second never opened: `Input` is what a file was when it was opened,
or what it would be.

### Configuration and command line

`ReplayRun` is one invocation of the program. `setup` is what it finds: its
arguments, a configuration file (its lines are comments, settings, or lines
without an equals sign), the two input files and what is at every place an
output could go. `ShowHelp`, `TakeForce`, `TakePath` and `RefuseArguments` are
the turns of `main`'s loop; `TakePath` takes whatever argument comes next.
`ReadEntry` and `RefuseEntry` are the turns of `parse_key_value_file`.
`Configure` is the rest of `load_replay_config` with the second validation under
the command line's output directory: `Given` looks up the values and defaults,
`Parses` is that no conversion throws, `Valid` is `validate_replay_config`.
`Accepted` judges the configuration both without and with the override: a
configuration without an output directory is refused even if the command line
gives one. A double is a fraction or `NaN`. A NaN passes the range check of
`queue_fraction` and is cast to an integer, which C++ leaves undefined;
`NaNCasts` holds what x86-64 and AArch64 do. On the first the value is refused
by the check behind it, on the second it becomes the fraction 0. The rounding of
`queue_fraction` to parts per million is that of the fraction written; the code
rounds the product of two doubles, which next to a tie may fall on its other side.

Then both files are hashed (`HashInput`; a hash is the content it is of) and
opened again as the feed (`ReadFeed` is a step of `MarketFeed`). `ReplaceFile` is
another process that replaces a file after it was hashed. The replay itself and
the writing of the artifacts, which have modules of their own, are one step each
here, and may throw. `published` is what the manifest and the results are of.

### Artifact writer

A directory is a function from file names to contents, and a content is the call
that wrote it and whether all of it arrived. `step` is the place in
`write_replay_artifacts`; `After` gives their order. Removing a directory takes
one file away per step, in any order. `Faults` selects what may fail: `look` (the
file system is asked and does not answer), `write` (a directory or file cannot be
created or a write is cut short, and the code is told), `flush` (the write is cut
short when the stream's destructor flushes it, and the code is not told),
`remove`, `rename`. A rename that fails comes after the old output was removed,
so that neither old nor new is left. `Crash` ends the process between any two
steps; the next call starts from the files left. The two spellings of a path,
plain and with a trailing slash, name the same output but different temporaries:
`out.tmp`, and `out/.tmp` inside it. The files a user may have at the output
before the first call are in `Found`. Two calls never run at once.

## 3. Runs

| run | instance | shows |
|---|---|---|
| `event_loop` | all feeds up to 2 events over times 0..2, ordered or not, with duplicates; handlers with up to 2 requests, up to 3 schedule calls | type invariant, clock never overtakes the queue, every event dispatched exactly once; on ordered feeds clock never backward, no look-ahead, refinement of `EventOrder`; termination |
| `strategy_run` | all feeds of 3 levels at 3 prices, quantities 0..2, for the queue imbalance with depth 1 and 2; all scripts up to 2 entries on all feeds up to 3 events over 3 keys; one timer; refused and silent configurations | intents can become orders; book and depth lists show what the feed last reported, best first; scripts followed in order, nothing twice; signals are those of the reported depth |
| `exec_two_sides` | 2 orders of 1 and 3 lots, 2 prices, both sides and types, one-sided books up to 2 lots a level, fees that overflow, any order of calls | type, registry, status, fills add up under unique ids, limits respected, refinement of `OrderLifecycle`, also after a call that threw half way, whose leftovers in the registry the next trade takes away |
| `exec_queue` | 3 buy limit orders of 2 lots at 2 prices behind visible queues, trades of 1 and 2 | queue ahead respected, time priority |
| `replay` | all merged feeds of up to 3 events, 2 orders, latency 0 and 1, automatic cancels after 1 and none, amounts -7..6 and fees that overflow | arrivals match orders, book as of arrival and no fill before, trade volume shared, fills earned from the queue joined, portfolio and orders agree, orders resolved at a normal end, aborts explained |
| `replay_cancel_race` | the same | **violated**: the documented end of stream is not reached when a fill beats a cancel |
| `portfolio_fills` | 4 fills over prices 0 and 2, quantities 1 and 3, fees 0 and 2, range -5..4 | amounts in range, no id twice, FIFO to the unit, accounting identity |
| `portfolio_mark` | 4 fills over 2 prices, 2 quantities and 2 fees, range -12..11 | **violated**: a fill is accepted whose portfolio cannot be marked |
| `artifacts` | 3 calls, forced or not, both spellings, 3 artifacts, crashes, and failures of every operation except the flush that fails unnoticed | no dead call's file in the temporary that is published, unforced calls destroy nothing and failed ones only what they were about to replace, publication whole and in one step |
| `artifacts_slash` | 1 call, both spellings, nothing fails | **violated**: `--force` with a trailing slash destroys old and new artifacts |
| `replay_run` | all book files up to 3 lines with trade files up to 2, 4 lines in all, of every kind of line, keys over 2 times and 2 sequence ids; all prices up to 4 characters of `0 1 5 . +`, and some with `x`, under 9 tick sizes and as ticks, at 8 bits; columns at their limits; all command lines up to 4 words, and up to 3 after `--config`, on every kind of output; every key with values of each kind, alone and in the pairs judged together; files replaced after they were hashed | a feed results exactly from files that keep the contract and have no header behind blank lines; it is strictly ordered and complete, its prices exact; settings as written; exit code, output and hashes tell what happened |
| `unread_inputs` | one row, reads that may fail | **violated**: a part of the inputs is replayed and published as a success |

*Bounds.* Ordering questions in the loop are between two events, with a third to
come between: 2 market and 3 internal events over 3 instants, with ties,
include every relative order of cursor, top of heap and new request. A request
may fall one instant after the last market event, so the queue outlives the
feed. Sequence numbers of the feed range over two values, enough for a tie and
a duplicate key. Sharing of a trade needs two own orders, and a third shows
that an order *between* them is not skipped; orders and trades up to 2 lots separate none,
part and all, and an order with one lot left passes the other lot of a trade on. The queue fraction is 1/2 where rounding matters (an odd visible
quantity rounds up) and 1 where the queue itself does. `MaxTimestamp` is small
enough in the engine's runs for the latency to overflow it, and `MaxAmount` for
the portfolio to refuse a fill. The range of
`portfolio_fills` is such that every check of `apply_fill` fails in some state
where all checks before it pass: notional, cash at both ends and by the fee
alone, realized PnL, fees, turnover, and the inventory (through fills at price
zero, which the code allows).
The artifact writer treats artifacts alike but for the first, the last, and the
ledger that `has_run_artifact` does not look for: with faults of every kind three
stand for the six. The unnoticed failure of a flush is left out, since with it
`PublishedAtOnce` does not hold (below). Three calls are one that leaves something behind, one that
meets it, and one that meets what the second made of it. `FailedCallKeeps`
lets a call that has written everything lose what it was about to replace, which
for an unforced call is a directory without files: a removal of the old output
that fails half way leaves half of it, and a rename that fails after it nothing.
A feed file needs three rows for the comparison
of neighbors to say something of rows further apart, and every kind of line in
each of three places for the header rule; two rows in each file, or three and one,
interleave in every way that the merge can tell apart. Prices of four characters at 8 bits
exceed the coefficient (three digits), the scale (three places) and the quotient,
each with the others in range. A command line needs five words to have an
output taken and forced, of which the first two are fixed there; without them
four words are every way of one option taking another for its path. Structure of
files, columns, command lines, settings and replacements are varied one at a
time (`Cases`): what is read of one does not depend on the others except through
the parser's tick size and format, which the column cases vary too.
Counters that are unbounded in the code are bounded by `MaxScheduled`,
`MaxOrders`, `MaxTimers`, `MaxFills` and `MaxCalls`, in guards. Deadlock is
checked except where the modelled program ends: the runs of the artifact writer
stop after `MaxCalls` calls, those of the program when it exits. A run takes less
than half a minute with two workers.

*What is not enumerated.* Where two instances or states can only go on alike, one
stands for both. A feed of `strategy_run` begins with an event that makes a level,
and shorter feeds are what a longer one has shown half way. A feed of `replay`
begins at time 0, its book updates change the book, and a trade that opens it is
the one at price 1, since there is no order yet that it could meet. A character
that no number has ends the scan alike in every longer text. Three runs give TLC a `VIEW`:
`CallsView` leaves out how the last call ended, which no call reads; `QueueView`
also the fills, which calls read only for the bound on ids that failing calls
use up, and in `exec_queue` every fee fits; `PortfolioView` renames the ids of the fills
in a ledger but for which of them are the same, since `apply_fill` asks nothing
else of them. No property of these runs speaks of what its view leaves out, but for `threw`:
`ExecTypeOK` of its type, and the steps of `RegistryMatchesStatus` of its new value,
which TLC has for every step it takes, whichever state the step leads to.

*Fairness.* `EventLoop::run` is a `while` loop that nothing interrupts, so weak
fairness of the loop's step is what the code does; nothing is assumed of when
`run` is called. A handler call is a single finite step. That the run ends also
needs handlers to make finitely many requests in all, which is true of the
engine (an order's arrival and one cancel each) and appears as `MaxScheduled`.
The modules that compose the loop inherit that a run ends; what holds at its end
(`OrdersResolved`) is stated there as an invariant, without fairness.

*Seeded errors.* Every property of a passing run has, next to the definition it
watches, an operator with a plausible bug (marked "Seeded error"); with it in
place of the definition, TLC finds the property violated. `PROJECT.json` pairs
them under `mutants`.

### What the violated runs say

1. `docs/event_loop.md:57` promises that pending events after the last market
   event are still processed, and `docs/execution_model.md:272` foresees a trade
   that fills an order whose cancel is due at the same time. With
   `cancel_after_arrival_ns` set, such a trade leaves a `CancelArrival` for an
   order that is filled; `process_cancel_arrival` throws
   (`src/latency_execution.cpp:172`), the exception leaves `run`, and the whole
   replay ends without results. `AbortExplained` shows that this, timestamp
   overflow, a fee that does not fit and a fill that the portfolio refuses are the
   only ways to an abort.
2. `docs/accounting.md:29` lists mark arithmetic among the reasons for which
   *applying a fill* fails. `apply_fill` does not look at the mark: a fill is
   accepted whose portfolio has no mark, since the doubled cash or the doubled
   equity does not fit, and `mark_to_market` throws later (in the engine: after
   the last event).
3. `apps/replay_cli.cpp:21` promises that `--force` replaces an existing artifact
   directory. The temporary's path is the output path's text with `.tmp` appended
   (`src/replay_engine.cpp:860`): after a trailing slash it is `out/.tmp`, and
   `remove_all(out)` deletes it together with the old artifacts. The rename fails,
   and the call throws with neither old nor new artifacts left.
4. `hash_file_content` throws "failed to read input file" if `input.bad()`
   (`src/replay_engine.cpp:658`), which it never is: the string stream reads from
   the buffer behind the stream, and a read error sets no flag of `input`. The
   `std::getline` loops of the parser and of the configuration end at a read error
   as at the end of the file. An input that can be opened and not read, a
   directory for one, is hashed as empty, replayed as empty, and reported as a
   success.

Three disagreements are known and have no run of their own. `docs/data_contract.md:7`
allows a header and says that blank lines are ignored, but the header is known by
its line number, in which blank lines count (`src/market_feed.cpp:220`): behind a
blank line it is parsed as a row and refused. `ContractDecides` has it as the one
exception (`HeaderFirst`), and does not hold without it. `write_text_file` tests the stream
before its buffer is flushed, and the destructor's flush may fail (a full disk)
and says so to nobody: with `"flush"` in `Faults`, TLC finds that `PublishedAtOnce`
(`docs/replay_engine.md:42`) does not hold, since a truncated file is published.
And `canonical_replay_config` prints the two thresholds with the six digits a stream
prints by default, so that configurations which differ beyond them have one
`config_hash`; `docs/replay_engine.md` says of the run hash that it changes when
canonical configuration fields change.

## 4. Proofs

All constants are arbitrary, under the assumptions named in the modules: sets of
numbers are sets of numbers, ppm rates are rates, a book has finitely many levels
that map prices to positive quantities (`BooksAssumption`, `MarksAssumption`), a
feed reports finitely many prices and never goes back
(`PricesAssumption`, `FeedsAssumption` of `StrategyRun`), a strategy emits lists of intents (`IntentsAssumption`), a feed's events are what
the parser lets through (`PayloadsAssumption`) and a feed is merged
(`FeedsMerged`, which `MergedCorrect` establishes for the parser), and a case of
the program is a command line, files and directories (`CasesAssumption`). TLC
evaluates each on the instances it checks. Seven theorems have a hypothesis
besides, named below. Checked by `tlapm` to the last leaf.

*Induction.* No library theorem that takes a predicate as a parameter can be used.
Induction over the subsets of a finite set, and over 0..n, is by minimal
counterexample: the set of counterexamples, if it is not empty, has an element
none of whose parts is in it (`MinimalSubset`, `FirstBad`), since the strict
subsets of a finite set are well founded. The folds and sums of the community
modules are recursive functions over subsets: that such a function exists is
shown first (`AddsExists`, `FoldExists`), by which the `CHOOSE` behind it has
the expected value, and then what it is for one element more. What every module
needs of this is in `DataLemmas`.

*Event loop* (`EventLoopProofs`). `LoopInv` is `TypeOK`, `QueueNotInPast` and
`QueueNumbered` (numbers in the queue and the trace are below the counter and
differ); it is inductive for any feed and any handlers and gives
`LoopTypeCorrect` and `NoEventOvertaken`. For ordered feeds it is strengthened
with "the next market event is not behind the clock", which gives
`NeverBackward`. `LoopImplementsOrder` proves the refinement: initial states map
to initial states, every step of the loop maps to a dispatch, a scheduling or a
stutter of `EventOrder`; the one place where the market-first rule and the
heap's comparison are needed together is that the chosen event is the least of
the mapped pending set. `HandlersSeeThePast` (no look-ahead) needs, besides
`OrderKept` through the refinement, an invariant that relates trace and cursor:
every event of the feed before `next` is in the trace (`MarketsDispatched`). An
event at or before the time of an internal one that was not yet dispatched would
then have to follow it in the trace, against the trace's order.
`EventsDispatchedOnce` needs `OnceInv`: every number below the counter is in the
trace or in the queue, in one of them and once, and the length of the trace and
the size of the queue add up to what was read and scheduled. A handler call that
throws after some of its requests keeps it.

*Abstract order* (in `EventLoopProofs`). `OrderKept`: the trace is strictly
ordered and no pending event should already have been dispatched. With the
refinement it holds of the loop too.

*Execution* (`ExecutionProofs`). `ExecInv` is the conjunction
of `ExecTypeOK`, `RegistryHoldsActive` and `StatusMatchesQuantity`. None is
inductive alone: that a trade leaves a filled order with exactly its quantity
needs the order to have been active with something remaining (status against
quantity), that it is among the active ones needs the registry to match the
statuses, and that the amounts are numbers needs the types. There is one lemma
per call. For these, `Left` and `Least` keep what an order gets between nothing
and what remains of it, whatever the sums are. `ExecTypeCorrect`,
`RegistryCorrect` and `StatusCorrect` follow, the first with a lemma on what each
call leaves in the registry (`CallKeepsRegistry`), where a trade that returns has
erased all that is filled (`TradeClears`). `QueueCorrect` (a resting order is
filled only behind an empty queue, and with no more than the queue left of the
trade) rests on that of a queue and the volume that meets it one is used up
(`OneIsUsedUp`), and that the volume reaching an order is at most the trade.

The other properties need the sums. `FillsInv` says that the fills are finitely
many, that an order's filled quantity is the sum of its fills, and that these are
within its limit and no better than earlier ones. A call adds fills with new ids,
for a sweep one at each level that it takes from, in the order of the levels; the
amounts taken at the levels add up to what the order is filled with
(`FillsCorrect`, `FillPricesCorrect`). A trade reaches the
resting orders by rank, so `PriorityCorrect` is that an order with volume left
to it has had everything ahead of it served: what reaches it is what the earlier
ones left (`SumSubset`). `ExecImplementsLifecycle` shows each call a
step of `OrderLifecycle` for every order or a stutter; an order that sweeps is
filled by a positive amount since a level of a positive quantity is.

*Replay engine* (`ReplayEngineProofs`). `EngineInv` holds the execution layer's
invariants, the types of the loop, that nothing to come lies behind the clock,
and, until a handler throws, `InStep`: no two events of the queue are the same;
an arrival in it is that of a pending order at that order's time, a cancel that
of an active or a filled order; every pending order has its arrival and, if
orders are canceled, every active one its cancel; everything in the registry is
active; a replay that returned has an empty queue. `ArrivalsMatchOrders` alone
is not inductive: a cancel that finds its order still pending would break it,
and only the invariant says that there is none. It also excludes `ClockBackward`
from the engine. The lemmas about calls are those of `ExecutionProofs`, so that
`EngineOrdersCorrect`, `EngineImplementsLifecycle` and `EnginePriorityCorrect`
carry the execution layer over to the replay, where new orders are submitted in
the middle of a trade. `VolumeCorrect` adds up what a trade fills and what it
takes off the queues at its price: for the orders in rank order each takes from
what is left. `AbortsCorrect` goes through the calls that throw and finds a
reason for each; its hypothesis `WellFormed` is that the strategy's intents
pass the `Order` constructor (`IntentsBecomeOrders` shows that those of both
strategies do), for without it the constructor's refusal is one more reason.
`BookSeenCorrect` shows which book an arriving order meets: the one that every
event of the feed up to its time has made, and no other. Its invariant `Seen`
keeps the replay's book equal to a fold over the events read so far
(`BookAfter`, unrolled with the fold lemmas of `DataLemmas`), and every
order that has arrived before all events not yet read; that the market goes
first at equal times is what makes the order's own step keep it.
`PortfolioFollows` joins the execution layer to the accounting. Its invariant
`Ledger` says that between handlers the fills are numbered 1 to n, that each can
be accounted for and is of its order's side, that the portfolio's ledger has
seen all of them and no other, and that position and cash are sums over them.
A handler may make several fills, so `apply_new_fills` is unrolled one by one
(`InTurnFolded`): it either applies every one or is stuck before the first that
the portfolio rejects (`NewFillsApplied`), and then the handler has thrown. The
sum over the fills becomes one over the orders by `FillsAddUp`
(`GainedByOrders`).

`QueueEarnedCorrect` follows a limit order over its life. Its invariant `EarnedInv`
says of each order that has arrived, until a handler throws, that it was served
as its queue allows (`Served`): what it swept and the queue it joined are fixed by
the book it met, which `Seen` and `BookSeenCorrect`'s `StepSeesBookAsOf` tie to the
events of the feed (`ArrivalMeets`), and remain so when more is read
(`SweptKept`). In the queue (`Queued`) the volume traded at its limit that did not
fill it has come off the queue ahead, and it is filled only once that is empty.
This is not what `QueueEarned` says, and is what carries it: the bound alone would
let a later trade fill the order with volume that an earlier one already spent.
An order that was never in company gets exactly its share, since all of a trade
reaches it (`AloneEarns`); one whose limit was traded through (`Jumped`) is
bounded by no queue. A trade step adds to what was traded and moves order and
queue together (`TradeServes`, `MovesInQueue`); that it comes after the order's
arrival is `Seen` again.

*Portfolio* (`PortfolioProofs`). The identity of `docs/accounting.md` does not
carry itself through a fill, since it speaks of the position and the mark and
not of the lots. `PortfolioInv` is `PortfolioTypeOK`, that all open lots are of
one side, and that cash is what was paid in and earned, less the fees and what
the open lots have cost (`BooksBalance`). Matching is a fold of `Close` over the
lots: `MatchingFolded` unrolls it, and lot by lot (`CloseBalances`) the cost of
what is left, less the profit taken, plus what the rest of the fill will cost
(`Balance`) grows by exactly the cost of the lot. That a fill larger than the
position opens a lot of the other side only once all others are closed keeps
the lots on one side. The same unrolling gives `MatchedHolds`, that a fill moves
the position by exactly its quantity, for the engine. `IdentityCorrect` then needs that what the lots gain at a
mid price is their value less their cost (`GainsBalance`), and for a book
without a mark that a position of zero has no lots (`FlatHasNoLots`), which is
where the lots' side matters.
`FifoCorrect` writes bought and sold shares as sequences with one entry for each.
`Fifo` says that the realized PnL is what pairing them one by one in order earns,
that the open lots are the rest of the longer sequence, in its order, and that
the position is the difference. It is inductive together with `PortfolioInv`: lot
by lot a fill closes the first shares still open (`ClosedFirst`), and more shares
on one side leave the pairs before them as they were (`EarnedKept`) and add only
their own (`EarnedMore`).

*Strategies* (`StrategyRunProofs`). `RunInv` is `RunTyped` (types, that an
accepted configuration is valid and its script sorted, and that nothing happens
before it), `BookShows`, `IntentsValid` and `StrategyInv`. `BookIsLastReports`: a
book that shows the last reports up to an event shows them after the next one
(`ApplyShows`), and the depth lists are the levels of the book, ranked by
price. `ScriptIsFollowed` needs that neither the script nor the
feed goes back: the entries that come due at a key all follow those emitted before,
so that the turns taken at one event extend the turns of the events before it
(`TurnsExtend`); that `std::sort` leaves entries with equal keys in any order does
not matter to it. `SignalsFollowDepth`, for any `Divide`, has for each event read whether the imbalance
crossed the threshold there (`CalledIs`), and that the run stopped only where the
volumes do not fit. `IntentsBecomeOrders`, quantity, type and limit price alike, is what `AbortsCorrect` asks of a
strategy.

*The program* (`ReplayRunProofs`). `ParsedInOrder`: by induction over the lines
read, appending a row that follows the last one keeps the whole sequence
strictly ordered; the check of neighbors is enough for any number of rows.
Around the parser's invariant (`ParserInv`) `RunInv` says that nothing is read
before the configuration is accepted, and that the tick size is one that is
written in it or a default; replaced files do not matter, since a file is read
as it was opened. `MergedCorrect` follows every line of a source to an event of
its own (`ReadInv`), and the stable sort's places, counted as cardinalities, to a
permutation: the places are distinct and as many as events, so each is taken;
the check of neighbors makes the total order strict. `InputsCorrect` needs
`HashInv`: a file no one has replaced is still what it was, on disk, as a hash
and as the text being read. `SettingsCorrect` and `ExitCodeCorrect` rest on
`CliInv`, which says what the program knows of its case until its end: the
arguments read so far, and which of them are options and which are paths of the
option before (`PathIn`, `ArgsRead`); the entries read so far, no key twice
(`EntriesRead`); what the accepted configuration is (`Settled`), and that no
output was touched. At the end `Tells` says how it ended. 
`ContractCorrect` is an equivalence between what the program does and what the
contract says of the files, so that its invariant `ContractInv` has both
directions: while nothing was refused every line read was to be read
(`LineReads`), the tick size is one, and the events are in the order of their
lines; and a refusal has its reason (`Refusal`): a bad tick size, a line that does
not read, rows whose keys cross (`RowsCross`), or a key that both files have
(`SharedKey`). `RowIsGood` and `AcceptableIs` say that the parser's checks are the
contract's words. A file that is replaced by another is still a file
(`ReplacedThere`), so that an unopened one can be judged. `PricesCorrect` has
`PriceInv`: an event has the price that the text of its row converts to, and
neither the file nor the parser's settings change once events were read with
them; what the text converts to is the next paragraph.

Hypotheses: all but `ParsedInOrder` and `PricesCorrect` assume `~ReadsFail`, that no
read of an open file fails (the run `unread_inputs` shows what happens otherwise);
`SettingsCorrect` and `ExitCodeCorrect` also that the mark `None` is no record
(`NoneIsNoRecord`), which TLA+ leaves open.

*Numbers* (in `ReplayRunProofs`). `ScanMeans`: the scan accepts exactly the texts
that are decimal notation and gives their value. Its invariant is over prefixes
of the text (`ScannedTo`): after each character the coefficient is the positional
sum of the digits so far (`Value`), the scale the number of them behind the point;
a further digit scales the sum by ten (`SumScaled`), and overflow is
refused exactly where the sum does not fit. The zeros that are dropped at the end
are as many as there are (`DecimalIs`, `FitsIs`). `ConvertsIs`: a price converts to
ticks exactly where the quotient is a whole number that fits, and to that number;
the code's quotient, of coefficients scaled up to a common power and cancelled, is
that of the values (`SameQuotient`). `WrittenBack`: the text that `ticks_to_price`
writes of a price, where neither its product nor its power of ten overflows, is
read back as the same price, through the digits it writes and what they mean
(`WrittenMeans`, `FormatMeans`). That
there are powers of ten with the expected law is `PowersExist` and `PowerAdd`.

*Artifact writer* (`ArtifactWriterProofs`). `UnforcedKeepsAll`: an unforced call
changes the output only if there is nothing at it. The invariant `WriterInv`
says that the output is no plain file once the first checks have passed, that
temporaries are directories or absent, and that an unforced call reaches the
removal and the rename only with an output that is empty. `ProgressInv` says
for each place in the call what the temporary and the output hold by then, during
and after the removal a part of a directory that may be replaced (`Part`); it
gives `TemporaryIsOwn` and `FailuresKeep`. Neither property is inductive: what
the temporary holds at the rename depends on its having been cleared and made
anew before the first write. `PublishesAtOnce` adds, place by place, that every
file so far is whole (`PublishInv`), under the hypothesis that `"flush"` is not
among the faults; with it the property is false (section 3).

*Only model-checked.* Liveness (`RunEnds`), since the prover has no fairness. Every
invariant, action property and refinement that a passing run checks is stated by
a theorem.

## 5. Not modelled

To be modelled still: two replays that write to one output at once, which share
its temporary (`src/replay_engine.cpp:862`; the writer's calls follow one another
in `ArtifactWriter`); `ReplayMetrics`.

Left out for good: the Python bindings and the benchmarks, which are wrappers
around `run()` without state of their own; the limit orders that
`ExecutionSimulator::execute_order` rejects and the orders that its factory
leaves `New`, which no program of the repository asks for; and the text and hash
of traces, books, orders, configurations and manifests.
