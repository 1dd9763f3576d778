# A TLA+ model of NQBook

NQBook consumes a market-by-order (MBO) feed from an adapter plugin, keeps one limit
order book per instrument, computes features in feature plugins, samples them into rows
(by time, by events, by trades) and writes the rows to one file per sampler. This
directory models that program in TLA+, checks the models with TLC on small instances, and
proves theorems about eleven of them with TLAPS for every value of the
constants. Everything below `src/` is referred to by its path in the repository, with
`src/src` for the sources and `src/include` for the headers; the SDK is `src/shared/nqcppsdk`.

Contents: [parts](#the-parts-of-the-system) ·
[modules](#modules-and-the-code-they-model) · [runs](#what-the-runs-check) ·
[fairness](#fairness) · [proofs](#what-is-proved) · [findings](#where-code-and-manual-part) ·
[limits](#what-is-not-modelled)

## The parts of the system

| part | code | state it keeps | operations |
|---|---|---|---|
| order book | `Orderbook.cpp` | maps of price levels, map of orders, intrusive lists of the orders of a level, totals and counts | add, cancel, modify, trade by order or level, clear |
| order pool | `Orderbook.cpp` (`OrderPool`) | chunks, a free list threaded through the field that also links a level's orders | `Alloc`, `Free`, `Reset` |
| book view | `Feature/OrderbookView.cpp` | none | best level, n-th level |
| pipeline table | `PipelineTable.cpp`, `Pipeline.h` | a pipeline (book and engine) per instrument, feed statistics | `Apply`, `Close`, `Consume` |
| feature catalog | `Feature/FeatureCatalog.cpp`, SDK `feature.hpp` | the columns of all plugins, sampler templates with column indices | `LoadPlugin`, `AddSampler` |
| feature engine | `Feature/FeatureEngine.cpp` | a plugin state per plugin, the values last read and whether they are fresh, samplers | `OnEvent`, `Advance`, `Close`, `ReadAll` |
| sampler | `Feature/Sampler.h`, `Sampler.cpp` | the open bar, counts, the baseline of the cumulative columns | `Advance`, `OnEvent`, `Close`, `Emit`, `ResetBaseline` |
| adapter engine | `Adapter/AdapterEngine.cpp` | a thread, the event queue, the instruments it has named | `Run`, `Discover`, `Push`, `Stop` |
| synthetic adapter | `plugins/adapters/synthetic`, SDK `adapter.hpp` | the position in a generated feed, a count of calls | constructor, `Next`, `FindInstrument` |
| writer engine | `Writer/WriterEngine.cpp` | a thread, the row queue, draining, abort and failure flags | `Push`, `Run`, `Finish` |
| session | `Session.cpp` | the loop of the main thread, the result of the run | `Run` |
| Parquet writer | `Writer/ParquetWriter.cpp` | Arrow builders with the rows of the open row group, open files | `Write`, `Flush`, `WriteInstruments`, `Close` |
| CSV and JSON output | `Feature/RowBuffer.h`, `Writer/CsvWriter.cpp`, `Report.cpp` | rows, one behind the other in one vector | `Push`, `WriteSamplerCsv`, `PrintCatalogJson` |
| plugin handles | SDK `feature_host.hpp`, `adapter_host.hpp` | a `dlopen` handle, a function table, a plugin state | construct, move, assign, destroy |
| commands | `main.cpp` | loaded shared objects, samplers, plugin states | `check`, `run`, `check-feed`, exit codes |
| arguments | `Config.cpp`, SDK `params.hpp` | none | parsing durations, sampler specs and parameters |

How they interact. The *adapter thread* calls the adapter plugin's `next`, looks a new
instrument up (`Discover`, under a mutex) and pushes the event into a bounded queue. The
*main thread* pops events, creates a pipeline for an instrument it sees for the first
time, advances the samplers of **all** instruments to the event's time (which may emit
rows for bars that have ended), and applies the event to its own book, plugins and
samplers. Rows go into a second bounded queue, which the *writer thread* drains into the
Parquet writer; with `--out-format csv` they stay in a `RowBuffer` per sampler until the run has
ended. A signal handler sets one flag. Everything is undone by destructors, in
the reverse order of the declarations in `Run` of `main.cpp`.

What is hard about it, and what therefore makes each part correct:

* **book**: a handler changes up to six pointers of an intrusive list, may free the level
  it is working on, and keeps totals by differences. Correct: lists are never broken, lost
  or closed into a ring; no freed level is read; price-time priority holds; the depth that
  features read is that of the orders.
* **pool**: one field links both the free list and the levels. Correct: no slot is used
  twice, none is lost, a chunk is added only when every slot is taken.
* **threads**: two waits for room, two joins, a stop flag, a failing writer and a throwing
  plugin. Correct: no event lost or reordered, the files hold a prefix of the rows, the
  exit code is truthful, a stop request ends the process.
* **sampling**: timestamps step back or jump, a `Clear` arrives in the middle of bars of
  several lengths, one read of the plugins is shared by several samplers. Correct: every
  row says exactly what happened in its interval, bars stay on their grid, nothing is
  missing at the end.
* **columns**: a cell is found by three offsets and an index chosen by name. Correct: the
  value under a name is the one of that feature.
* **files**: any Arrow call may fail, and two parties close the writer. Correct: sound
  prefix, one footer, success only for whole files. Text output: what a reader of the format
  reads back is what was there.
* **handles**: four movable owners of two kinds of resource, with constructors that throw after
  the resource has been acquired. Correct: every `dlopen` is closed once and every state destroyed
  once, by the code that made it, while that code is loaded.
* **commands**: eight resources, each acquisition may fail. Correct: states die before the
  code that destroys them, no half-built pipeline stays, the exit code names the first
  failure, a wrong command line touches nothing.
* **synthetic adapter**: five parameters decide about end, failure and pauses, each absent,
  malformed or any number. Correct: a feed without gaps that ends where it was asked to, and stays ended.

`PROJECT.json` lists the hazards one by one, each at its line with the properties that
cover it.

## Modules and the code they model

| module | models | composed of |
|---|---|---|
| `Orderbook` | every feed handler and private helper of one book | |
| `OrderbookView` | what the features read of a book, and the SDK's `MockBook` to compare it with | `Orderbook` |
| `BookSpec` | *abstract*: what a price-time-priority book promises | |
| `OrderbookMC` | the refinement mapping from `Orderbook` to `BookSpec` | `OrderbookView`, `BookSpec` |
| `OrderPool` | the free list and its chunks | `PoolSpec` |
| `PoolSpec` | *abstract*: a set of places | |
| `Session`, `SessionMC` | adapter, main and writer thread, the two queues, signal, exit code, unwinding | |
| `Sampler` | one sampler, as operators on a record | |
| `PipelineTable`, `PipelineTableMC` | pipelines, feature engines, statistics | `Sampler` |
| `FeatureRow` | bundles, catalog, engine: from a feature's value to a named cell | |
| `Quoting` | the quoting of CSV and JSON, and readers of both | |
| `CatalogReport`, `CsvWriter` | the JSON of a catalog; row buffers and CSV files | `FeatureRow`, `Quoting` |
| `FeatureRowMC` | the constants of the three | `CatalogReport`, `CsvWriter` |
| `ParquetWriter`, `ParquetWriterMC` | buffering, row groups, failures, closing | |
| `PluginHandles`, `PluginHandlesMC` | the four owning handles of the SDK | |
| `Config` | parsing of sampler arguments, building of parameters, as pure operators | |
| `Lifecycle`, `LifecycleMC` | the three commands from arguments to exit code | `Config` |
| `SyntheticAdapter`, `SyntheticAdapterMC` | the synthetic adapter through the entry points of `NQ_ADAPTER` | |
| `*Proofs` | theorems about `Orderbook`, `OrderPool`, `Session`, `PipelineTable`, `ParquetWriter`, `SyntheticAdapter` | the module named |
| `LifecycleProofs` | theorems about both | `Lifecycle`, `PluginHandles` |
| `FeatureRowProofs` | theorems about the three | `CatalogReport`, `CsvWriter` |

**Orderbook.** A pointer to an order is its id, a pointer to a level its side and price,
`Nil` the null pointer. Freed objects keep a slot, so a dangling pointer is a visible state.
Handlers are single steps, since a book belongs to one thread, except that each pass of
`FillLevel`'s loop is a step: the loop works on a list that its own body shrinks, and
`sweep` holds its locals. `qty <= 0` is represented by 0. Timestamps and the event counters
are left out; the violation counters are represented by the one an event bumps.

**OrderbookView.** `DepthTrue` sets what `Best` and `Level` answer, from the totals the book
keeps by differences, against what the SDK's `MockBook` (`feature_testing.hpp`) answers when it is
told the orders one by one: the book that plugin authors test with and the one their plugin runs on agree.

**BookSpec** has a sequence of orders per side and price, and nothing else. `Orderbook`
implements it with `queue` as the walk along the lists, taken before a trade's loop begins
and after it has ended.

**OrderPool** has slots with a `next` field; the book's writes to that field (a new order
behind *some* order in use, an order unlinked from behind *some* order in use) are over-approximated:
which neighbour an order has is `Orderbook`'s business. **PoolSpec** knows only which place each
order has and how many places there are.

**Session** gives every access to something shared (queue operation, atomic load or store,
stop request, join) a step of its own. Events and rows are numbered; how many rows an event
emits is open. `nlib::single_queue` is a bounded sequence. Memory is sequentially
consistent; the code releases and acquires `ended_` and `draining_`, so nothing older can
be seen behind them. The wait loops appear as two steps, the failed `try_push` and the
look at the flags. Of exceptions, those of plugin creation are modelled (the ones the code
provides for), not `bad_alloc`. CSV output happens after the run and is not in `Session`.

**Sampler / PipelineTable.** A sampler has one cumulative column and one snapshot. The cumulative value is
the example plugin's traded volume (`TradeVolume`), the snapshot is the number of the last event the book took,
so a row tells exactly which event it was taken after. Prices and book contents are not
here; `filled`, what the book returned for a trade, is an input.

**FeatureRow.** A plugin is a sequence of features, a feature a sequence of columns. A value is
the record of the feature and column it belongs to and of what the feature had been shown by
then, so that a value in the wrong cell is always visible. The actions are `LoadPlugin` and `AddSampler` with
their refusals, the making of the engine, and the events. **CatalogReport** and **CsvWriter** are operators on that
state: the text that is printed, character by character because the property is about the
characters. **Quoting** also holds a JSON and a CSV reader, written from the formats' rules and
not from the code, as small automata; the properties feed the text back through them.

**ParquetWriter.** The k-th row of a sampler is the number k in each of three columns. A
file is the sequence of what was written to it: batches, a footer, torn writes. `Write` is
the writer thread's handling of one row, with the append that fails at any column; `Flush`
fails at any `Finish` or at `WriteRecordBatch`; `Close` may be called by `Finish` and by the
destructor, one loop pass per step.

**PluginHandles.** A slot is a place in memory for a handle. Every constructor, the failing ones step by
step (open, accept or reject), both move operations and the destructor are actions that the
program may take in any order on any slots, the assignment to itself included. Two obligations of the caller are guards: states
are made through an open handle, and the last handle of a shared object is given up after the
states made by it. `Lifecycle` shows that the commands meet the second (`StatesOutlived`).

**Lifecycle / Config.** `Config` splits an argument into the parts the parsers look at and keeps
what they do with the numbers (a number that does not fit, a product that wraps).
`Lifecycle` follows `main.cpp` step by step: what is acquired, which exception is thrown with
which fallback, and the destruction of the locals. `cause` records the first thing that
went wrong and is read by no action. The session is one place where instruments are met and
the run ends; `Session` has the details.

**SyntheticAdapter** starts from the texts of the five parameters and runs through the getters of
`Params`, the constructor and `Next`. A caller may go on calling after the end, as `AdapterSandbox::Drain` may.

Conventions: *A plausible bug* above a definition marks a mutated variant that no
specification uses. It exists so that a property can be shown to notice the bug:
`PROJECT.json`, `mutants`, pairs each property with one.

## What the runs check

| run | module / configuration | states | shows |
|---|---|---|---|
| `orderbook` | `OrderbookMC` / `Orderbook.cfg` | 44,322 | `TypeOK`, `LinksOK`, `DepthTrue`, `SweepLevelLive`, `SweepTerminates`, `ImplementsBookSpec` |
| `order_pool` | `OrderPool` / `OrderPool.cfg` | 80,592 | `FreeListSound`, `ImplementsPoolSpec` |
| `session` | `SessionMC` / `Session.cfg` | 183,856 | `EventsInOrder`, `LoopLeftDrained`, `UnknownOnlyIfUnnamed`, `WrittenIsPrefix`, `ExitCodeTruthful`, `StopsWhenAsked`, and no deadlock |
| `pipelines` | `PipelineTableMC` / `PipelineTable.cfg` | 352,680 | `RowsTrue`, `BarsAsOf`, `BarGrid`, `CountRows`, `AllReported`, `StatsTrue`, `EntriesInBounds` |
| `feature_rows` | `FeatureRowMC` / `FeatureRow.cfg` | 16,096 | `CellsUnderTheirNames`, `JsonReadsBack`, `CsvReadsBack` |
| `output_files` | `ParquetWriterMC` / `ParquetWriter.cfg` | 28,851 | `RowsPrefix`, `FooterLast`, `ReportedFilesWhole` |
| `plugin_handles` | `PluginHandlesMC` / `PluginHandles.cfg` | 364,193 | `OpenAsHeld`, `OneOwner`, `OwnFunctions` |
| `lifecycle` | `LifecycleMC` / `Lifecycle.cfg` | 118,166 | `StatesOutlived`, `NoHalfPipeline`, `ExitCodeTold`, `RefusedUntouched`, `CatalogUnambiguous`, `PeriodsUsable`, and no deadlock |
| `synthetic_adapter` | `SyntheticAdapterMC` / `SyntheticAdapter.cfg` | 12,604 | `FeedWellFormed`, `EndsAsAsked`, `StaysOver`, `FeedEnds` |
| `session_rows`, `fine_sums`, `sampler_named_instruments` | | | each finds one violation, see [below](#where-code-and-manual-part) |

Properties are stated in words above their definitions.

Bounds, and why they are enough:

* `orderbook`: ids 0, 1, 2 (0 is the id that means "trade by level"), two sides, two
  prices, quantities up to 2. Three orders are the fewest with one in the middle of a list;
  two prices let a modify move an order out of and into levels; a quantity of 2
  distinguishes partial fills from whole ones.
* `order_pool`: four ids and seven slots, a first chunk of 1: chunks of 1, 2 and 4 are
  added, and a Clear in between makes the next chunk start large. `MaxSlots` bounds the pool.
* `session`: three events of two instruments (one without a name), an event queue of 2, a
  row queue of 1, batches of 2, up to two rows per event: both queues fill up, a batch ends
  both by its size and by an empty queue, and an event emits more rows than the row queue
  holds.
* `pipelines`: four events, three instruments, a table with one slot at the start, timestamps
  that step back by 1, advance by 1 or jump by 3, bars of 1 and 2 with and without
  `fill_gaps`, and counts of 2. A jump skips a whole coarse bar. `MinTs = 0` keeps timestamps from 0 on.
  Ids are below `IdRange = 8`, which stands for 2^32: 2 and 3 make the table grow, and 7 is the largest id, for which
  `instrument + 1` is 0. It falls outside as the first id and after 2, when doubling leads to six entries, and has an
  entry after 3, when it leads to eight. `CHECK_DEADLOCK FALSE`: a closed table has no next event, and neither has one
  that was indexed outside.
* `feature_rows`: two bundles of two features, with one and two columns; up to two plugins, two samplers (with all
  columns, with some out of order and repeated, with one that may be missing), four events, periods 0 to 2.
  Quotes, commas, newlines, tabs and backslashes occur in the names, docs, paths, parameters and
  symbols. Of two table entries the first has no pipeline and is skipped.
  `CHECK_DEADLOCK FALSE`: after `MaxEvents` events the feed is over.
* `output_files`: two samplers, four rows each, row groups of 2: full groups, a partial
  last group and an empty buffer at the end. `CHECK_DEADLOCK FALSE`: the writer is gone at the end.
* `plugin_handles`: two shared objects, two plugin slots and two instance slots of each kind, three
  addresses for states. Two slots let one handle be moved into another that holds something; a third address is
  left over when both instances of a kind are alive. An address is used again after its state has been destroyed. The run has
  symmetry in everything that has no order, and only invariants.
* `lifecycle`: two plugin names and up to two plugins, samplers and parameters, two
  instruments, 6-bit integers with units of 1 and 16: among the sampler arguments are a
  duration that fits, one whose product wraps to 0, one that wraps to a wrong positive period, one
  number that does not fit at all, and each malformed shape the parser rejects. How a session ends is
  an open input here; the order in which `main.cpp:179` tests for it is what `ExitCodeTruthful` of `session` covers.
* `synthetic_adapter`: each parameter absent, malformed or one of a few well-formed texts, zero among
  them. `MaxEvents` cuts an endless feed at 5 events and `MaxCalls` an adapter that answers `Again`
  for ever at 20 calls; both are above what a feed with an end needs.
  `CHECK_DEADLOCK FALSE`: an adapter that was refused, or cut, is called no more.

## Fairness

Three specifications need it. `Orderbook`: weak fairness of `FillLevelPass`, because a
loop that has been entered runs on its own thread until it is left. `Session`: weak
fairness of each of the three threads, because the operating system schedules each of
them; the wait loops yield or sleep, and never block on anything else than the joins that
are modelled. Nothing is assumed of the adapter beyond that `Next()` returns: `Adapter` is
one fair action that may answer `NQ_NEXT_AGAIN` for ever, so the feed need not end, and
`StopsWhenAsked` therefore speaks of a signal *or* the end of the feed. No fairness is
assumed of signals. `SyntheticAdapter`: weak fairness of its next-state relation, because the adapter thread
calls `Next` over and over until it has an answer that ends the feed.

## What is proved

All by TLAPS (SMT, Zenon, LS4), from the named assumptions of the modules and, where it is said, a
hypothesis of the theorem. Every safety property that a run checks and the code keeps, every action property and both refinements are
theorems here, for every value of the constants.

**`OrderbookProofs`**: `TypeCorrect`, `ListsSound` (`LinksOK`), `NoFreedLevelRead`
(`SweepLevelLive`), `TotalsInductive`, `DepthSeen` (`DepthTrue`) and `Implements` (`ImplementsBookSpec`), for every finite set of ids, every set of prices and both sides.
The inductive invariant is `TypeOK /\ WellFormed(book) /\ SweepLevelLive`. `WellFormed`
adds to `LinksOK` that the lists are *acyclic*: there is a rank that grows from each order
to the next. Without it the induction fails: a ring of orders beside an order that is alone
in its level satisfies every local condition of `LinksOK` except the count, and the
step that needs it is `AloneInLevel`: when an order has no neighbours it is the *only*
order of its level, which is why the level may be freed with it. The proof is organised
by helper: `UnlinkDetaches` (after an unlink every other order is still linked, and the
book is `Detached` from one order), `LinkWellFormed` (linking a detached order makes the
book whole again), and from these `RemoveWellFormed`, `RequeueWellFormed`,
`FillWellFormed` and `ModifyWellFormed`; each handler then is a few lines.

`Totals` says that the quantity of every level, which the code keeps by adding and subtracting, is the
sum of the quantities of the orders that are linked to it. Every helper has a lemma (`UnlinkTotals`,
`LinkTotals`, ...): it changes a quantity and the level's total alike, or takes an order and its
share out of the one and into the other. `DepthSeen` then needs what `Level` steps through: `NthLevelIs` shows that n
steps from the best price lead to the open price with n better ones on its side, or past the end, and
`OpenIsResting` that the open prices are those of the resting orders.

`Implements` is the refinement `Spec => ImplementsBookSpec`. Its invariant adds two parts. `Queued`: the walk from the
head of every level, which the refinement mapping takes for the queue, is a sequence that has each order of the level once, with its quantity
(`QueuesIs` shows that the recursively defined walk is *any* sequence that runs along the `next` pointers, so the proofs name the
sequence and never walk). Again there is a lemma per helper: `UnlinkLists` takes an entry out of the sequence, `LinkLists` puts one at its
end, `ReduceLists` changes a quantity in place; the steps of the handlers (`AddStep`, `CancelStep`, `ModifyStep`, `TradeOrderStep`) compose them. The one that is
not obvious is `ModifyQueues`: the code leaves an order that is alone in its level where it is, though its quantity
grows, and BookSpec puts it at the end; `AloneInQueue` shows that this is the same queue.
`LoopInv`, for the loop of `FillLevel`: what is left of the level's queue is the queue from before with the first g orders gone and x taken from the
next (`Parts`), and all that is gone adds up to `asked - remaining`. Every pass keeps that (`TradedMore`), and where the loop ends it is
BookSpec's `AfterTrade` (`TradedAll`), so the last pass is the whole trade and the earlier ones are stutters.

**`OrderPoolProofs`**: `TypeCorrect`, `SlotsApart` and `Implements`, the refinement
`Spec => ImplementsPoolSpec`. The invariant says that *there is* a sequence of all the idle slots, each once, through
which `free` and `next` run; every operation shows the sequence of the next state. Three lemmas carry the mapping:
`EmptyListMeansFull` (a null `free` means that every slot is taken), `ListHeadIdle` (what `Alloc` hands
out is idle) and `OnOrderTakes`. `FreeListHolds` is `FreeListSound`: the recursively defined walk from `free` is that
sequence read from its end (`WalkIsRead`, by induction over what is left of it), so it is as long as there are idle slots
and meets each of them.

**`SessionProofs`**: `TypeCorrect`, `NoEventLost`, `LoopDrainsQueue`, `NamesResolved`,
`FilesHoldPrefix` and `ExitCodeSound`, for every feed, both capacities, every batch size and every number of rows. The
inductive invariant is layered, each part proved for every action from those before it:

1. `EventsInv`: types and event order; after `ended_` nothing is pushed.
2. `LoopInv`: where `Ended()` was read true the queue can only shrink, so a queue then
   found empty stays so: the argument for the order of the two reads in `Session.cpp:39`.
3. `NamesInv`: an event in the queue has its instrument in the map.
4. `RowsInv`: the last row popped, the rows queued and the rows written are consecutive, until a failure.
5. `ExitInv`: the flags the exit code is computed from mean what they say, and both threads have been joined.

**`LifecycleProofs`**: `Outlived`, `WholePipelines`, `Told`, `Untouched`, `NamesApart` (`CatalogUnambiguous`) and `PeriodsAsAsked`
(`PeriodsUsable`), for every set of plugins, arguments and
instruments and any integer width. The invariant adds to `ExitCodeTold` and `RefusedUntouched` what has been acquired at each place of a command (`Placed`), which
plugins are loaded (`Loaded`), and whose states there are (`Made`: a pipeline has the states of the first plugins while it is made, and then of all).
A second invariant, `Catalog`, says that `samplers` is the beginning of the parsed arguments, that no two of it
share a name, and where in a command all have been parsed and added; `PeriodsUsable` follows from what the parser returns for an argument
that it does not refuse.

Its second part is about `PluginHandles`: `HandlesTyped`, `OpensBalanced`, `OwnedOnce` and `CallsOwnFunctions`, for
every finite number of slots. `HandlesInv` has the three properties in stronger parts: `FnsMatch` (the function table of a handle
points into the object it holds), `Mapped` (an object that has made a state is held by a finished handle), and for states
`ViaMatch`, `Owned`, `Injective` and `NotDangling`. `OpenAsHeld` counts
the holders of an object with `Cardinality`; the lemmas `Counts`, `Taking` and `ClosedCounts` say how a step changes that number.

**`ParquetWriterProofs`**: `TypeCorrect`, `FootersLast`, `PrefixKept` (`RowsPrefix`) and `ReportTrue`
(`ReportedFilesWhole`), under `Instruments \notin Names`: no sampler is
named like the instrument table. That is the assumption the code lacks (see the findings). The invariant `RInv` about the rows has for each file
either `Whole` (nothing has failed: the rows in the file's sound part and those in the builders are all that were given, in order and in every
column) or `Partly` (the sound part has the first n rows, and the builders either go on from there or are out of step for good, so that no
later flush can add a batch that counts). `Reported` follows the loop of `Close` through the files: those behind it are
flushed and have their footers.

**`PipelineTableProofs`**: all seven properties of `pipelines`.

* `InBounds` (`EntriesInBounds`), for any ids in any order, the largest included. `GrownIs` takes the resize apart: it makes room for
  the id, or the id is the largest one and twice the size does not exceed it. The invariant `IInv` keeps with the bounds that the
  table has never been smaller than at its start, so an id that falls outside shows that neither the slots at
  the start nor an earlier id took up half of the range.
* `RowsAreTrue` (`RowsTrue`) and `EverythingReported` (`AllReported`), from `TInv`: the volume of every engine is that of its instrument's events
  since the last Clear, a cache that is marked fresh equals it, every row is what was traded since the row before,
  and a sampler's baseline is the volume as of its last row, which is also the sum of its rows since the last
  Clear. The cache is why this is not obvious: the values are read once and shared by all samplers that fire.
* `BarsOnGrid` (`BarGrid`) and `BarsBeforeTheirEnd` (`BarsAsOf`), from `BarsInv`: until Close, the next boundary of a time sampler
  is the end of the bar that its instrument's clock is in, and the events that no row has seen all lie in that bar. Both
  assume `MinTs \in Nat`, as the run does: C++ division rounds towards zero, and the first bar of a feed that starts before 1970 may be
  two lengths long. A clock never runs backwards, whatever the timestamps do, which is why the rows rise.
* `ReportCounts` (`StatsTrue`), from `StatsInv`, which states the same of the feed and of every instrument.
* `EveryNth` (`CountRows`), from `CountsInv`: the number of events that count is the number of rows times N, and what is in `count`.

**`SyntheticAdapterProofs`**: `TypeCorrect`, `WellFormed`, `EndsInPlace` and `Final`, the last one an action property, for any texts
of the parameters.

**`FeatureRowProofs`**: `CellsRight` (`CellsUnderTheirNames`), `CsvRight` (`CsvReadsBack`) and `JsonRight` (`JsonReadsBack`), for
all plugins with any features and columns, all choices of columns, and any names and texts.

* The inductive invariant is `RowInv`. `CatalogRight`: the catalog's columns are those the plugins declare, in the order of the plugins, and a
  sampler's columns are the ones of the names it has, in the order asked for. `EngineInv`: the states of all features, the baseline of every
  cumulative column and every row are functions of the log of events. It says nothing of `values`, the cache that the samplers
  share, because `fresh` is reset by every event before anything looks. The heart is `ReadAll`: every plugin writes its columns from its own
  offset on, and that puts the columns one after the other as the catalog lists them (`WrittenTwice`, and `UptoParallel`:
  lists of lists of pairwise equal length stay in step when they are joined).
* The readers take a text one character at a time. `TakenConcat` and `AfterIs` say that a text may be
  read part by part, and then each printing function has a lemma that says what its output does to *any* reader that
  comes upon it: `CsvCell` and `CsvCells` for a cell and a line; `JsonIs` and `PieceIs` for a value and an element or member, so that
  `ListIs` and `MembersAre` put them together at any depth. `FileReadsBack` and `CatalogIs` compose them as the printers do. That
  `RowBuffer` keeps the cells of all rows in one vector needs that every row of a sampler is as long as its list of names, which is part of `RowInv`.
* `CsvRight` and `JsonRight` have the hypothesis `NumbersPlain`: what printf writes for a number has no comma, quote, newline, colon,
  bracket or brace. Digits are left out of the model, so this cannot be derived. `JsonRight` also has `TextsAvoid({Return})`
  and `FilesAvoid({Return})`: the plugins' names, docs, paths and parameters have no control character but newline and tab, for the rest of which
  `Return` stands. The code does not check that (see [below](#where-code-and-manual-part)); `TextsRight` carries it over to the catalog.

Where a property speaks of a sum over a set, of the largest element of a set, of a walk or of a loop, the proof needs
induction, and the library's induction theorems have an operator for a parameter, which no installed prover can
instantiate. The proofs take a way around it: the well-foundedness of `<` on the natural numbers is a fact without such a parameter, and the
lemma `Induct` derives from it that a *set* which has 0 and with every number the next one has all of
them. A recursive function is then shown to exist and to be the only one of its equation, and
`MapThenFoldSet` to add up the elements one by one.

### What is only model-checked

* `SweepTerminates`, `StopsWhenAsked` and `FeedEnds`: liveness and `ENABLED` are beyond the installed backends.

## Where code and manual part

Three runs each check one statement of `docs/manual.md` that the code does not keep.
`PROJECT.json`, `findings`, quotes the lines.

* `session_rows`: the writer thread finds the row queue empty, rows are pushed, `Finish` sets
  `draining_`, and the thread then returns with the rows in the queue; the exit code is 0. A
  second look at the queue after `draining_` has been read would close the gap.
* `fine_sums`: a Clear in the middle of a coarse bar discards what that bar had
  accumulated, the finer bars have already reported it. `RowsTrue` is the statement that holds.
* `sampler_named_instruments`: a sampler of that name and the instrument table share one file.

Noted while modelling, without a run of their own:

* A bar without events of the instrument has a row as soon as another instrument moves the clock, and the first bar
  is not skipped, although `docs/manual.md:184` reads otherwise; the tests agree with the code.
* For timestamps before 1970 the division in `Sampler.h:82` rounds towards zero, and the bar after such an event ends one multiple too late.
* For instrument id 2^32-1, `instrument + 1` in `PipelineTable.cpp:18` is 0, so the table is only doubled, and line 21 may index it
  beyond its end; `docs/manual.md:20` makes no exception for that id. `ResolveOutside` is an action of its own, after which nothing is modelled,
  and `EntriesInBounds` says exactly for which id and after which feeds it can happen. Computing the sum in `std::size_t` would mend it.
* A duration whose product overflows to a *positive* value is accepted with a wrong period (`Config.cpp:46`);
  `PeriodsUsable` claims the period only where the product fits.
* `key=value # note` in a `.params` file keeps the note as part of the value, where `docs/manual.md:143` says that a `#` starts a comment.
* A column name is the plugin's and the column's name with a dot between them (`FeatureCatalog.cpp:20`); names with dots of
  their own can make two columns coincide.
* `instruments=0` makes the synthetic adapter divide by zero (`synthetic_adapter.cpp:34`). `NextDividesByZero` is an action of
  its own, after which the adapter is called no more; `FeedEnds` allows for it.
* `JsonString` (`Report.cpp:37`) leaves control characters other than newline and tab as they are, which JSON does not allow in a string;
  `JsonReadsBack` is claimed for texts without them.
* `CsvWriter.cpp:26` ignores the results of `fprintf` and `fclose`, so a full disk goes unnoticed, against `docs/manual.md:230`.

## What is not modelled

* `PrintCatalogText` and the feed report of `Report.cpp`: layout around counters that are modelled where they are computed.
* The scanning of `.params` files and command lines character by character, `GetDouble`, CLI11's own checks, and `--fill-gaps` on the way
  from the command line to a sampler (a sampler's flag is an input of `PipelineTable`).
* The ABI structs of the SDK, the entry points `NQ_FEATURES` generates, which forward each call, and `FeatureSandbox`, a test harness.
* Failures of stdio in the CSV writer: the code has no step that could see one.
* `nlib` (not part of the repository): `single_queue`, `memory_pool` and the record types are modelled by how
  the code uses them. In particular a refused `try_push` is assumed to leave its argument intact.
* Weak memory beyond acquire and release, `bad_alloc`, and overflow of quantities in the book.
* One composition: `Session` with `ParquetWriter` and `Lifecycle` in one state space. Each has the others as an open input (a
  row may be refused at any time; a session may end in any way), and the product is out of TLC's reach at bounds where each part is interesting.
