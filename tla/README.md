# Verification of btc5m

TLA+ models of the parts of this repository (`src/src/btc5m`, Python) that keep
state: what they do step by step, TLC runs that check them on small instances,
and TLAPS proofs of the most important properties for every value of the
constants. `PROJECT.json` lists the components, the runs, the source lines each
definition stands for, the hazards the properties are aimed at, and the theorems.

    tlc -workers 2 -config Research.cfg MCResearch        # a run
    tlapm RecordersProofs.tla                             # the proofs of a module

## 1. The system

The program records Kalshi crypto markets that settle every 5 to 15 minutes,
trains models on what it recorded, and makes paper decisions with a model that
was reviewed and promoted. It never trades live: the live adapter refuses every
order. Data flows one way:

    venues, exchanges ──► collectors ──► JSONL files ──► datasets, features
                                              │                 │
                             (live tail)      │                 ▼
                                              │      training, calibration ──► staged artifacts
                                              ▼                                     │ review, promote, swap
    notifications ◄── decisions ◄── paper runtime ◄──── promotion manifest ◄────────┘
                          │
                          ▼
           ledgers, positions, lock-profit, reports, dashboard

Processes are started from the command line and share the data directory and
nothing else: no lock file, no transaction, and JSON files that are rewritten in
place. Threads exist in three places: the notification queue's worker, the
high-resolution recorder's writer and compressor, and that recorder's sources.

| Component (source) | State | What is hard | What makes it correct | Modules |
|---|---|---|---|---|
| Notification queue (`notifications/queue.py`) | two lanes, counts of waiting and folded LOW notes, counters, a worker thread | enqueues between the worker's pop, fold and send; a full queue; a join that times out | no important note lost, none twice, order, exact counts, flush and close that mean what they say | `NotificationQueue`, `Outbox` |
| Paper promotion, calibrator swap (`paper_promotion.py`, `paper_calibrator_swap.py`) | one manifest, its backups, stamped copies of artifacts | each file write is a step, crashes, two operators, names of one-second grain | readers only get a pair that a review let through; swaps can be undone | `PaperPromotion` |
| High-resolution writer (`hires/writer.py`) | a bounded queue with three policies, open segments, a compression queue, two threads | stop() closing files under a writer that did not stop in time; the compressor's exit | every row accounted for, priority 0 never dropped, no file touched after it was closed | `HiResWriter` |
| Its segment files (`hires/writer.py`, `hires/compaction.py`) | segments, copies, modification times | two compressors in two processes, each may die in the middle | a flushed row stays readable until it expires | `HiResSegments` |
| High-resolution recorder (`hires/collector.py`, `sources.py`, `kalshi_ws.py`) | bounded queues, buffers of samples, the local book | rows emitted while others are drained or while shutting down; reconnections | joined rows use what was known then; the book is one the venue had | `HiResCollector`, `KalshiBookFeed`, `KalshiRestPoller`, `OrderBook` |
| Collector (`collector.py`, `client.py`, `start_reference.py`) | the cycle's targets and deadline, start prices, progress | a discovery of three calls while windows change; stale answers | a cycle follows the window that runs; a start price stays | `MarketCollector` |
| Trades (`collector.py`, `backfill_trades.py`) | a watermark, remembered ids | page caps, late publication, restarts | what was passed is on disk | `TradePrints` |
| Labels, readiness (`settlement.py`, `readiness.py`, `labels_audit.py`, `model_dataset.py`) | label files | two writers whose rows interleave | counted windows stay counted | `SettlementLabels` |
| Feature rows, freshness (`features.py`, `underlying.py`, `deribit_*.py`, `paper.py`, `freshness.py`, `source_health.py`) | feeds' latest values, snapshots, buffered files | ages taken at one moment and judged at another, crashes before a flush | rows say what was received; a row that passes is as fresh as it says | `FeatureRows`, `FeedFreshness` |
| Paper runtime (`paper_runtime.py`) | rows already seen, caps and cooldown | a feed that grows while it is read, the same line read again | caps, one decision a row, none out of time, shadow never trades | `PaperRuntime` |
| Paper experiments (`paper_experiment.py`) | a manifest and a ledger each | stop and finalize rewrite the same file; crashes; live configurations | the ledger is what was decided; nothing completes that should have been aborted | `PaperExperiment` |
| Policy, edge policy (`policy.py`, `edge_policy.py`, `uncertainty.py`) | calibration buckets | missing inputs, order of gates | no candidate without every gate | `EntryPolicy`, `EdgePolicy` |
| Positions, lock-profit (`position_lifecycle*.py`, `lock_*.py`, `policy_runtime.py`) | ledgers of lots, locks | competing exits, rounding, lots of several runs | a locked pair pays what was promised | `LockProfit`, `PositionLifecycle`, `PaperPositions` |
| Live gates (`execution/*.py`, `live_readiness.py`, `order_planner.py`) | counters of a session, switches and files | settings changed between two commands | nothing is ever ready for submission; limits taken together | `LiveGates` |
| Low-latency loop (`low_latency_runtime.py`, `hotpath_state.py`) | state in memory | requests of any length | decisions on the venue's book while the market is open | `HotPath` |
| Backtest, frequency (`executable_backtest.py`, `trade_frequency.py`) | one pass over rows | caps and cooldowns | the frontier replays the backtest | `ExecutableBacktest` |
| Maker study (`maker_entry.py`) | an imagined order | the queue it would have stood in | a certain fill is one | `MakerEntry` |
| Splits, training (`splits.py`, `train_baselines.py`, …) | windows | labels that come late | what judges a model was not fitted on | `WindowTraining` |
| Discovery (`discovery/*.py`) | trial registry, vault | panels that grow between runs | the vault is out of the search's reach | `Discovery` |
| Repricing lag (`reprice_lag*.py`) | one market's rows | look-ahead | what is reported would have been found at the time | `RepriceLag`, `CycleLag` |
| Statistics, reports, models, CLI, configuration, notifiers, dashboard | none, or append-only files | numerical code, I/O | | not modelled |

## 2. The modules

A module is named for what it models. `MC…` modules hold what the configurations
need that a `.cfg` cannot write down; three of them compose parts that share no
state. A behaviour of such a module is one of *one* part, chosen in the initial
state: the state spaces are added and not multiplied, and each part is as it
would be alone.

| Composite | Parts |
|---|---|
| `MCPaper` | promotion (three instances; `MCPaperPromotion` has what is staged), live gates, a session of orders, freshness, feature rows (two), the low-latency loop |
| `MCPaperRuns` | two experiments in a row; one that lasts |
| `MCRecorders` | segments, book feed, REST poller, collector of the recorder, market collector, trades, labels |
| `MCResearch` | positions, backtest, maker orders, mining, training, edge policy, two lag studies |

`SequenceLemmas` holds facts about sequences, sums and least elements that several
proofs use; the other `…Proofs` modules hold the theorems.

**NotificationQueue.** Everything under the condition's lock is one action
(`Enqueue` with its four outcomes, `Take`, `ClearSending`, `Close`); what the
worker does outside of it (`Fold`, `Send`) is a step of its own, so enqueues fall
in between. The bounded send and the exception handler are the two outcomes of
`Send`. `flush` may time out at any moment; `JoinReturns` covers a join that
succeeded and one that did not, after which the process may exit and kill the
daemon thread. History variables (`offered`, `accepted`, `evicted`, `delivered`)
are read by properties alone. `Outbox` is what a queue promises: a bounded set of
notes that trades only its oldest LOW one for room and reports each once, HIGH
first; `Promise == INSTANCE Outbox WITH …` is the refinement mapping. Left out:
`async_enabled=False`, which only counts, latency samples, and wording.

**PaperPromotion.** A promotion is `PromoteReview`, `CopyModel`, `CopyCalibrator`,
`BuildPromotion`, `TruncateManifest`, `FillManifest`; a swap and a rollback are similar.
`Path.write_text` truncates and then writes, hence two steps for the manifest. A copy
(read, stamp, write) is one step under a name nobody reads yet; both names are formed
within one second of `_ts()`. `NamesOnce` says of a step that no copy and no backup
replaces another of its name; `OncePerSecond` makes it a condition. Of the three
instances, "two" (two operators) and "undo" (one, who may stage more) keep it; in
"crash" a single operator's second swap of the same second overwrites the first one's
backup, commands die at any step and somebody deletes backups (`Lose`). `Alone` is one
command at a time, `Within` the bounds. A copy's hash is a number that no other copy
has. Refusals and dry runs write an audit line only and are not steps. `Valid` is
`load_active_promotion`: what a reader accepts.

**HiResWriter.** `Submit` has an action for each way `put` ends; the blocking
policy waits in `Block` and decides in `Unblock`, with other submitters in
between. The writer takes a batch (`Take`), finds or opens the segment of a row
(`Reuse`, `Open`, `OpenFails`) and writes it (`WriteRow`) as separate steps, since
stop() closes segments concurrently after its join timed out. The final drain's
batch of 5000 and the loop's of 2000 are one constant, and compression is assumed
to be switched on (`compress_closed_files`). Left out: the synchronous mode,
flushing and buffering (they are in `HiResSegments`), latency metrics, and the
filters of `record_raw` and `record_normalized`.

**HiResSegments** takes one stream's files: rows written and buffered, `Flush`,
rotation, the compression thread (`WorkerTakes`, `Begin`, `Copied`, `Removed`), and
the command `hires-compact` in another process, which knows only modification
times. Either may die at any step; the copy in progress stays half written, and
what both were copying is `torn`.

**KalshiBookFeed** is the WebSocket source: the venue's book changes on one side
of a channel, snapshots and increments arrive on the other, the connection may
break, and the market changes when a window ends. `OrderBook` holds the arithmetic
on levels. A market may be found a little before its window, as
the venue may call it active by then (`Early`, `client.py:66`; `Overrun` is the same after
the close). **KalshiRestPoller** is the source that asks instead. A lookup stamps its
time, pages through the list of open markets and then through that of unopened ones
(`ListMarkets`, a call a page; `ListFails` drops a list), and chooses; only then is the
book asked for. Every call takes up to a unit of time, is answered with what the venue
called active at some moment of it, and may fail; the market found is kept until the
hand-off. `KALSHI_HIRES_ACTIVE_ONLY` is as by default, so that nothing but a running
market is followed. **HiResCollector**
has the sources' bounded queues, the drain one source after the other while they
go on, and the joined rows. `known` and `gone` in a joined row are history.

**MarketCollector.** `ListMarkets` is one of the three calls of a discovery,
`Choose` what is made of them (phases as of the discovery's start, targets,
deadline; a market may be active up to `Early` before its window), `Iterate` one pass of the record loop with the samples of both feeds,
the cached start prices and the decision which rows are scored. **TradePrints** has
the venue's tape with trades that become visible late, the poller with watermark
and back-off, and the backfill in chunks; an answer is any list of the page's
trades, newest first. **SettlementLabels** has two programs that append label rows,
market by market (`GetMarket` has the venue's answer, `BuildRow` gives the row its time,
and another program may act in between), and three readers of the file.

**FeatureRows** follows one market: the feeds' last values and samples, Deribit's
snapshots, the features (returns as the pair of prices they are made of), the
diagnostic decision, and the ledger and note at the end of a cycle.
**FeedFreshness** is the same loop with the time its calls take and the recorder's
buffers: what a row says of its age, what the runtime accepts, and what the
preflight reads from the last lines of files.

**PaperRuntime.** The collector's `Record` and the clock's `Tick` go on between any
two steps of the loop. A row is a market, a moment and a *kind*: whether book,
reference and depth are there, what the policy says, whether its sources were
fresh, whether the edge policy agrees. All of these are functions of the row
alone within a run, so the control (which gate comes first, what each
changes) is modelled here and the arithmetic behind a verdict in `EntryPolicy`,
`EdgePolicy` and `FeedFreshness`. `LatestRows` is the tail read, with the newest row
of a market and the order of first appearance; `Read` marks what it read as seen,
eligible or not; `Gate` handles one row; `Report` hands the poll's decisions over.
Left out: the single batch pass, `max_iterations`, the change to the next feature
file at midnight, and lines that are only partly written (which the reader skips).

**PaperExperiment** EXTENDS PaperRuntime: `Loop` are the loop's own steps,
`ReportPoll` is the loop's `Report` with the two callbacks `run_experiment` passes
in. `Begin` and `Refuse` are preflight and gates for a configuration that does or
does not block live submission, a promotion that may be in force or not, evidence
and freshness that may be there or not, and the `--skip-shadow-warning` flag. The
promotion is looked at twice, at the preflight and by `Load`, and may have changed
meanwhile, so each look is a choice of its own. `Crash` may end the process at any
step, `Fail` is an exception that `run_experiment` catches, and
`StopReads`/`StopWrites` are the two halves of stop(). At most one experiment runs
at a time.

**EntryPolicy**, **LockProfit**, **PositionLifecycle** are operators on a row: the
gates of the policy, what a lock of two sides pays after fees, and the ladder of
rungs that decides what is done with a position; amounts are integers (cents,
hundredths), and a comparison of floats at equality is a choice (`Noises`).
**PaperPositions** composes them: the simulation enters rows of settled markets,
the loader adds up lots of several runs, locks are recorded, markets settle, and
two replays ask what managing would have changed. **EdgePolicy** EXTENDS EntryPolicy
by the calibration buckets of what has settled (`TotalOf` adds over the predictions of
a bucket), the freshness gate and the conservative edge; `EdgeAssumption` names what
the thresholds have to be to each other. **ExecutableBacktest** passes once over the rows: the backtest's
entry of a window and the frontier's entries under caps.

**MakerEntry** puts an imagined buy order into a real book: price levels with a
queue, cancellations from anywhere in it, offers, takers on both sides; `truth` is
when the first contract would have been bought, and the two fill models see only
snapshots and prints. **Discovery** is a mining run as its steps over a panel that
grows, with the vault's arithmetic. **WindowTraining** divides labelled windows by
every splitter's own rounding. **RepriceLag** and **CycleLag** record rows and run the
study at any time. **HotPath** and **LiveGates** are described in their headings.

## 3. The runs

| Run | Instance | What it shows |
|---|---|---|
| `nq_all` | 4 enqueue calls of 2 LOW, a MEDIUM and a HIGH event, capacity 2, default settings | nothing accepted is lost or reported twice, counts are exact, flush and close mean what they say, refinement of `Outbox`, delivery of important notes |
| `nq_stranded` | the same | finding 1 |
| `paper` | `MCPaper`: nine parts | readers only get a reviewed pair, a promotion in force stays so until a finished command replaces it, a swap can be undone; nothing becomes ready for submission, the session's limits hold together; rows and decisions are as fresh as they say, and a row's returns are of the samples received by then; the hot path decides on the venue's book |
| `pp_laundered` | 1 operator | finding 2 |
| `hw_live` | 2 streams, queue of 1, every policy, I/O errors, fair threads | rows accounted for and in order, priorities, stop, compression; rows settle, rotated files get compressed |
| `hw_backlog` | 2 streams | finding 3 |
| `pe_runs` | `MCPaperRuns`: two experiments in a row over a row each; one that lasts over three rows of two markets | caps, cooldown, one decision a row, in time, ledger, completed runs; live configurations complete nothing, shadow is harmless, every process ends |
| `pe_stop` | 1 experiment | finding 4 |
| `research` | `MCResearch`: eight parts | a locked pair pays what was promised and its replay finds it again; candidates passed every gate; the frontier is the backtest; certain fills happened; what judges was not searched or fitted on, and the studies report nothing they could not have known |
| `recorders` | `MCRecorders`: seven parts | flushed rows, drained events and passed trades stay; the rebuilt book was the venue's; rows and cycles are about a market that was opened and ended just now at most; joins are point-in-time; repairs last |
| `labels_gates` | `SettlementLabels`, 1 market, 5 label rows | finding 5 |
| `mining_seal` | `Discovery`, 24 windows, 2 runs | finding 6 |

The largest are `recorders` (4.5 million distinct states), `paper` (3.24), `hw_live`
(0.85) and `pe_runs` (0.83). All of them switch off the deadlock check: a queue that
was closed, a process that ended, or a clock at its bound has nothing left to do.

**Bounds.** *Queue*: four calls are what it takes to fill a queue of two, fold a
repeat, and evict the note it was folded into, with one call to spare. *Promotion*: two
series and two families are the smallest number that can be confused; four
copies are two promotions or one promotion and two swaps; three seconds give
every file name a before, a now and an after. *Writer*: a queue of one with three
rows is full with one waiting; three segments let a stream rotate or reopen.
*Runtime*: three rows let a third candidate meet a daily cap that two filled; four
ticks let one market leave its window while the run goes on and let a row go stale
(`RowMaxAge` 1) unseen. With `MaxPerWindow` = `MaxDaily` = 2 it is the daily cap and the
cooldown that bind; the proof is for all values. *Experiments*: the second one meets
what the first left behind, a crashed or refused manifest included. *Recorders*: two
segments, since compressors disagree about one and retention removes the older; a
clock of 6, which is rotation, grace and retention once over; for the poller a
window of five units and lookups of four calls, so that a lookup spans a market's end and
a market can be followed to the hand-off and beyond it into a third window; queues of one, which
are always full or empty; two windows for the collector, and a cycle that straddles
the close; three trades with a page of two; one market with five label rows, which is
each writer twice and one more, over two moments. *Research*: three rows or fills where a cap is two;
panels of 20 and 21 windows, where the vault first moves; nine windows and a lag of
two for the splitters, around the thresholds of their rounding. Each bound is a named
constant (`Max…`, `Last…`, `…Clock`) and appears in a guard.

**Fairness.** `NotificationQueue`: the worker alone is fair, a daemon thread the
operating system schedules and whose sends are bounded by a timeout; nobody has to
enqueue, flush or close. `HiResWriter`: writer, compressor and stop() once called
are fair (threads, and joins with timeouts); a submitter that blocks is woken or
gives up. `PaperExperiment`: the process, the clock and a stop command that was
begun; beginning, stopping, recording, failing and crashing are not. The
process's fairness is what a loop without locks gets from its scheduler. Every other
specification is without fairness and states safety only.

**Findings.**

1. `nq_stranded`: evicting the LOW note that stands for folded repeats lowers
   `_pending_low` and leaves `_coalesced_extra`; the count is reported with a
   later note of that event or never (`queue.py:195`, against `queue.py:15`).
2. `pp_laundered`: `_copy_calibrator_stamped` stamps every copy as calibrated, and
   replacement candidates are always staged as diagnostic; so a swap serves an
   artifact that was diagnostic when it was staged (`paper_calibrator_swap.py:274`,
   against `paper_promotion.py:18`).
3. `hw_backlog`: the compressor ends when stop is set and its queue is empty,
   which is before stop() queues the last segments (`hires/writer.py:298`, against the
   comment at 210).
4. `pe_stop`: `_finalize` writes the manifest it has held since the start, so an
   experiment that stop() marked ABORTED is COMPLETED in the end, and goes on
   deciding until its time is up; the STOP flag is read by nobody
   (`paper_experiment.py:414`, against the docstring at 605).
5. `labels_gates`: the readiness gate keeps a market's last label row, the audit the
   one with the best status; two programs append rows they fetched at different times,
   so an UNKNOWN row after an OFFICIAL one removes the window from one count only
   (`readiness.py:91`, against `labels_audit.py:108` and `readiness.py:153`). The run has
   it for rows written in the order they were built in, where the last row is also the
   latest. So it shows as well that the audit does not do what its module says,
   "latest row wins; OFFICIAL beats … on equal recency" (`labels_audit.py:10`):
   `_better` (82) looks at the status first and at the time only among rows of the same
   status, which is what the test `test_dedup_prefers_official_then_latest` expects. That
   counted windows stay counted (`GateHeld`, in `RepairsLast`) is true of the code and
   would not be of the module's rule: `Better_latest`, the mutant of this property, is that
   rule, and with it the two gates would agree here.
6. `mining_seal`: every miner draws the vault from the panel of the day and verifies
   none of an earlier run, so a run searches windows an earlier survivor was validated
   on (`discovery/engine.py:65`, against `docs/ALPHA_DISCOVERY.md:103` and
   `discovery/holdout.py:1`, which says that the search is never allowed to see it).

**Met on the way.** The models say what the code does where its texts say something
else, or where it surprises; these are not runs of their own.

- *Freshness*: the runtime's row-age threshold is max(5 s, two polls)
  (`paper_runtime.py:609`) while the gate uses ages as of the row, so a candidate may rest
  on older quotes than `freshness.py` lists; an underlying event's age is the maximum
  over spot and perpetual receipts, hence refreshed by either (`low_latency_runtime.py:39`
  for the hot path); a REST book has no `quote_age_ms`, so `decide_kalshi`'s
  STALE_QUOTE gate never acts on it; a Deribit poll whose endpoints all failed still
  yields a snapshot, which shadows the last good one.
- *Cycle's end*: ledger, simulated fills and notes take each market's last decision,
  and the cycle ends seconds after the close, so a candidate is counted but not told
  once a book was recorded after the close; the pipeline writes rows and ledger only at
  its end.
- *Experiments*: caps are in memory (`paper_runtime.py:249`) and start anew with the
  process; rows over the limit are marked seen and never decided (662).
- *Swap*: eligibility uses staging metrics (`paper_calibrator_swap.py:71`); the pattern
  for the newest model also matches replacement calibrators (`executable_backtest.py:353`).
- *High-resolution recorder*: a credential that is configured but unreadable selects the
  WebSocket source, which returns, and no REST source is started; Ctrl+C ends a session
  and the record loop starts the next; a crash while compressing leaves both files, and
  a reader of a partial `.gz` raises; two compressors and a crash can lose a segment
  (`torn`), and an active grace below the rotation period loses rows; sequence numbers of
  the book are kept and gaps not checked.
- *Collector*: a market can fall between the calls for open and for unopened markets; a
  discovery that straddles the close leaves the cycle without cap (against the
  docstring at 591); the backfill forgets seen tickers at a restart.
- *Positions*: `position_lifecycle.py:442` compares with a tolerance where
  `lock_profit.py:330` is exact, so a LOCK of quantity 0 is possible; sells are never
  possible at run time, as rows carry no bid sizes; `conservative_continue_ev` is unused.
- *Edge policy*: the buckets a run builds contain rows of the windows the model was
  fitted on (`paper_runtime.py:208`, against `uncertainty.py`); the best side is taken over
  both sides, a rejected one included; three axes of the sweep change nothing;
  without labelled rows the calibration objection vanishes.
- *Studies*: the filter of cycle study 1 compares the best return of any horizon
  (against the comment at `reprice_lag.py:693`); events of flow alone never pass it; study 2
  fills the line from labels, so rows qualify only after settlement; the maker study's
  optimistic fill is not an upper bound (`maker_entry.py:173`).
- *Training*: what a review sees was unseen only while labels are at most two windows
  late and because 70 % is below 75 %; the dry run's embargo is on one side; a
  three-way split of five to seven windows has an empty calibration part.
- *Discovery*: one more window resets the trial budget, as the fingerprint covers the
  panel; runs that overlap do not count each other's trials; 600 scenarios are cut to 250;
  a net edge of exactly zero counts as missing.
- *Live gates*: a fractional quantity is valid and sent as 0; open risk only grows,
  `daily_loss` has no writer, and the risk preflight always blocks.
- *Settings* (not modelled): an empty environment value of a switch counts as off, the
  kill switch included; malformed values leave the lower layer's; a quoted "false" in
  YAML is true.

## 4. What is proved

The proofs hold for any number of events, operators, artifacts, streams, rows and
markets, for any capacity and for any bound. They assume what the modules ASSUME
(types of the constants, capacity at least one), which TLC evaluates in the runs. The
assumptions that say more than a type:

- *recorders*: an HTTP call and a receive call take one unit of time at most; the
  rotation period is at most the active grace, trades appear no later
  than the poller's back-off, a cycle is no longer than a window and its grace;
- *positions, backtest*: the base scenario has the backtest's limits, and the policy's are
  not looser than those (the defaults are so);
- *edge policy*: the minimum profit and the minimum final edge make 4 cents together
  (2 and 2 by default), a contract is charged a fee, the policy's limit on the age of
  the underlying is not above the feed's, rows that call their book good have both
  sides uncrossed (`book_ok` in `paper.py`), and the values of a sweep's axis get
  stricter;
- *mining*: what a panel holds out, with the embargoes around the newest windows and three
  blocks at most, leaves something to search for every panel size (from 20 windows on,
  with an embargo of 2);
- *training*: a model that may be served was judged on windows of its own
  (`train_min_windows` is 150, an embargo one window), and a label is late by no more
  windows than the judged 30 % of those;
- *feature rows*: Deribit is polled at least once in its age limit (30 s and 180 s by
  default), and the minimum edge and the size of an order are positive;
- *lag studies*: a row is later than the one before it; the floors of the returns are positive
  and not above the defaults, of which the shortest return has the least;
- *promotion*: `OncePerSecond` or `Alone`, where a theorem or its instance states it.

**NotificationQueueProofs.** `IInv` is the inductive invariant: `TypeOK`,
`DepthBounded`, `NoAcceptedNoteLost`, `HealthBalances`, and four parts that no reader
of the code asks for but the induction does. `LaneShape`: the high lane holds HIGH
notes only, the other none. `IdOrder`: ids grow along a lane and are all below the
number of calls. `LaneOrder` with the facts that what is in flight is older than what
waits. `WorkerShape`: how the worker's place, `_sending` and the note it holds go
together, and that it exits only from an empty queue. From it follow
`CloseDrains`, `FlushTrueMeansReported` (from the state before the step) and
`QueueImplementsOutbox`, where every action maps to an action of `Outbox` or to a
stutter: the eviction of the oldest LOW note is `Exchange`, since ids order a lane.
`Folding` is what `FoldedOnce` needs besides: what was folded is what is pending, what
the worker carries and what was reported, and the worker carries nothing unless it is
sending. Two sums are in it. The one over the reports is a recursive function whose value
is shown to exist by its definition on `0..n`; the one over the events is a fold that
takes elements in an order nobody knows, so that it changes by one with one summand is
shown by way of the smallest set where it would not.

**HiResWriterProofs.** `IInv` joins the properties with `HandShape`
(which segment a stream's handle is), `OpenAreOwn` (a segment that is open is its own
stream's and has not been handed over) and `StopShape` (how far stop() and the writer
can be from each other). It gives `CompressedOnce`, `CleanStop` and, as an action
property, `ClosedIsFinal`. `RowsInv` stands on it and follows the rows themselves,
by their arrival numbers: those that were passed on come before those that wait
(`PassedOn`), each is in one place (`Reckoned`, `WrittenOnce`), in a segment of its own
stream, of which the open one is the newest (`WrittenToOwn`, `NewestIsOpen`), and numbers
grow along a stream (`StreamOrder`). `RowsAccounted` and `StreamOrder` follow.
`DropPolicyIsKept` counts the droppable rows of the queue by injections between
the places before and after a step, instead of by induction over the sequence.

**PaperExperimentProofs.** `IInv == TypeOK /\ RuntimeInv /\ FiledInv`. `RuntimeInv`: the
rows in hand are new, of the poll and in time; what was decided is what was seen and
judged; caps and last entry are functions of the decisions of the run. `FiledInv`: what
the process knows of its experiment is what is on disk, except for the poll that is not
reported yet. The recursive function that counts the last rejections in a row is shown
to be well defined and to reach its limit only through a decision. All safety
properties of `pe_runs` follow, for both of its parts.

**PaperProofs** is first about PaperPromotion alone. `TypeOK` is inductive because it
includes `Grounded`, that every file a command refers to exists at its step. `OnlyVettedPairs` (every
manifest, backup and draft names a pair of sources in `vetted`) is inductive
together with it once names are used once a second: no copy is overwritten, so
a pair once reviewed stays what it was. `ServedPairVetted` and `ValidUntilReplaced`
follow. Without `OncePerSecond` that induction fails at `CopyCalibrator`: a copy
that a manifest already pins may be overwritten. For a single operator (`Alone`) another
one holds, which does not ask which file a manifest names: a manifest pins hashes, a hash
is given once, and every file that has the hashes of a manifest is a copy of a reviewed
pair (`OnlyVettedHashes`). `ModelsAreKept` says the same of the model a swap keeps, and
`SwapsAreLinked` that the backup named by a swap in force holds the manifest it
replaced, and so on down the chain.

Then come the theorems of the run `paper`, for each of its parts.

- *promotion*: `PromotionInv` is `OnlyVettedPairs` where names are unique and
  `OnlyVettedHashes` with `ModelsAreKept` where an operator is alone; "undo" adds
  `SwapsAreLinked`. `ServedPairVetted`, `SwapsCanBeUndone` and the action property
  `PromotionKept` follow.
- *gates, session* (`GateInv`): the three lists of blockers agree and no order is ever
  ready, whatever switches, files and required states there are: this is a case analysis
  over them, and the risk manager blocks since it knows of no calibration. The limits
  of a session hold together, of which the one per hour is over a window that slides:
  the orders in the hour before an accepted one are among those counted when it was
  accepted.
- *freshness* (`FeedsInv`): where an iteration is (`TimesInv`), that what was read is in
  buffers or files (`LinesInv`, `RowsInv`), and that what is held while the feeds answer
  is no older than one poll and one request (`AnswersInv`).
- *feature rows* (`PollInv`, `ContextInv`, `DecidedInv`, `ClosingInv`): the newest
  snapshot is of the last poll and no other is as new, so the context of a row is of
  the last poll before it; a decision to act is made before the close, for no more than is
  offered, and on its other side there is no edge, as the two asks make up a dollar; and
  what the end of a cycle leaves is of each market's last decision.
- *low-latency loop* (`HotInv`): every book on the way was the venue's at some moment
  since it was asked for, with the target known only of markets that have begun.

`NothingEverGoesLive` states all but the first together.

**RecordersProofs.** The inductive invariant of the book feed comes first; it follows
the channel: along the messages under way each increment leads from the venue's book
before it to the one after (`WireChains`), so what was taken so far gives the book the
venue had as of the last message; and state and clock agree with the window followed,
which is arithmetic with `\div`. `BookIsTrue` and `RowsStayTimely` follow (the latter is
part of `CyclesAreTimely`). `RecordersInv` has one inductive invariant for each part of
`MCRecorders`, chosen by `which`; a step of one part leaves `which` alone and cannot
touch another. The argument of each part:

- *segments*: only sealed segments are taken by a compressor; while a segment is gone
  or about to go there is a whole copy of it, or the compressor that began last has
  still to write it; the scan comes to all that it found. It needs `Rotate <= Grace`,
  without which the command takes a segment that is still written.
- *poller*: a lookup's calls add up (`CallsAreShort`): the book is asked for at most
  `LookupTime`, two lists of `Pages` pages, after the iteration began. What a lookup comes
  across, and what is kept without one, had been opened and had not closed when the
  iteration began (`MarketsAreOpen`), as `classify_market` and the test for the hand-off
  look at that moment. Hence a row is at most `LookupTime + 1` later than a moment at
  which its market had not ended, and no closer bound holds: for the
  values of the run there is a row that late.
- *joins*: the samples that were taken are at hand or made way for later ones, and
  logs and queues are ordered by receipt.
- *collector*: a discovery that nothing disturbed knows statuses as of its start, and
  the rest is arithmetic on the schedule of windows.
- *trades*: the watermark trails by the back-off, which no trade is later than; the
  backfill goes in whole chunks.
- *labels*: only the command's backfill is clean, and a market it owes is still on its
  list or has its official row; the preferred row is official if one exists.

`NothingEverLost`, `CyclesStayTimely`, `JoinsArePointInTime` and the action property
`RepairsAreLasting` follow; with `BookIsTrue` all properties of the run `recorders` are proved.

**SequenceLemmas** holds what `Append`, `Tail`, `RemoveAt` and `\o` do to elements, ranges
and order, that a set of naturals has a least element, and what a sum over a finite set
(`FoldFunction(+, 0, f)`) is when one summand changes, comes or goes, and that it lies
between the multiples of another sum when each summand does. As the library's induction cannot be
instantiated here, the sum of a smallest set that fails is looked at, whichever element
the fold takes first.

**ResearchProofs.** `ResearchInv` has an inductive invariant for each of the eight
parts of `MCResearch`, chosen by `which` as above. The lemmas of the last four of them
(mining, training, lag, cycle) are in **StudyProofs**.

- *maker*: as long as the order waits, everything offered is above its limit, since an
  offer at or below it would have bought its bid; hence a quote at the limit or a
  taker's print below it comes no earlier than the first contract, whatever is
  cancelled, added or taken in between (`FillsAreReal`, half of `ReplaysAreReal`).
- *positions*: `FromLots` adds up sequences, and induction over them is avoided: two
  functions that hold partial sums agree (take the least place where they differ), so
  `Total` is the last value of any such function that can be exhibited, which gives
  the totals of a concatenation and of a sequence with one lot that counts. The
  invariant `LocksAreCovered` says of a market with one entry that the fills buy its
  opposite leg, not more than was entered, and that what they leave of the pairs'
  payoff above the minimum covers the share of the entry's cost that they lock. It is
  weaker than the promise until the lock is complete and equal to it then. A fill
  keeps it because `EvaluateLock` compares with the average cost of the held leg, whose
  lots a lock does not change, and because each contract is charged the fee it was
  judged by. Multiplication is hidden behind two named
  inequalities, `Covers` and `Pays`, and one lemma about them, `CoverGrows`.
  `LockKeepsItsPromise` and, from the sums again, the action property `LockFillsReload`
  follow.
- *backtest*: entries of a window are in order of time, and `days` counts the entries
  of a day. Where a row is comparable the two gates and the two notions of the best side
  agree (`BaseDecides`), so the first entry is the same one. It gives
  `FrontierIsBacktest`, the other half, and that what the policy would act on was traded
  (`CandidatesWereTraded`): a side with enough edge is the better one, since the two asks
  add up to the payoff at least.
- *edge policy* (`EdgeInv`): the mean prediction of a bucket lies in the bucket, as its
  sums lie between its two ends times its rows. A prediction is then at most 9 cents
  above the mean whose interval it is judged by; the conservative edge charges half of
  the distance between model and market, the market's implied chance of a side is at most
  its ask as the book is not crossed, and the two margins of 2 cents are just enough for
  the rest: a candidate would not lose at the pessimistic end of its bucket's interval
  (`MarginsSuffice`, `CandidatePays`). With margins below 4 cents the argument fails.
  Stricter limits lower the edges of both sides by the same amount or turn a row away, so
  the better side stays the better one and what the stricter admits the looser does
  (`StricterAdmits`); this needs that the interval's square root is a whole number that
  exists (`RootIsNat`). With the gates of positions and backtest it gives
  `CandidatesAreSupported`.
- *mining* (`MiningInv`): a run's vault is the one that its panel and the draws of that
  panel's size give, so that the same data has the same vault whoever asks. That nothing
  held out lies within the embargo of what is searched holds for places, by the vault's
  construction, and then for windows, which are at least as far apart as their places
  (`PlacesApart`); that the vault is not empty and leaves something to search needs the
  blocks' exact rounding. A run's trials are counted before it judges, the registry only
  grows, and the sum over its entries with it (`TrialsGrow`).
- *training* (`TrainInv`): each splitter keeps its parts an embargo's places apart
  (`SplitDivides`, `ThreeWayDivides`, `WalkForwardDivides`, `PurgedWalkDivides`), so the windows
  at them are. What a review sees is the newest part of the data by then: the
  invariant says that after each window the served model was fitted on came as
  many as a label may be late, so that a late label belongs to a newer window
  (`LateIsNewer`), and at least `JudgedShare`, half and a quarter of the windows being
  rounded, which stays so since one window more adds at most one to it (`ShareGrows`,
  `ShareIsJudged`). That each window is judged equally often is shown by counting pairs
  of a combination and a group in it twice (`FallToEach`, `EachAsOften`), with no group
  favoured as any can be exchanged for another; every place lies in exactly one group
  (`GroupOf`), and a group longer than the embargoes beside it leaves something to fit on,
  so no combination is dropped (`SomethingIsFitted`) and different ones differ in what
  they judge (`CombosDiffer`). Together with *mining* it gives `VaultHolds`.
- *lag* (`LagInv`): the times of the rows go up, and the last study was one of the first
  rows, with the label or before it was out. The rest is about what a study computes. An
  answer is the row nearest to a later moment, so it follows the shock, and one nearest to
  a still later moment does not come before it (`NearestExists`). The dedup is a fold over
  places, and a fold over the first places followed by what the last one adds
  (`FoldsOver`, `LagFolds`); so every opportunity is the one that was opened when its row
  was added and has since only been seen again (`OpenedAs`, `LagOpenings`), and the study
  of the rows up to that one ends with it. What differs between the rows with the label and
  without it is the line alone, which rows that recorded it do not need. `LagWorth` is the
  arithmetic of the two chances: at the less favourable one the buffer is left after the
  fee.
- *cycle* (`CycleInv`): the same, for rows of a day whose threshold on flows moves as the day
  goes on. What counts is a shock whatever that threshold is (`CycleSomething`), so the rows
  up to an opportunity qualify alike in the longer day and in the shorter; `CycleKept`
  says of the dedup that opportunities lie the window apart and that what they have seen
  adds up to the events, one more with each; `CycleBest` and `CycleMovesFollow` are the
  return a direction is taken from and the answers. Together with *lag* it gives
  `StudiesHold`.

**Model-checked only.** Liveness (`ImportantDelivered`, `RotatedIsCompressed`, `RowSettles`, `RunsEnd`): fairness and
ENABLED are out of the prover's reach. `RowsReadHistory` (returns and counts of a row, as
its code computes them from its buffers, against those of all that was received): it
compares recursive computations.

`DropLow = FALSE` is not run (with it `health()` leaves one counter out of its
total, which `HealthBalances` states as a condition); the theorems cover it.

## 5. The plan

Left: a proof of `RowsReadHistory`, first for the samples of one feed: a buffer that forgets
from its old end agrees with the history over the window it still covers.

**Not modelled**: numerical fitting and statistics in floating point (models,
metrics, cross-validation scores, research reports beyond their simulators), HTTP
clients and notifiers (one call each, abstracted by the outcome of a send or a poll),
wording and layout of reports, the dashboard (reads only), argument parsing and
configuration. None of them keeps state that another part relies on, other than
append-only files.
