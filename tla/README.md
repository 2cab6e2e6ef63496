# Signal Studio in TLA+

Signal Studio is a Go backend with a React frontend. It analyses OpenTelemetry
Collector configurations and watches a running collector: it scrapes the
collector's own metrics, and it receives (or connects out for) a sample of the
telemetry to learn which metrics, spans and logs flow. What is hardest
to test is in the parts that watch: one `Manager` or client object, called by
HTTP handlers that run concurrently, and background goroutines that the calls
start and stop and that report back into the same object. The rules are
sequential, but they judge what they are given: a window of counters in which a
collector may have restarted, samples in place of values, a graph that comes out
of Go maps, a configuration that the user edits as another rule advised. The
page, in turn, sees all of this through fetches that are answered in any order.
The modules are about these three kinds of difficulty.

Paths below are relative to `src/backend/internal/` unless they start with
`docs/` or `frontend/`.

## 1. Inventory

| Component | State | Operations | Interacts with |
|---|---|---|---|
| Metrics manager, `metrics/manager.go` | `status`, `lastErr`, `scraper`, `cancel`, its store | `Connect`, `Disconnect`, `ResetStore`, `Status`, `Snapshot`; the goroutine `scrapeLoop` | called by `api/metrics_handler.go` and the serve command; pushes into the store |
| Metrics store, `metrics/store.go` | a sliding window of snapshots | `Push`, `Clear`, `Latest`, `Previous`, `Len`, `Window`; rates and `ComputeSnapshot` | written by the manager, read by live rules and snapshot requests |
| Scraper, `metrics/scraper.go` | none | `Scrape` (HTTP GET and parse) | called by the manager |
| Rule engine, `rules/engine/engine.go` | none | `Evaluate`, `EvaluateWithMetrics` | `api/handlers.go`; runs static, live and catalog rules |
| Live rules, `rules/live/*.go` | none | one evaluation each | read the store piecewise |
| Tap manager, `tap/manager.go` | `status`, `lastErr`, `receiver`, `stopCh`, addresses, start time | `Start`, `Stop`; the goroutine `pruneLoop` | receiver, catalogs, remotetap client; `api/tap_handler.go` |
| OTLP receiver, `tap/receiver.go` | two listeners and servers | `NewReceiver`, `Start`, `Stop`, export handlers | records into the catalogs |
| Remotetap client, `tap/remotetap_client.go` | `status`, `lastErr`, `addr`, `cancel`, `doneCh` | `Connect`, `Disconnect`; the goroutines `run`, the connection watcher, `pruneLoop` | records into the same catalogs |
| Metric, span and log catalogs, `tap/*catalog.go` | entries with bounded attribute trackers; the metric catalog's rate windows | `Record*`, `RecordBatch`, `Prune`, `Clear`, reads | exports, both prune loops, reset, filter analysis |
| Filter analysis, `filter/*.go` | none | parse a filter processor, classify every metric and attribute | catalog entries in, outcomes out |
| Alert coverage, `alertcoverage/*.go`, `api/alertcoverage_handler.go` | none | extract metric names from alert rules, analyse every filter, compose the outcomes, derive a status | filter analysis; reads the metric catalog several times per request |
| Configuration model and static rules, `config/`, `rules/static/`, `rules/catalog/` | none | parse YAML; stateless predicates | engine |
| Commands and reports, `cmd/server`, `analyze/`, `report/` | none | start-up and shutdown; file to report | all of the above |
| Frontend hooks, `frontend/src/hooks`, `frontend/src/App.tsx` | status, snapshot, polling timer, results | connect, disconnect, poll, analyse | the HTTP API, with answers in any order |

What is hard in each, and what makes it correct:

- **Metrics manager.** `Connect` releases its lock during a test scrape of up
  to five seconds; a loop reads `m.scraper` and pushes snapshots with no lock,
  and writes the status with no look at whether its connection still exists.
  Correct means: one active loop, of the current connection; a cancelled loop
  exits; "connecting" is always left; an error heals by itself; nothing is
  published after a disconnect, and what is all the same comes with a status that
  says so.
- **Store and its readers.** Every read is a critical section of its own, so a
  request combines reads from different moments. Correct means: a rule that
  checks for n snapshots evaluates n of them, pairs are in order, a computed
  rate is no older than the collection time it is shown with.
- **Tap manager and receiver.** `Start` binds two sockets with the lock
  released and each may be in use. Correct means: every bound socket has an
  owner, "listening" is served on the addresses shown, a replaced session's
  receiver and prune loop end.
- **Remotetap client.** A call waits for a goroutine that may be blocked on a
  silent peer; three goroutines per connection end on different events.
  Correct means: every call returns, connections never overlap, idle means
  quiet, nothing is leaked.
- **Catalogs.** An export is many critical sections with prunes and resets
  between them, and the clock is read before the lock is awaited. Correct
  means: bounded memory, a tracker that is not capped has seen everything (filter
  analysis concludes from its samples), only stale entries are pruned and all of
  them are, the rate windows follow each other.
- **Live rules.** They infer from counters what a collector did, over a window
  with restarts, series that come and go, and resets. Correct means: no rate
  exceeds the traffic there was, an alarm is about something that happened and
  ends when it is over, silence is reported.
- **Static rules.** Correct means: what a finding advises makes it go away and
  breaks nothing critical, however findings are followed; a connector loop is
  reported if and only if there is one, in whatever order maps are ranged over.
- **Filter analysis and alert coverage.** The analysis concludes from sampled,
  capped attribute values what a filter would do, and a coverage request reads
  the catalog once per filter and once more for the names while it changes.
  Correct means: a metric called kept, and an alert called safe, loses none of
  what had been recorded; an alarm is about points a filter really drops;
  "unknown" has a reason; the order of the processors does not matter.
- **Frontend.** Poll answers arrive after a disconnect, aborted requests share
  a loading flag with their successors, coverage answers are unordered. Correct
  means: a page that polls comes to agree with the manager, a remembered
  connection is restored or forgotten, the last text of the editor is the one
  whose result stays.

`PROJECT.json` lists the hazards one by one at their lines, with the properties
that cover them and, where none does yet, why.

## 2. Modules

| Module | Stands for |
|---|---|
| `MetricsStore` | `Push` and `Clear` as operators on a sequence, shared by the next three |
| `MetricsManager` | the metrics manager with any number of callers and loops |
| `StoreReaders` | requests reading the store between pushes and clears |
| `MetricsRates` | the rates of `metrics/store.go` and their sums for the dashboard, as operators on snapshots |
| `LiveRules` | the seven live rules over the window that any history of a collector leaves |
| `TapManager` | tap sessions, sockets, prune loops |
| `RemoteTap` | remotetap connections and their goroutines |
| `Catalog` | the metric, span and log catalogs under concurrent exports, prunes and a reset |
| `FilterAnalysis` | the rules of a filter, their outcome for a metric, and the filter processor itself, as operators |
| `AlertCoverage` | a coverage request against a catalog that changes under it |
| `StaticRules` | the rules of `rules/static` as operators on a configuration |
| `LoopVerdict` | what the rule connector-loop promises: an abstract specification |
| `ConnectorLoop` | its depth-first search, step by step |
| `StaticAdvice` | a user who analyses a configuration, follows a finding, and analyses again |
| `MetricsHook` | the page's view of the metrics connection, its fetches and the server behind them |
| `AnalyzeFlow` | the editor, the debounced analysis of what it holds, and alert coverage |
| `MetricsManagerProofs`, `StoreReadersProofs`, `LiveRulesProofs`, `TapManagerProofs`, `RemoteTapProofs`, `CatalogProofs`, `FrontendProofs` | theorems about the modules they extend |
| `AnalysisProofs` | theorems about `FilterAnalysis` and `AlertCoverage`, about `ConnectorLoop`, and about `StaticAdvice` with its rules |
| `MC...` | symmetry sets, messages, intervals, configurations, filters and alerts for TLC |

`MetricsManager`, `StoreReaders` and `MetricsRates` extend `MetricsStore`,
`LiveRules` extends `MetricsRates`, `AlertCoverage` extends `FilterAnalysis`,
`StaticAdvice` composes `StaticRules` with `ConnectorLoop`, and `MCFrontend` the
two halves of the page.

**How state and actions correspond to the code.** An action is the stretch of
code between two points at which another goroutine can run: a critical section
of a mutex (with everything done in it), or an unlocked step that reads or
writes what others change. A goroutine's place is its `pc`. So `Connect` is
`ConnectBegin` (the first critical section), `TestBegin` (the unlocked read of
`m.scraper`), `TestEnds`, then `ConnectFails`, or `ConnectPush` and
`ConnectCommit`; the loop is `LoopDone`, `LoopScrapes`, `LoopScrapeSucceeds` or
`LoopScrapeErrs`, `LoopReportsError`, `LoopPush`, `LoopReportsSuccess`. Fields
the code always sets together are one variable (`receiver` and `stopCh` are
`session`; `cancel` and `doneCh` are `current`). An error message is the flag
that it is set. Goroutine ids are reused once nothing refers to them, so the
models run for ever without a bound on how many connections there have been.

**Data races.** `scrapeLoop` and `Connect` read `m.scraper` without the lock.
The read is of one machine word, so what it can return is the value before or
after a concurrent write, and that is what the interleaving of the read with
the locked writes gives.

**Sockets of a tap session.** `receiver.Stop` is one step: it waits for gRPC calls
under way, which change no state the module has. It closes the listeners that
the servers know. A server learns of its listener in `Serve`, which
`Receiver.Start` runs in a goroutine; a `Stop` that comes before it leaves the
address bound until that goroutine runs, finds its server stopped and closes the
listener (`ServeBegins`; `starting` holds the addresses of a session whose
`Serve` has not begun). So a `Start` right after a `Stop` may find the port of
its own previous session in use.

**Messages of a tap connection.** When the watcher closes the connection
(`WatcherCloses`), the reader may have up to `MaxBuffered` messages that have
arrived already: `Receive` still hands them to the loop, and only then does the
read fail.

**Panics.** A panic in a background goroutine ends the process: `LoopPanics`
sets `running` to FALSE and nothing happens afterwards. A panic in a handler is
recovered by `net/http`: the request is lost, and because no panicking line holds
a lock, nothing else is.

**The snapshots of `StoreReaders`** are numbered in order of arrival; `Scrape`
and `StoreCleared` are what any schedule of `MetricsManager` does to the store
(push at any time, clear at any time), so the readers are checked against more
behaviours than the manager has.

**The collector of `LiveRules`** is the environment. `Scrape` takes one of the
intervals, each with what was counted per series, before and after a restart if
there was one; counters are exposed from the start or, with `eager` FALSE, once
there is something to count, which is what the OpenTelemetry SDK does. The ghost
`truth` keeps the intervals beside the snapshots, so that a property can compare
what a rule says with what happened. A series has a place in the constant
`Series`, because a lookup takes the first that matches; a snapshot has its
value at the places of the series that are exposed. A lookup matches a series
that has the labels asked for, and may have more (`Matches`): a series is given
by its metric, signal and owner (receiver or exporter), with or without a
further label (`part`, as the transport of a receiver). That no series has the
labels of another one and more (`SeriesAssumption`) is an assumption about the
collector, which labels the series of one metric and component alike. An empty
label counts as a missing one, as it does in Prometheus. The rules are operators
of the store, with the loops of the code as folds; rates are integers per `Unit`
seconds, and comparisons are multiplied out, exactly where the code has
`float64`.

**The clock of `Catalog`** ticks only while nobody who has read it has waited
longer than `MaxDelay` for the lock. Attribute keys stand for their level and
key. The three catalogs differ in the signal of their names (`SignalOf`), in
what they keep per entry (the status of a span, the severities of log records)
and in that only metrics have rate windows; a reset (`handleReset`) and a tick of
a prune loop go through them one by one. `intact`, `owed`, `newest`, `tally`,
`old` and `sizes` are ghosts that no action reads.

**Filters.** `FilterAnalysis` has no state. A condition is taken as the parser
has classified it (`form`, attribute, argument), since what matters is what each
class is taken to mean; every text the parser does not recognise is
"unsupported". Names, attribute values and patterns are members of sets and
`Fits` says what a pattern matches from end to end, as the code anchors it
(`Finds` is the unanchored match of alert expressions). `Outcome` is what the
code concludes from samples. `Drops` is what the processor of the collector does
with one data point; it is not in this repository, so it is stated as the code
understands it: any condition that holds drops the point, an include list drops
what it does not name, then the exclude list drops what it names. What an
unsupported condition evaluates to is a parameter, and properties quantify over
it.

**A coverage request** is `RequestBegin` (the first look at the catalog), one
`AnalyzeFilter` per filter in any order, each on the entries of that moment,
`ReadLen`, and `ReadNames`. The catalog beside it is reduced to names and sampled
values: `Record`, `RecordResource` and `RecordDatapoint` are the critical
sections of one export, `Forget` a prune or a reset. A tracker is its set of
values and capped when it holds `MaxSamples`. The ghosts `seen`, `before` and
`flown` say which points the catalog has recorded whole and still has, which of
them the request can count on, and which were ever on their way.

**Configurations.** A component of `StaticRules` is its type and qualifier, with
a function from those of its settings that some rule reads to their values; what
YAML decoding yields, not the text. A finding is its rule and what it is about,
its severity is a table, its wording is left out. `Advice` of `StaticAdvice` is
what the snippet and the recommendation of a finding tell the user to do; where
the text leaves a choice that some rule can tell apart, each one is a successor:
a receiver or exporter that is missing is defined in its own section, or among
the connectors, or taken out of the pipeline. One of several values stands for
all that no rule tells apart (a limit in MiB or in percent). To restructure the
topology, which is all that `rules/static/connector_loop.go:106` asks for, is to
take the connector that closes the cycle out of the exporters.

**The search of `ConnectorLoop`.** The recursion `dfs` is made explicit: `path`
is the stack of calls, `rest` what each has still to look at. `Visit`,
`Descend`, `MeetGray`, `MeetBlack` and `Return` are its steps, `WalkUp` and
`ReportCycle` the reconstruction of a cycle. Since maps are ranged over in no
order, the next pipeline and the next successor are chosen freely. `finish` and
`clock` are history. `LoopVerdict` has the graph and a verdict only; under
the mapping `graph <- adj`, `verdict <- Verdict` the search implements it
(`VerdictIsRight`), with every step but the one that completes it a stutter.

**The page.** JavaScript runs one continuation at a time; what it awaits are
fetches. In `MetricsHook` a fetch is sent, handled by the server (`Handle...`; a
connect in two steps, `ConnectBegins` and `ConnectEnds`, between which the
manager is "connecting" with an empty store), and answered to a continuation
(`Connected`, `ConnectFailed`, `Disconnected`, `WasReset`, `Polled`, `Restored`,
...), each as a step of its own and in any order; `FetchFails` loses it on the
way there or back, `Reload` forgets what is awaited and keeps only the local
storage. A connect that is lost or forgotten while the server tests the target
is not undone: its slot stays taken until `ConnectEnds`. The manager behind is
its status and whether it has data, and may change by itself, as
`MetricsManager` does. In `AnalyzeFlow` texts and calls are numbered; `Analyze`
aborts the call before it, while it waits and also when it has been answered and
its continuation still reads the body.

## 3. Runs

Passing runs:

| Run | Instance | What it shows |
|---|---|---|
| `metrics` | 1 caller with 2 targets, and 2 callers with 1; 2 loop ids, window 2 | "connecting" has an owner, the installed loop lives, errors heal, data that comes after a disconnect is announced by a status, however calls overlap; with calls one at a time one loop is active, it has its scraper, and replaced ones exit |
| `store_readers` | 1 request, window 4, 6 pushes, 2 rates | requests compare snapshots in order, rules have as many as they checked for, rates are as new as the time shown with them |
| `live_rules` | window 5, 5 scrapes, 7 kinds of interval, 8 series, two of them with a transport, counters eager or not, with and without a sampler | rates are not inflated, alarms are real and end, silence is reported, the dashboard shows no false drop |
| `tap` | 2 callers, 4 addresses, 2 sessions | no socket is lost or claimed twice and "listening" is served; until two calls overlap, receivers, prune loops and status agree as well |
| `remotetap` | 2 callers, 1 address, 2 runs, 1 buffered message | every call returns and cancelled connections go away; until two calls overlap, connections do not overlap, idle is quiet and helpers do not pile up |
| `catalogs` | 2 exporters, 1 prune loop, three signals, 4 workloads, cap 2, TTL 1, window 2 | trackers are bounded, and complete unless capped; entries account for their items; a reset forgets; fresh entries survive prunes and stale ones go; the rate windows are successive and steady batches raise no warning |
| `alert_coverage` | 21 configurations, 5 alerts, 4 points of 2 metrics, 3 values, cap 2 | "safe" can be relied on, an alarm is not false, "unknown" has a reason, whatever is recorded, pruned or reset between the reads |
| `static` | 5 configurations with the typical mistakes and every graph of connectors over 2 pipelines, or over 3 without self-loops; 3 severities | advice works, what it escalates to is known, criticals go away; the search is sound and its verdict right |
| `frontend` | 3 fetches in flight; 3 clicks and 1 fault, or 2 clicks, 1 fault and 1 reload; 2 edits with 1 or 2 clicks, 5 calls | a polling page agrees with the manager in the end, a remembered connection is restored or forgotten, the editor's last text is the one analysed |

Runs that end in a counterexample, each of one sentence of the documentation,
a comment or a test, which the code does not keep:

| Run | Sentence | What happens |
|---|---|---|
| `metrics_stale_data` | ADR 0005: disconnect "clears the store" | a scrape of the loop that is in flight pushes afterwards |
| `metrics_panic` | "context cancelled, exit gracefully" | a tick taken after `Disconnect` dereferences a nil scraper |
| `store_readers_panic` | a test expects no findings "with insufficient data" | a clear between `Len` and `Window` makes a rule index an empty slice |

The first two need one caller only: a user who disconnects while a scrape is
under way, or as a tick fires. Their runs have no more than that one caller.
What the loop does next, `LateDataIsAnnounced` has as a property of every
behaviour: while the status says "disconnected", each snapshot in the store has a
`Connect` or a loop, cancelled or not, that is about to report "connected". So a
late push does not stay behind a status that denies it: once the loop has reported,
the user is shown a connection that was closed, with its data, until the next call.

**Properties with parts.** Invariants of one subject are checked as one, under a
name of their own: `ConnectionIsOwned`, `ReadsAreConsistent`, `SocketsAreSound`,
`OneSessionAtATime`, `OneConnection`, `StatusIsTruthful`, `SamplesAreFaithful`,
`RateCheckIsSound`, `SearchIsSound`, `AlarmsAreReal` (one part per live rule, and
two on the two loss rules: `OneRestartIsNoLoss`, `GoodIntervalClears`) and
`PageIsTruthful`. The parts are defined, and commented, above each.

**Serial and concurrent.** Some properties do not survive overlapping calls.
`MetricsManager` states them under `OneCaller`, and its instance has behaviours
with one caller and with two. `TapManager` and `RemoteTap` note
in the ghost `overlapped` that a call has begun while another was under way, and
state those properties (`OneReceiver`, `ServedIsListening`, `LoopsAreStoppable`;
`OneRun`, `IdleIsQuiet`, `ConnectedIsCurrent`, `HelpersAreCurrent`) for as long
as that has not happened. Without `OneCaller`, or `~overlapped` in the other two,
TLC finds two `Connect` (or `Start`)
calls of which the one overwrites the other's `cancel`, `receiver` or `current`
and leaves a loop, receiver or connection that no later call can stop, although
ADR 0005 has "only one active metrics connection", `tap/manager.go:64` has "the
existing session is replaced" and `remotetap_client.go:50` has "the existing
connection is closed first". The other properties hold with two callers, in
whatever way their calls overlap. That they can overlap needs no second user:
the connect button of the page works while a connection is under way
(`MetricsHook.Connect`).

**Where the advice stops.** `AdviceWorks` excepts what `Unaddressed` names: the
advice on scrape intervals sets `collection_interval`, which the prometheus
receiver does not read, and aligns one of several; the one on log feedback offers
to exclude the collector's own log, where the rule does not look; the two on the
place of the batch processor move the first one and leave a second where it is;
and those on endpoints write the setting at the top, or below `protocols` of the
OTLP receiver, where the rules read both places of every receiver and extension.

`Raises` lists the rules whose advice brings about a critical finding of another
rule: routed pipelines come without a memory limiter, take the exporters as they
are, undefined or debug, and may replace pipelines of the same names or close a
loop through the connector; removing a debug exporter, or the connector that
closes a loop, can leave a pipeline without exporters; filling an empty pipeline
refers to a component that may not exist, or is a connector that closes a loop;
defining a missing component leaves it without the settings other rules ask for,
or, as a connector, closes a loop (`rules/static/undefined_component_ref.go:39`,
`:73`), and removing its name can take away what made a pipeline complete or in
order; a span metrics connector may have been in use, undefined, in a circle.
The proofs added several of these: the run starts from configurations with the
typical mistakes, the theorems from any.

`CriticalsGoAway` shows that it ends all the same for a user who, sooner or
later, defines a missing component rather than remove its name. One circle is
excepted (`Circular`): once `otlp`, the name that the advice on empty pipelines
gives, has been defined as a connector, breaking a loop through it empties a
pipeline, and filling that pipeline closes the loop again.

**What the live rules do not know.** A restart reads as an interval without
traffic, and so does a series that was not there before; `ZeroIsReal`,
`BackpressureIsReal` and the others say under which restarts an alarm is
reliable. A window with two restarts can raise alarms about losses that were
none. One restart is enough for that when the collector exposes its counters
lazily: a series that comes back later than others has no rate in its first
interval, so that one restart disturbs several intervals. So `OneRestartIsNoLoss`
and `BackpressureIsReal` are about collectors that expose their counters from
the start. The rate of a receiver on the dashboard is that of
the first series that matches, so a receiver with two transports is shown with
the traffic of one (`metrics/store.go:79`), which is never too much. An exporter is
read through its first series as well, so a collector that exposes two series per
exporter and signal is shown with a drop it does not have;
`DashboardShowsNoFalseDrop` is about one series of `sent` per exporter and signal
(`OneSeriesEach`).

Smaller differences seen while modelling, with no run of their own:

- `Stop` of a disabled tap manager makes its status "idle"
  (`tap/manager.go:126`); a second `Disconnect` of the remotetap client returns
  before the goroutine has exited (`remotetap_client.go:75-88`); the prune loop of
  a connection that ends by itself outlives it until the next call
  (`remotetap_client.go:129-131`).
- Exports that overtake each other set `LastSeenAt` back (`tap/catalog.go:140,164`),
  by the wait for the lock at most; `UniqueCount` stops at the cap although ADR
  0009 has it count on (`tap/catalog.go:51`); rate windows are not pruned and do
  not expire, and `handleCatalog` reads `RateChanged` apart from the entries.
- In alert coverage, a metric first recorded after the filters were analysed
  counts as one that no filter touches (`alertcoverage/coverage.go:86`), until
  the next request; a `__name__` pattern is matched against the names that a
  filter analysis produced and not against "all known metric names"
  (`coverage.go:104`), so without a filter it is unknown; a filter with
  conditions on spans only has them read as conditions on metrics
  (`filter/parser.go:112`); and without a catalog a pattern of a filter is
  looked up as if it were a metric name, so an alert on a metric that the
  pattern matches is "assumed safe" (`coverage.go:94`,
  `api/alertcoverage_handler.go:112-142`). This is why `SafeMeansNotDropped`
  speaks of recorded points, `UnknownHasReason` of alerts without patterns and
  `AlarmIsReal` of filters without span rules. The command `analyze` has no
  catalog at all, so there every alert on a plain name is "safe".
- ADR 0020 asks for "3+ consecutive intervals", where the loops pass over
  intervals without accepted data (`rules/live/high_drop_rate.go:53`).
- The command `analyze` decides its exit code on findings already filtered by
  `--min-severity` (`analyze/`), so `--fail-on` below it has no effect.
- On the page, a poll answered after a disconnect shows the closed connection
  again, and nothing corrects it (the ghost `late` of `MetricsHook`); of two
  connects under way a failure that comes last clears the remembered
  connection while polling goes on; the `finally` of an aborted analysis resets the
  loading flag of the one that replaced it; of two coverage answers the later one
  to arrive is shown, whichever is newer.

**Bounds and why they are enough.** One caller plus background goroutines is how
the single-user UI drives the backend, two callers are the smallest instance of
every race between calls (two browser tabs, a double click, the auto-connect at
start-up), and no step involves three. Two targets tell "the current one" from
"another". Two loop ids give the current goroutine and a cancelled one still in
flight; two run ids likewise. One buffered message is enough: a second one would
take the run through the same two steps again, in which it reads nothing else.
What the address of a connection is plays no role (the theorems of section 4
hold for any number). A window of 2 slides on the third push; the live rules
need 3 and 4 snapshots, and with a window of 4 and 6 pushes each rule sees too
few, exactly enough, and a window that has slid. Four addresses are what two
receivers need to serve at once; the configurations chosen from them overlap or
meet a port that another process holds, and may name one address for both gRPC
and HTTP.

In `LiveRules`, four snapshots are the most that any rule needs, and a window of
5 has one more, so that counts start over in it. Its intervals are a healthy
one, one on the other transport, one with losses and a full queue, a flood of
logs, silence, and a restart with the traffic before or after it. In the
catalogs, three values against a cap of 2 reach and exceed the cap, TTL and delay
of 1 with a clock to 2 let an entry go stale or be refreshed during a prune;
five batches and a window of 2 fill two windows unequally and open a third. Each
of the four workloads has the faults that concern it, so that no state is
multiplied by what does not touch it. For alert coverage, the points of one
metric bring each tracker to its cap (three values of a data point attribute,
two of a resource attribute, against a cap of 2), a second metric has no
attributes at all, so that a filter drops all, some or none of an alert's
metrics; the configurations have every form of condition and list once, and
pairs whose outcomes differ. One request and one export at a time suffice:
requests do not touch each other, and overlapping exports are the business of
`Catalog`.

For the search, three pipelines give every way in which two cycles share
pipelines, and the theorems take it from there. The page needs two fetches to
have one overtake another, or to disconnect while the server still tests a
target, and a third for the poll that the interval sends meanwhile; the two
halves of a page share nothing, so each behaviour has work for one of them.
`MaxPushes`, `MaxScrapes`, `MaxCalls`, `MaxFetches`, `Rates` and the budgets of
`Workloads`, `Sessions` and `Editors` are bounds of the models. The other
actions are unbounded.

Deadlock is checked wherever the system cannot stop. It is off where it can:
in the metrics runs, because a process that panicked does nothing more; in
`live_rules`, `catalogs` and `frontend`, because scrapes, exports, clicks and
edits run out; in `static`, because a user without findings is done.

**Fairness.** Calls are never obliged to be made. A call or a goroutine that can
go on does (weak fairness per caller and per goroutine), which is what the Go
scheduler and mutexes give. A scrape ends, because the HTTP client has a
timeout. A tick comes again and again: `time.Ticker`; so do the ticks of the
prune loops, on which `StaleGoesAway` rests. `ErrorsAreRecovered` assumes no
more than that: the status "error" gives way, unless the next scrape fails too.
In `RemoteTap`, a read is *not* obliged to return (a peer may be silent for
ever) until its connection is closed. On the page, every fetch is answered or
fails, the polling interval keeps firing, and the debounce timer fires.
`StaticAdvice` assumes of its user what `CriticalsGoAway` needs, and no other
property uses it. `TapManager`, `StoreReaders`, `LiveRules` and `AlertCoverage`
check safety only and assume nothing.

## 4. Proofs

`MetricsManagerProofs` proves, for every number of callers, targets and loops
and every window size (`WindowSizeAssumption`, `NilAssumption`,
`SetupsAssumption`):

- `TypeCorrect`: `Spec => []TypeOK`, by one step per action, with the lemma
  `PushBounded` on the sliding window.
- `ConnectionOwned`, from `ConnectingOwned` and `EstablishedLives`: the invariants
  that any number of callers keep. Each is inductive together with `TypeOK`. The
  first hangs on the fact that the only action that makes a caller idle while the
  status could be "connecting" writes a status itself; the second on `LoopDone`
  and `LoopScrapeErrs` ending a loop only when it is cancelled.
- `LateAnnounced`: the invariant `LateDataIsAnnounced`, for callers and loops that
  overlap as they like. Only `Disconnect` makes the status "disconnected", and it
  empties the store; each push adds one snapshot and one goroutine that owes a
  status, and a goroutine leaves that count only by setting it. So the invariant is
  inductive with `TypeOK`.
- `SerialSingleLoop`, `SerialLoopHasScraper`: for calls one at a time. Neither
  is inductive: a busy `Connect` could install its loop beside an active one.
  `SerialInv` adds that while a caller is between its critical sections no loop
  is active at all, that an active loop is the one `m.cancel` refers to, and
  that `m.scraper` is set while a call is under way; `SerialInvInductive` has
  the preservation and `SerialInvCorrect` the invariant, from which both
  theorems follow.

The hypothesis `OneCaller` cannot be dropped (section 3), and `metrics_panic`
shows that the restriction to active loops cannot either.

`StoreReadersProofs` proves `ConsistentReads`, `EnoughSnapshots` and
`CurrentRates` for any number of requests, any window size and any bounds. The
lemma `PushProperties` says what `Push` does to a window: the new snapshot is
last, the others keep their order, it never gets shorter. `ReaderInv` then
carries, beside the order of the store, what a request may still find: while it
is between the two reads of a pair, the older half is before the latest snapshot
of whatever store it will read (`PairInv`); a check of the length stays good
until a clear (`EnoughInv`); the reported snapshot is not later than any window
to come (`RatesInv`). That all of this survives a clear followed by pushes is
what the numbering by order of arrival is for.

`TapManagerProofs` proves `SoundSockets`, `ListeningServed` and `OneSession`,
for any sets of callers, addresses and sessions. `TapInv` adds to the properties
which call owns which receiver before it is installed (`OwnerInv`), and that a
bound address is that of a receiver, which serves or whose `Serve` has not
begun, or that of a call between its two `net.Listen`, never both (`SocketInv`);
without the second, giving back the sockets of a session could take one from a
call. `StatusInv` says what "listening" means while calls are under way,
`SerialInv` what a call alone may rely on.

`RemoteTapProofs` proves `SingleConnection` and `TruthfulStatus`, for any sets
of callers, addresses and runs. `RemoteInv` has who waits for whom (`HeldInv`,
for calls that overlap as they like) and, until they overlap, that every
goroutine belongs to the current run, to the one a call is ending, or to a
cancelled one (`SerialInv`).

`AnalysisProofs` proves, for every set of names,
values, patterns, filters and alerts and every cap (`FilterAssumption`,
`CoverageAssumption`):

- `KeptIsNotDropped`: if samples cover a point, in that each of its attribute
  values is among them or they are capped, a filter whose outcome is "kept"
  does not drop that point. One case per form of condition
  (`KeptDoesNotHold`); the cap matters in `EmptyNotCapped`.
- `CompositionIsUnordered`: folding outcomes pairwise is the worst of the set.
- `CoverageTypeCorrect`: `Spec => []TypeOK`.
- `SafeIsReliable`: `Spec => []SafeMeansNotDropped`. It is far from inductive:
  when the status is written, the samples the outcomes came from are gone.
  `SafeInv` carries it: points seen are covered by the samples (`SeenIsCovered`;
  `ResourceIsCovered` says it of an export half way), every filter analysed so
  far was judged on samples that covered the points of `before`
  (`BeforeIsJudged`: it does not drop them, or its outcome stands against the
  name), and "safe" was derived from outcomes that still stand (`SafeIsKept`).
  `CoveredStep`, `JudgedStep` and `SafeKeptStep` preserve the parts.
- `BadIsDropped`: the counterpart of `KeptIsNotDropped`. If a filter's outcome
  for a metric is "dropped" or "partial", and its rules are about metrics, it
  drops the point without attributes or one whose attribute has a value among the
  samples.
- `AlarmsAreReal` and `UnknownsHaveReason`: `Spec => []AlarmIsReal` and
  `Spec => []UnknownHasReason`. `ReasonInv` adds to `SafeInv` that every sample
  is a value of a point that was on its way (`SamplesAreFlown`), that each bad
  outcome collected so far drops such a point (`BadOutcomesAreReal`) and an alarm
  has one (`AlarmsHaveOutcome`); and for "unknown", that an outcome which is
  unknown comes from a filter that cannot be decided about that name
  (`UnknownsAreUndecided`, `UnknownsHaveOutcome`).

It also proves, for any set of pipelines, finite or not: `SoundSearch`,
`OrderedWhenClean`, and the refinement `SearchKeepsPromise`: `LoopSpec =>
VerdictIsRight`. `LoopInv` says what the variables of the recursion mean: gray
is being on the path (`PathInv`), the walk is an end of the path and then one of
its pipelines (`WalkInv`), a successor that need not be looked at any more has
returned or is the next call (`RestInv`), what has returned came after all that
it feeds (`BlackInv`). A verdict of "loop" is right because a reported cycle is
a set of pipelines that feed each other (`CycleIsLoop`); "clean" because in a
set of pipelines that each feed another one of the set, the one that returned
first would feed one that returned before it (`OrderedHasNoLoop`, by the least
element of a set of numbers). A step of the search is a stutter of `LoopVerdict`
unless it completes the verdict.

About `StaticAdvice` it proves, for any set of samples to start from, that is for
every configuration the parser can yield whose intervals are not negative
(`SamplesAssumption`, with `IsConfig`; `BranchesAssumption` only says that the
names that a snippet gives to pipelines are names):

- `AdviceDoesWork`: `AdviceSpec => AdviceWorks`, and `NoOtherEscalation`:
  `AdviceSpec => EscalationIsKnown`. Both compare the findings of 33 rules
  before and after an edit. `AdviceIsGood` has one lemma for the advice of each
  rule. These rest on one lemma for each kind of edit, which says what it can
  raise: settings of a component (`SettingsAdvice`, `MergeRaises`), a new list
  (`ListsRaise`), names taken out of one (`WithoutIs`), a processor put in or
  moved (`InsertAdvice`, `MoveAdvice`). The critical rules about processors read
  three positions of a list; an edit is `Gentle` if it brings none of them into
  the wrong order, and `FirstAfterInsert`, `FirstAfterRemove` and `MoveOther`
  compute where they are afterwards. A cycle of the report is broken because the
  last step of it has no connector left (`LoopAdvice`), and no edit outside
  `Raises` adds an edge (`LoopsGrow`).
- `ReportsAreCurrent`: the invariant `AdviceInv` that makes these facts about the
  steps of a user: a report is about the configuration as it is, each loop in it is
  a cycle of that configuration (`NamesLoop`, from `LoopInv` and from the graph that
  the search was given), and advice leads to a configuration again.
- `AnalysisSearches`: `AdviceSpec => LoopSpec`. The searches of one analysis after
  the other are a behaviour of the search alone, so that its three theorems hold of
  them (`AnalysisKeepsPromise`).

`CatalogProofs` proves, for any exporters, prune loops, names, attributes,
values and messages, finitely many or not: `SamplesHold`, `EntriesAreAccounts`,
`ResetsForget`, `RateChecksAreSound` and the action property
`PrunesSpareRecent`. `TypeInv` has the shape of every tracker: no value twice,
and capped exactly when full. To each property the invariant adds what a
goroutine between two critical sections counts on: an exporter in `intact` still
has its entry, which no prune or reset took away since it was recorded
(`IntactInv`); a name without an entry owes nothing and has counted nothing
(`SamplesInv`, `TallyInv`); while batches have had one size, the points of a
window are that size times its batches (`RateInv`); whoever waits for the lock
read the clock at most `MaxDelay` ago (`RecentInv`); a reset has left nothing
from before it in the catalogs it has been through (`ResetInv`).

`LiveRulesProofs` proves, for any series, owners and signals, any intervals,
every window size and any number of scrapes and restarts, that the rates are not
inflated (`RatesAreSound`), that silence is reported (`SilencesAreReported`),
that the alarms are real (`LiveAlarmsAreReal`, all seven parts of
`AlarmsAreReal`) and that the dashboard shows no drop of a signal that lost
nothing (`DashboardIsTruthful`). The assumptions are those of the module: an
interval takes a positive time that divides `Unit`, and so does every sum of
intervals that a window can consist of (`WindowsAssumption`; that makes rates
per unit whole, as nothing is rounded in `float64` either), only a restart has
counts from before it, and no series has two places or the labels of another one
and more (`SeriesAssumption`). One invariant is enough, `StoreInv` (theorem
`StoreIsFaithful`): each snapshot follows the one before it by what its interval
counted (`FollowsInv`), shows the series that the collector exposes
(`ExposedInv`, `GaugesInv`), and the counters are those of the last one
(`LatestInv`). The rest is about one state with that history, and about folds:

- Sums are folds that pick their elements in an unknown order. What holds of
  them is shown by the least counterexample among the subsets of a finite set
  (`SubsetInduction`), counted windows by the least index (`UpTo`).
- A rate times its interval is at most what the interval counted, with equality
  when nothing disturbed it (`SeriesRate`, `SignalRate`). For the dashboard, a
  receiver is read through the first series that matches, which need not be the
  same in both snapshots; what it seems to gain is still no more than what some
  series of its has gained (`OwnerGrowth`).
- Over a steady window, what a series has counted in the intervals adds up to
  the difference of its ends, and it is exposed in both or has counted nothing
  (`SteadyWindow`); so a receiver or exporter is shown with exactly the traffic
  of its first series (`SteadyOwner`). The receivers on the dashboard stand for
  different terms of the sum of all that was accepted (`SumInjected`), the
  exporters for all of what was sent (`OneSeriesEach`), and the losses of the
  intervals add up (`LossesAddUp`).
- A sustained count is the end of a run of bad intervals with skipped ones
  between them (`Tally`, `SustainedTwice`, `SustainedThrice`). One restart
  explains one bad interval, and the rules ask for more.

`FrontendProofs` proves `PagesAreTruthful`, for any number of fetches, sessions,
editors and calls. That a page which waits for nothing shows no connection
does not follow from itself: `WaitingInv` says what a page that neither polls
nor was answered late waits for. It is "connecting" only if it awaits the answer to a
connect, and shows a connection or a snapshot only if it awaits that to a
disconnect.

Only model-checked:

- All liveness properties, because the prover has no rules for `ENABLED` and
  fairness: `ErrorsAreRecovered`, `OrphanLoopExits`, `CallsReturn`,
  `CancelledGoesAway`, `StaleGoesAway`, `CriticalsGoAway`, `PolledAgrees`,
  `RememberedIsRestored` and `LiveEditorIsAnalysed`. Every other property of a
  passing run is a theorem.
- The counterexamples, which are facts about single behaviours.

## 5. Not modelled

- In filter analysis: the scanning of OTTL text into conditions and the
  dropped ratio shown beside "partial".
  A processor used in several pipelines is analysed once per pipeline with the same
  result, so it is one member of the set. In alert coverage: fetching and parsing
  alert rules.
- In the catalogs: metric types and units, span kinds, the key of an entry beyond
  a name, the counts of metric entries; an `Entries` read is one critical section
  that copies, so it has no step of its own. `RateChanged`, like the rates and
  thresholds of the live rules, is exact where the code rounds to `float64`.
- gRPC calls as actors: `GracefulStop` waits for them under the manager's lock
  (`tap/receiver.go:119`), so one that never ends blocks `Stop`, `Start` and
  `Status`. A model of it would only restate that assumption about the peers.
- Parsing (YAML, exposition format, OTLP, OTTL, PromQL), formatting of reports,
  HTTP routing, and rendering. The command `analyze` is a straight line from a
  file to a report; what it runs is in `StaticAdvice`, its formatting is left
  out.
- Catalog rules (`rules/catalog`): stateless predicates over catalog entries and
  filter outcomes (counts, names, a comparison with the mean or a limit).
- The serve command's start-up and shutdown call `Connect`, `Start`,
  `Disconnect` and `Stop`: they are one more caller.
- On the page: the tap hook, which polls as the metrics hook does, and everything
  that only renders.

## 6. Plan

Done: all modules of section 2. Every property of a passing run that is not a
liveness property is a theorem (section 4).

What would add most from here:

1. `MetricsSession`, an abstract connection that `MetricsManager` implements for
   one caller up to its late publications.
2. The tap hook beside `MetricsHook`.
3. The catalog rules, over the names and types `Catalog` already keeps.
