--------------------------------- MODULE Catalog ---------------------------------
(***************************************************************************)
(* The metric, span and log catalogs of package tap, fed by concurrent     *)
(* OTLP exports (the extract functions of tap/receiver.go), pruned by the  *)
(* prune loops and cleared by a reset of the tap.                          *)
(*                                                                         *)
(* Each method takes the lock of one catalog for itself only, so an export *)
(* is a sequence of critical sections with prunes and clears between them, *)
(* a prune and a reset go through the catalogs one by one, and Record,     *)
(* RecordBatch and Prune read the clock before they wait for the lock.     *)
(* A name stands for the key of an entry (metric name; service and span;   *)
(* service, scope and event), an attribute for its level and key.  Metric  *)
(* types, span kinds and the counts of metric entries are left out.        *)
(***************************************************************************)
EXTENDS Integers, Sequences, SequencesExt

CONSTANTS
  Exporters,    \* goroutines that handle export requests or messages
  Pruners,      \* prune loops
  Names, SignalOf, \* the keys of entries, and the catalog each belongs to
  Attrs, Values,
  Workloads,    \* what happens: [messages, exports, pruners, resets, time], a set of
                \* messages, a bound on their number, the prune loops that run,
                \* whether the tap is reset, a bound on the clock
  MaxSamples,   \* MaxSampleValues: 25 in the program
  TTL,          \* the ttl of each catalog
  WindowDur,    \* Catalog.windowDur
  MaxDelay,     \* bound: longest wait between reading the clock and the lock
  NoTime, NoWindow

Signals == <<"metrics", "spans", "logs">>
NamesOf(signal) == {n \in Names : SignalOf[n] = signal}
Tags == {"unset", "ok", "error"}

(* A metric, span or log record with its tag (the status of a span, the    *)
(* severity of a log record), the attributes above it (of its resource and *)
(* of its scope) and those of each data point, or of the span or log       *)
(* record itself.                                                          *)
Pairs == Seq(Attrs \X Values)
Item == [name : Names, tag : Tags, outer : Seq(Pairs), points : Seq(Pairs)]

ASSUME CatalogAssumption ==
  /\ SignalOf \in [Names -> {"metrics", "spans", "logs"}]
  /\ \A w \in Workloads : /\ w.exports \in Nat /\ w.time \in Nat /\ w.resets \in BOOLEAN
                           /\ w.pruners \subseteq Pruners
                           /\ \A m \in w.messages : m \in Seq(Item)
  /\ MaxSamples \in Nat \ {0}
  /\ {TTL, WindowDur, MaxDelay} \subseteq Nat
  /\ NoTime \notin Int
  /\ NoWindow \notin [points : Nat, batches : Nat, start : Nat]

VARIABLES
  load,          \* the workload, fixed
  now,           \* the clock
  entries,       \* the entries of the three catalogs, by name
  prevWindow, currWindow,
  pc, msg, left, \* an exporter's place, its export, what is still to record
  calls,         \* the calls of RecordAttributes still to make for the item
  clock,         \* the time an exporter read
  cutoff, turn,  \* the cutoff a pruner computed; the catalog it is at
  resetAt,       \* how many catalogs the running reset has cleared
  exports,       \* how many exports have begun
  intact,        \* ghost: exporters whose entry was not removed since Record
  owed,          \* ghost: attribute values recorded whole, per name
  newest,        \* ghost: latest time an export read for a name in its entry
  sizes,         \* ghost: batch sizes recorded since the last Clear
  old,           \* ghost: entries from before the reset that is running
  tally          \* ghost: items of each tag recorded into an entry

windows == <<prevWindow, currWindow>>
exportVars == <<load, pc, msg, left, calls, clock, exports>>
pruneVars == <<cutoff, turn>>
ghosts == <<intact, owed, newest, sizes, old, tally>>
vars == <<now, entries, windows, exportVars, pruneVars, resetAt, ghosts>>

Times == 0 .. load.time
NewTrackers == [a \in Attrs |-> [samples |-> <<>>, capped |-> FALSE]]
Samples(n, a) == ToSet(entries[n].trackers[a].samples)
NoTally == [t \in Tags |-> 0]

(* extractMetricMeta: the number of data points of a metric ... *)
PointCount(item) == Len(item.points)

(* ... and of an export of metrics. *)
TotalPoints(items) ==
  LET total[i \in 0 .. Len(items)] ==
        IF i = 0 THEN 0 ELSE total[i - 1] + PointCount(items[i])
  IN  total[Len(items)]

(* What a tracker, an entry of each catalog and a window are. *)
Trackers == [samples : Seq(Values), capped : BOOLEAN]
EntryOf(signal) ==
  CASE signal = "metrics" ->
         [first : Times, last : Times, trackers : [Attrs -> Trackers], keys : SUBSET Attrs]
    [] signal = "spans" ->
         [first : Times, last : Times, trackers : [Attrs -> Trackers],
          count : Nat, status : Tags]
    [] signal = "logs" ->
         [first : Times, last : Times, trackers : [Attrs -> Trackers],
          count : Nat, severities : [Tags -> Nat]]
Windows == [points : Nat \ {0}, batches : Nat \ {0}, start : Times]

TypeOK ==
  /\ load \in Workloads
  /\ now \in Times
  /\ DOMAIN entries \subseteq Names
  /\ \A n \in DOMAIN entries : entries[n] \in EntryOf(SignalOf[n])
  /\ {prevWindow, currWindow} \subseteq Windows \union {NoWindow}
  /\ pc \in [Exporters -> {"idle", "record", "attrs", "batch"}]
  /\ msg \in [Exporters -> Seq(Item)] /\ left \in [Exporters -> Seq(Item)]
  /\ \A e \in Exporters : /\ pc[e] \in {"record", "attrs"} => left[e] # <<>>
                          /\ pc[e] = "batch" => TotalPoints(msg[e]) > 0
  /\ calls \in [Exporters -> Seq(Pairs)]
  /\ clock \in [Exporters -> Times]
  /\ cutoff \in [Pruners -> -TTL .. load.time \union {NoTime}]
  /\ turn \in [Pruners -> DOMAIN Signals]
  /\ resetAt \in 0 .. 2
  /\ exports \in 0 .. load.exports
  /\ intact \subseteq Exporters
  /\ owed \in [Names -> SUBSET (Attrs \X Values)]
  /\ newest \in [Names -> Times]
  /\ sizes \subseteq Nat \ {0}
  /\ old \subseteq Names
  /\ tally \in [Names -> [Tags -> Nat]]

Init ==
  /\ load \in Workloads
  /\ now = 0 /\ entries = <<>>
  /\ prevWindow = NoWindow /\ currWindow = NoWindow
  /\ pc = [e \in Exporters |-> "idle"]
  /\ msg = [e \in Exporters |-> <<>>]
  /\ left = [e \in Exporters |-> <<>>] /\ calls = [e \in Exporters |-> <<>>]
  /\ clock = [e \in Exporters |-> 0]
  /\ cutoff = [p \in Pruners |-> NoTime] /\ turn = [p \in Pruners |-> 1]
  /\ resetAt = 0
  /\ exports = 0
  /\ intact = {} /\ owed = [n \in Names |-> {}]
  /\ newest = [n \in Names |-> 0] /\ sizes = {}
  /\ old = {} /\ tally = [n \in Names |-> NoTally]

-----------------------------------------------------------------------------
(* Time passes, but never so much that a goroutine would have waited for   *)
(* the lock for longer than MaxDelay.                                      *)
Tick ==
  /\ now < load.time
  /\ \A e \in Exporters : pc[e] \in {"record", "batch"} => now - clock[e] < MaxDelay
  /\ \A p \in Pruners : cutoff[p] # NoTime => now - TTL - cutoff[p] < MaxDelay
  /\ now' = now + 1
  /\ UNCHANGED <<entries, windows, exportVars, pruneVars, resetAt, ghosts>>

(* extractMetricMeta: the attribute keys of the first data point. *)
AttrKeys(item) ==
  IF item.points = <<>> THEN {} ELSE {kv[1] : kv \in ToSet(item.points[1])}

(* RecordAttributes returns at once when there are no attributes. *)
NonEmpty(kvss) ==
  LET kept[i \in 0 .. Len(kvss)] ==
        IF i = 0 THEN <<>>
        ELSE IF kvss[i] = <<>> THEN kept[i - 1] ELSE Append(kept[i - 1], kvss[i])
  IN  kept[Len(kvss)]

\* Mutation: the attributes of the last data point are not recorded.
AttributeCallsButLast(item) ==
  NonEmpty(item.outer \o SubSeq(item.points, 1, Len(item.points) - 1))

(* The calls of RecordAttributes for an item. *)
AttributeCalls(item) == NonEmpty(item.outer \o item.points)

\* Mutation: an export without data points is counted as a batch.
AfterMetricsAlwaysBatch(items) == "batch"

(* After its last item, an export of metrics records a batch if it had     *)
(* data points (extractAndRecord) ...                                      *)
AfterMetrics(items) == IF TotalPoints(items) > 0 THEN "batch" ELSE "idle"

(* ... and one of spans or logs, or an empty one, is done. *)
AfterLast(items) ==
  IF items # <<>> /\ SignalOf[items[1].name] = "metrics" THEN AfterMetrics(items) ELSE "idle"

(* The next item, or what follows the last.  Record and RecordBatch read   *)
(* the clock first.                                                        *)
Continue(e, rest, items) ==
  /\ left' = [left EXCEPT ![e] = rest]
  /\ LET next == IF rest # <<>> THEN "record" ELSE AfterLast(items)
     IN  /\ pc' = [pc EXCEPT ![e] = next]
         /\ clock' = [clock EXCEPT ![e] = IF next = "idle" THEN 0 ELSE now]
         /\ msg' = [msg EXCEPT ![e] = IF next = "idle" THEN <<>> ELSE items]

ExportBegin(e) ==
  /\ pc[e] = "idle"
  /\ exports < load.exports /\ exports' = exports + 1
  /\ \E m \in load.messages : Continue(e, m, m)
  /\ UNCHANGED <<load, now, entries, windows, calls, pruneVars, resetAt, ghosts>>

-----------------------------------------------------------------------------
\* Mutation: the cap is applied after the sample that exceeds it.
TrackCapsLate(t, v) ==
  IF t.capped \/ v \in ToSet(t.samples)
  THEN t
  ELSE [samples |-> Append(t.samples, v), capped |-> Len(t.samples) >= MaxSamples]

\* Mutation: a full tracker drops values without being marked.
TrackDropsSilently(t, v) ==
  IF Len(t.samples) = MaxSamples \/ v \in ToSet(t.samples)
  THEN t
  ELSE [samples |-> Append(t.samples, v), capped |-> FALSE]

(* attrTracker.record *)
Track(t, v) ==
  IF t.capped \/ v \in ToSet(t.samples)
  THEN t
  ELSE [samples |-> Append(t.samples, v),
        capped |-> Len(t.samples) + 1 >= MaxSamples]

(* The entry of an item in Catalog.Record, new or updated ... *)
MetricEntry(item, at) ==
  IF item.name \in DOMAIN entries
  THEN [entries[item.name] EXCEPT !.last = at, !.keys = @ \union AttrKeys(item)]
  ELSE [first |-> at, last |-> at, trackers |-> NewTrackers, keys |-> AttrKeys(item)]

\* Mutation: an entry has the status of its latest span.
SpanEntryLatestStatus(item, at) ==
  IF item.name \in DOMAIN entries
  THEN [entries[item.name] EXCEPT !.last = at, !.count = @ + 1, !.status = item.tag]
  ELSE [first |-> at, last |-> at, trackers |-> NewTrackers,
        count |-> 1, status |-> item.tag]

(* ... in SpanCatalog.Record: only an error changes its status ... *)
SpanEntry(item, at) ==
  IF item.name \in DOMAIN entries
  THEN [entries[item.name] EXCEPT
          !.last = at, !.count = @ + 1,
          !.status = IF item.tag = "error" THEN "error" ELSE @]
  ELSE [first |-> at, last |-> at, trackers |-> NewTrackers,
        count |-> 1, status |-> item.tag]

(* ... and in LogCatalog.Record: records are counted by severity. *)
LogEntry(item, at) ==
  IF item.name \in DOMAIN entries
  THEN [entries[item.name] EXCEPT
          !.last = at, !.count = @ + 1, !.severities[item.tag] = @ + 1]
  ELSE [first |-> at, last |-> at, trackers |-> NewTrackers,
        count |-> 1, severities |-> [NoTally EXCEPT ![item.tag] = 1]]

EntryAfter(item, at) ==
  CASE SignalOf[item.name] = "metrics" -> MetricEntry(item, at)
    [] SignalOf[item.name] = "spans" -> SpanEntry(item, at)
    [] SignalOf[item.name] = "logs" -> LogEntry(item, at)

Record(e) ==
  LET item == Head(left[e])
      n == item.name
      isNew == n \notin DOMAIN entries
  IN  /\ pc[e] = "record"
      /\ pc' = [pc EXCEPT ![e] = "attrs"]
      /\ calls' = [calls EXCEPT ![e] = AttributeCalls(item)]
      /\ clock' = [clock EXCEPT ![e] = 0]
      /\ entries' = [k \in DOMAIN entries \union {n} |->
                       IF k = n THEN EntryAfter(item, clock[e]) ELSE entries[k]]
      /\ intact' = intact \union {e}
      /\ newest' = [newest EXCEPT ![n] =
                      IF isNew \/ clock[e] > @ THEN clock[e] ELSE @]
      /\ tally' = [tally EXCEPT ![n][item.tag] = @ + 1]
      /\ UNCHANGED <<load, now, windows, msg, left, pruneVars, resetAt,
                     exports, owed, sizes, old>>

(* RecordAttributes of the three catalogs: the trackers of the entry, if   *)
(* it still exists, take the attributes of one call in turn.               *)
Tracked(trackers, kvs) ==
  LET after[i \in 0 .. Len(kvs)] ==
        IF i = 0 THEN trackers
        ELSE [after[i - 1] EXCEPT ![kvs[i][1]] = Track(@, kvs[i][2])]
  IN  after[Len(kvs)]

RecordAttributes(e) ==
  LET n == Head(left[e]).name
      kvs == Head(calls[e])
  IN  /\ pc[e] = "attrs" /\ calls[e] # <<>>
      /\ entries' = IF n \in DOMAIN entries
                    THEN [entries EXCEPT ![n].trackers = Tracked(@, kvs)]
                    ELSE entries
      /\ calls' = [calls EXCEPT ![e] = Tail(@)]
      /\ owed' = IF e \in intact THEN [owed EXCEPT ![n] = @ \union ToSet(kvs)] ELSE owed
      /\ UNCHANGED <<load, now, windows, pc, msg, left, clock, pruneVars, resetAt,
                     exports, intact, newest, sizes, old, tally>>

ItemDone(e) ==
  /\ pc[e] = "attrs" /\ calls[e] = <<>>
  /\ Continue(e, Tail(left[e]), msg[e])
  /\ intact' = intact \ {e}
  /\ UNCHANGED <<load, now, entries, windows, calls, pruneVars, resetAt,
                 exports, owed, newest, sizes, old, tally>>

\* Mutation: a window opened by rotation starts with the points of the last.
BatchWindowsCarryOver(total, at) ==
  LET rotate == currWindow # NoWindow /\ at - currWindow.start >= WindowDur
  IN  /\ currWindow' = IF currWindow = NoWindow
                       THEN [points |-> total, batches |-> 1, start |-> at]
                       ELSE [points |-> currWindow.points + total,
                             batches |-> IF rotate THEN 1 ELSE currWindow.batches + 1,
                             start |-> IF rotate THEN at ELSE currWindow.start]
      /\ prevWindow' = IF rotate THEN currWindow ELSE prevWindow

BatchWindows(total, at) ==
  LET opened == [points |-> total, batches |-> 1, start |-> at]
  IN  \/ /\ currWindow = NoWindow
         /\ currWindow' = opened /\ UNCHANGED prevWindow
      \/ /\ currWindow # NoWindow /\ at - currWindow.start >= WindowDur
         /\ currWindow' = opened /\ prevWindow' = currWindow
      \/ /\ currWindow # NoWindow /\ at - currWindow.start < WindowDur
         /\ currWindow' = [currWindow EXCEPT !.points = @ + total, !.batches = @ + 1]
         /\ UNCHANGED prevWindow

(* Catalog.RecordBatch *)
RecordBatch(e) ==
  /\ pc[e] = "batch"
  /\ pc' = [pc EXCEPT ![e] = "idle"]
  /\ msg' = [msg EXCEPT ![e] = <<>>] /\ clock' = [clock EXCEPT ![e] = 0]
  /\ BatchWindows(TotalPoints(msg[e]), clock[e])
  /\ sizes' = sizes \union {TotalPoints(msg[e])}
  /\ UNCHANGED <<load, now, entries, left, calls, pruneVars, resetAt,
                 exports, intact, owed, newest, old, tally>>

-----------------------------------------------------------------------------
(* The entries of these names are removed; what that means for the ghosts. *)
Forget(names) ==
  /\ entries' = [n \in DOMAIN entries \ names |-> entries[n]]
  /\ owed' = [n \in Names |-> IF n \in names THEN {} ELSE owed[n]]
  /\ tally' = [n \in Names |-> IF n \in names THEN NoTally ELSE tally[n]]
  /\ intact' = {e \in intact : Head(left[e]).name \notin names}
  /\ newest' = [n \in Names |-> IF n \in names THEN 0 ELSE newest[n]]

\* Mutation: the rate windows survive a reset.
ClearKeepsWindows(signal) ==
  /\ Forget(NamesOf(signal))
  /\ UNCHANGED <<prevWindow, currWindow>>
  /\ sizes' = IF signal = "metrics" THEN {} ELSE sizes

\* Mutation: the entries seen since the clock last moved are kept.
ClearSparesLatest(signal) ==
  /\ Forget({n \in NamesOf(signal) \intersect DOMAIN entries : entries[n].last < now})
  /\ IF signal = "metrics"
     THEN prevWindow' = NoWindow /\ currWindow' = NoWindow /\ sizes' = {}
     ELSE UNCHANGED <<prevWindow, currWindow, sizes>>

(* Clear of a catalog; that of the metrics has the windows too. *)
Clear(signal) ==
  /\ Forget(NamesOf(signal))
  /\ IF signal = "metrics"
     THEN prevWindow' = NoWindow /\ currWindow' = NoWindow /\ sizes' = {}
     ELSE UNCHANGED <<prevWindow, currWindow, sizes>>

(* handleReset: the next catalog, in the order of Signals. *)
ResetStep ==
  /\ load.resets
  /\ Clear(Signals[resetAt + 1])
  /\ resetAt' = (resetAt + 1) % Len(Signals)
  /\ old' = (IF resetAt = 0 THEN DOMAIN entries ELSE old) \intersect DOMAIN entries'
  /\ UNCHANGED <<now, exportVars, pruneVars>>

(* A tick of a prune loop goes through the catalogs in the order of        *)
(* Signals; each computes the cutoff before it waits for the lock.         *)
PruneBegin(p) ==
  /\ p \in load.pruners
  /\ cutoff[p] = NoTime
  /\ cutoff' = [cutoff EXCEPT ![p] = now - TTL]
  /\ UNCHANGED <<now, entries, windows, exportVars, turn, resetAt, ghosts>>

\* Mutation: the age of an entry is measured from when it was first seen.
StaleByFirstSeen(signal, at) ==
  {n \in NamesOf(signal) \intersect DOMAIN entries : entries[n].first < at}

\* Mutation: the logs are not pruned.
StaleExceptLogs(signal, at) ==
  {n \in NamesOf(signal) \intersect DOMAIN entries :
     signal # "logs" /\ entries[n].last < at}

Stale(signal, at) ==
  {n \in NamesOf(signal) \intersect DOMAIN entries : entries[n].last < at}

Prune(p) ==
  /\ cutoff[p] # NoTime
  /\ Forget(Stale(Signals[turn[p]], cutoff[p]))
  /\ cutoff' = [cutoff EXCEPT ![p] = NoTime]
  /\ turn' = [turn EXCEPT ![p] = (@ % Len(Signals)) + 1]
  /\ UNCHANGED <<now, windows, exportVars, resetAt, sizes>>
  /\ old' = old \intersect DOMAIN entries'

-----------------------------------------------------------------------------
ExportStep(e) ==
  Record(e) \/ RecordAttributes(e) \/ ItemDone(e) \/ RecordBatch(e)

Next ==
  \/ Tick \/ ResetStep
  \/ \E e \in Exporters : ExportBegin(e) \/ ExportStep(e)
  \/ \E p \in Pruners : PruneBegin(p) \/ Prune(p)

Spec == Init /\ [][Next]_vars

(* The tickers of the prune loops tick, and their prunes get the locks. *)
FairSpec == Spec /\ \A p \in Pruners : WF_vars(PruneBegin(p)) /\ WF_vars(Prune(p))

(* Catalog.RateChanged, in exact arithmetic: the averages of points per    *)
(* batch of the two windows differ by more than half.                      *)
RateChanged ==
  /\ prevWindow # NoWindow /\ currWindow # NoWindow
  /\ prevWindow.batches >= 2 /\ currWindow.batches >= 2
  /\ LET p == prevWindow.points * currWindow.batches
         c == currWindow.points * prevWindow.batches
     IN  2 * (c - p) > p \/ 2 * (p - c) > p

-----------------------------------------------------------------------------
(* An attribute that is not capped lists every value that was recorded for *)
(* it by an export whose entry was not removed meanwhile: the premise on   *)
(* which filter analysis answers "kept" or "dropped" instead of "unknown". *)
UncappedIsComplete ==
  \A n \in DOMAIN entries : \A kv \in owed[n] :
    entries[n].trackers[kv[1]].capped \/ kv[2] \in Samples(n, kv[1])

(* The memory of a tracker is bounded, no value is listed twice, and it is *)
(* capped exactly when it is full (catalog.go:50-64).                      *)
TrackersAreBounded ==
  \A n \in DOMAIN entries : \A a \in Attrs :
    LET t == entries[n].trackers[a]
    IN  /\ Len(t.samples) = Cardinality(Samples(n, a))
        /\ Len(t.samples) <= MaxSamples
        /\ t.capped <=> Len(t.samples) = MaxSamples

(* A prune only removes entries that no export has seen in the time to     *)
(* live, give or take the longest wait for the lock (catalog.go:339-350).  *)
PruneSparesRecent ==
  [][\A p \in Pruners : cutoff[p] # NoTime /\ cutoff'[p] = NoTime =>
       \A n \in DOMAIN entries \ DOMAIN entries' :
         newest[n] < cutoff[p] + MaxDelay ]_vars

(* With a prune loop running, an entry of any of the three catalogs that   *)
(* is not seen any more goes.                                              *)
StaleGoesAway ==
  \A n \in Names :
    (load.pruners # {} /\ n \in DOMAIN entries /\ entries[n].last < now - TTL)
      ~> (n \notin DOMAIN entries \/ entries[n].last >= now - TTL)

(* Every attribute key of a metric entry has sample values, unless an      *)
(* export has yet to record them: keys and values are recorded in two      *)
(* critical sections (receiver.go:247, :250), and resets, prunes and other *)
(* exports come between.                                                   *)
KeysHaveSamples ==
  \A n \in NamesOf("metrics") \intersect DOMAIN entries : \A a \in entries[n].keys :
    \/ Samples(n, a) # {}
    \/ \E e \in intact : /\ Head(left[e]).name = n
                        /\ \E kvs \in ToSet(calls[e]), v \in Values : <<a, v>> \in ToSet(kvs)

(* Entries account for exactly the items recorded since they were created, *)
(* by whichever exports: no error is masked by a later success or left     *)
(* over from before a prune, no log record counted twice or under another  *)
(* severity (span_catalog.go:93-98, log_catalog.go:132-135).               *)
EntriesAccountForItems ==
  \A n \in DOMAIN entries :
    /\ SignalOf[n] = "spans" => (entries[n].status = "error" <=> tally[n]["error"] > 0)
    /\ SignalOf[n] = "logs" => entries[n].severities = tally[n]
    /\ SignalOf[n] # "metrics" =>
         entries[n].count = tally[n]["unset"] + tally[n]["ok"] + tally[n]["error"]

(* Once a reset has answered, the catalogs hold only what was recorded     *)
(* since it began, also by exports that were under way                     *)
(* (tap_handler.go:122-127).                                               *)
ResetForgets == resetAt = 0 => old = {}

(* The windows compared are successive, and a window is never compared     *)
(* with batches from before a reset or with itself (catalog.go:204-217).   *)
WindowsAreSuccessive ==
  /\ prevWindow # NoWindow => /\ currWindow # NoWindow
                              /\ currWindow.start - prevWindow.start >= WindowDur
  /\ sizes = {} => currWindow = NoWindow

(* Exports of one size never raise the rate warning, however they fall     *)
(* into the windows (catalog.go:292-295).                                  *)
SteadyIsNotChanged == Cardinality(sizes) <= 1 => ~RateChanged

(* What filter analysis relies on when it takes samples for the truth. *)
SamplesAreFaithful ==
  TypeOK /\ UncappedIsComplete /\ TrackersAreBounded /\ KeysHaveSamples

(* What the rate warning relies on. *)
RateCheckIsSound == WindowsAreSuccessive /\ SteadyIsNotChanged

=============================================================================
