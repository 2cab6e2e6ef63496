------------------------------ MODULE LiveRules -------------------------------
(***************************************************************************)
(* The live rules (rules/live) over the window of snapshots that scrapes   *)
(* of a collector leave behind, beside what really went through that       *)
(* collector in the meantime.                                              *)
(*                                                                         *)
(* The collector is the environment.  From one scrape to the next it       *)
(* counts traffic; it may restart, and its counters begin again: at zero   *)
(* or, if it only exposes what it has counted (eager is FALSE), as series  *)
(* that are not there until there is something to count.                   *)
(***************************************************************************)
EXTENDS MetricsRates

CONSTANTS
  Signals,
  Intervals,    \* what may happen between two scrapes
  Setups,       \* pairs of Booleans: are counters exposed from the start, is there a sampler
  MaxScrapes    \* bound on the number of scrapes

\* An interval lasts some seconds, so many that rates are integers.  It counts
\* "after" and, only when the collector restarts in it, "before" that, per
\* series; a gauge has the value "after".
ASSUME SetupsAssumption == Setups \subseteq BOOLEAN \X BOOLEAN
ASSUME IntervalsAssumption ==
  \A iv \in Intervals :
    /\ iv.seconds \in Nat \ {0} /\ Unit % iv.seconds = 0
    /\ iv.restart \in BOOLEAN
    /\ iv.before \in [ToSet(Series) -> Nat] /\ iv.after \in [ToSet(Series) -> Nat]
    /\ ~iv.restart => \A s \in ToSet(Series) : iv.before[s] = 0
\* So has a window, whatever intervals it consists of.
ASSUME WindowsAssumption ==
  \A n \in 2 .. WindowSize :
    \A lengths \in [2 .. n -> {iv.seconds : iv \in Intervals}] :
      Unit % SumFunction(lengths) = 0
ASSUME MaxScrapesAssumption == MaxScrapes \in Nat

VARIABLES
  store,      \* the window
  counters,   \* of the running collector
  truth,      \* ghost: for each snapshot of the window, the interval before it
  now,
  eager,
  sampled,    \* a traces pipeline has a sampler
  scrapes

vars == <<store, counters, truth, now, eager, sampled, scrapes>>

IsGauge(s) == s.metric \in {"queue_size", "queue_capacity"}

Init ==
  /\ store = NewStore /\ truth = NewStore
  /\ counters = [s \in ToSet(Series) |-> 0]
  /\ now = 0 /\ scrapes = 0
  /\ \E s \in Setups : eager = s[1] /\ sampled = s[2]

Exposed(values) ==
  [k \in {k \in DOMAIN Series : values[Series[k]] > 0 \/ eager \/ IsGauge(Series[k])} |->
     values[Series[k]]]

Scrape(iv) ==
  /\ scrapes < MaxScrapes
  /\ scrapes' = scrapes + 1
  /\ counters' = [s \in ToSet(Series) |->
       IF iv.restart \/ IsGauge(s) THEN iv.after[s] ELSE counters[s] + iv.after[s]]
  /\ now' = now + iv.seconds
  /\ store' = Push(store, [at |-> now', samples |-> Exposed(counters')])
  /\ truth' = Push(truth, iv)
  /\ UNCHANGED <<eager, sampled>>

\* The user resets the metrics.
ResetStore ==
  /\ store # NewStore
  /\ store' = Clear(store)
  /\ truth' = Clear(truth)
  /\ UNCHANGED <<counters, now, eager, sampled, scrapes>>

Next == ResetStore \/ \E iv \in Intervals : Scrape(iv)

Spec == Init /\ [][Next]_vars
------------------------------------------------------------------------------
(* The rules.  Interval i is the one that ends with snapshot i of the       *)
(* window, which a rule takes once it knows how many snapshots there are.   *)

Ends == 2 .. Len(store)
Rate(i, metric, signal) == SumRate(store[i - 1], store[i], metric, signal)

\* Mutation: a good interval does not set the count back.
SustainedTotal(first, skipped, bad) ==
  Cardinality({i \in first .. Len(store) : i \notin skipped /\ i \in bad})

\* The count a loop over the window arrives at: one more for every bad
\* index, from zero again after a good one, as it was for a skipped one.
Sustained(first, skipped, bad) ==
  LET count[i \in 0 .. Len(store)] ==
        IF i < first THEN 0
        ELSE IF i \in skipped THEN count[i - 1]
        ELSE IF i \in bad THEN count[i - 1] + 1 ELSE 0
  IN  count[Len(store)]

Spared(signal) == signal = "traces" /\ sampled

\* Both rules on what comes in and what goes out count the intervals in which
\* a times what came in exceeds b times what went out; they look away from
\* those in which nothing came in.
LossRule(needs, count, a, b) ==
  {signal \in Signals :
     LET in == [i \in Ends |-> Rate(i, "accepted", signal)]
         out == [i \in Ends |-> Rate(i, "sent", signal)]
     IN  /\ Len(store) >= needs
         /\ ~Spared(signal)
         /\ Sustained(2, {i \in Ends : in[i] <= 0}, {i \in Ends : a * in[i] > b * out[i]})
              >= count}

\* Mutation: one interval is enough.
HighDropRateAtOnce == LossRule(3, 1, 9, 10)

\* More than 10% of what was accepted.
HighDropRate == LossRule(3, 2, 9, 10)

ReceiverExporterMismatch == LossRule(4, 3, 1, 2)

\* Exporters whose failures of one signal last for three intervals.
ExporterSustainedFailures ==
  IF Len(store) < 4 THEN {}
  ELSE {e \in Owners(store[Len(store)], {"sent", "failed", "queue_size", "queue_capacity"}) :
          \E signal \in Signals :
            Sustained(2, {}, {i \in Ends :
              RatePerSecond(store[i - 1], store[i], OfOwner("failed", signal, e)) > 0}) >= 3}

QueueLabels(metric, e) == [metric |-> metric, owner |-> e]

\* Mutation: a queue without a capacity counts as full.
QueueNearCapacityOfNone ==
  IF Len(store) < 3 THEN {}
  ELSE {e \in Owners(store[Len(store)], {"queue_size"}) :
          LET Size(i) == LookupValue(store[i], QueueLabels("queue_size", e))
              Capacity(i) == LookupValue(store[i], QueueLabels("queue_capacity", e))
          IN  Sustained(1, {}, {i \in 1 .. Len(store) : Size(i) * 100 >= 80 * Capacity(i)}) >= 2}

\* Snapshots that do not say how full the queue is are skipped.
QueueNearCapacity ==
  IF Len(store) < 3 THEN {}
  ELSE {e \in Owners(store[Len(store)], {"queue_size"}) :
          LET Size(i) == LookupValue(store[i], QueueLabels("queue_size", e))
              Capacity(i) == LookupValue(store[i], QueueLabels("queue_capacity", e))
          IN  Sustained(1,
                {i \in 1 .. Len(store) : Size(i) = Absent \/ Capacity(i) <= 0},
                {i \in 1 .. Len(store) : Size(i) * 100 > 80 * Capacity(i)}) >= 2}

\* Mutation: one low rate is enough.
ReceiverBackpressureAtOnce ==
  {signal \in Signals :
     /\ Len(store) >= 4
     /\ LET n == Len(store)
            earlier == n - 3
            total == SumFunction([i \in 2 .. n - 2 |-> Rate(i, "accepted", signal)])
        IN  /\ total >= 10 * Unit * earlier
            /\ \E i \in {n - 1, n} : 2 * earlier * Rate(i, "accepted", signal) <= total}

\* Signals whose last two rates are at most half the average of those before.
ReceiverBackpressure ==
  {signal \in Signals :
     /\ Len(store) >= 4
     /\ LET n == Len(store)
            earlier == n - 3
            total == SumFunction([i \in 2 .. n - 2 |-> Rate(i, "accepted", signal)])
        IN  /\ total >= 10 * Unit * earlier
            /\ \A i \in {n - 1, n} : 2 * earlier * Rate(i, "accepted", signal) <= total}

\* Mutation: every signal has to have traffic.
AllTraffic(i) == \A signal \in Signals : Rate(i, "accepted", signal) > 0

AnyTraffic(i) == \E signal \in Signals : Rate(i, "accepted", signal) > 0

\* Mutation: four intervals.
ZeroThroughputNeedsOneMore ==
  /\ Len(store) >= 5
  /\ \A i \in Len(store) - 3 .. Len(store) : ~AnyTraffic(i)

\* Counted back from the last interval to one with traffic.
ZeroThroughput ==
  /\ Len(store) >= 4
  /\ \A i \in Len(store) - 2 .. Len(store) : ~AnyTraffic(i)

\* Mutation: the factor is at the wrong side.
LogVolumeDominanceReversed ==
  /\ Len(store) >= 2
  /\ LET Latest(signal) == Rate(Len(store), "accepted", signal)
     IN  3 * Latest("logs") > Latest("traces")

LogVolumeDominance ==
  /\ Len(store) >= 2
  /\ LET Latest(signal) == Rate(Len(store), "accepted", signal)
     IN  Latest("traces") > 0 /\ Latest("logs") > 3 * Latest("traces")
------------------------------------------------------------------------------
(* What happened.  An interval is undisturbed when the collector did not    *)
(* restart and every series with traffic was there before.                  *)

Count(iv, s) == iv.before[s] + iv.after[s]
Places(metric, signal) ==
  {k \in DOMAIN Series : Series[k].metric = metric /\ Series[k].signal = signal}
PlacesOf(metric, signal, owner) ==
  {k \in Places(metric, signal) : Series[k].owner = owner}
RealAt(i, places) == SumFunction([k \in places |-> Count(truth[i], Series[k])])
Real(i, metric, signal) == RealAt(i, Places(metric, signal))

Undisturbed(i) ==
  /\ ~truth[i].restart
  /\ \A k \in DOMAIN Series :
       Count(truth[i], Series[k]) > 0 => k \in DOMAIN store[i - 1].samples
Restarts == Cardinality({i \in Ends : truth[i].restart})
Elapsed(i) == store[i].at - store[i - 1].at

\* What the dashboard may show of a receiver or an exporter: its average over
\* the window or, after a restart, over the last interval.
Most(metric, signal, owner) ==
  LET n == Len(store)
      RealOf(i) == RealAt(i, PlacesOf(metric, signal, owner))
      whole == PerUnit(SumFunction([i \in Ends |-> RealOf(i)]), store[n].at - store[1].at)
      last == PerUnit(RealOf(n), Elapsed(n))
  IN  IF whole < last THEN last ELSE whole

TypeOK ==
  /\ Len(store) \in 0 .. WindowSize /\ Len(truth) = Len(store)
  /\ \A i \in Ends : Elapsed(i) > 0
  /\ counters \in [ToSet(Series) -> Nat]
  /\ scrapes \in 0 .. MaxScrapes /\ now \in Nat
  /\ eager \in BOOLEAN /\ sampled \in BOOLEAN

\* No rate exceeds the traffic there was: not when a counter starts again, not
\* when a receiver's first series is another one than before, and not over
\* the whole window (metrics/store.go:104-127, 196-226).
RatesAreNotInflated ==
  \A signal \in Signals, metric \in {"accepted", "sent", "failed"} :
    /\ \A i \in Ends :
         Rate(i, metric, signal) * Elapsed(i) <= Real(i, metric, signal) * Unit
    /\ Len(store) >= 2 =>
         SignalMetrics(store, signal)[metric] <=
           SumFunction([o \in {s.owner : s \in ToSet(Series)} |-> Most(metric, signal, o)])

\* A report that no data flows is wrong only about intervals in which the
\* collector restarted or a series was new (rules/live/zero_throughput.go).
ZeroIsReal ==
  ZeroThroughput => \A i \in Len(store) - 2 .. Len(store) :
    Undisturbed(i) => \A signal \in Signals : Real(i, "accepted", signal) = 0

\* Silence of three intervals is reported, restarts or not.
SilenceIsReported ==
  Len(store) >= 4 /\ (\A i \in Len(store) - 2 .. Len(store), signal \in Signals :
                        Real(i, "accepted", signal) = 0)
    => ZeroThroughput

\* An exporter reported for sustained failures failed in each of the last
\* three intervals, and one whose every series of a signal counts failures in
\* them, undisturbed, is reported (rules/live/exporter_sustained_failures.go:54-66).
FailuresAreSustained ==
  LET Fails(i, k) == Count(truth[i], Series[k]) > 0
      last == Len(store) - 2 .. Len(store)
  IN  Len(store) >= 4 =>
        \A e \in {s.owner : s \in ToSet(Series)} :
          /\ e \in ExporterSustainedFailures =>
               \E signal \in Signals : \A i \in last :
                 \E k \in PlacesOf("failed", signal, e) : Fails(i, k)
          /\ (\E signal \in Signals :
                /\ PlacesOf("failed", signal, e) # {}
                /\ \A i \in last :
                     Undisturbed(i) /\ \A k \in PlacesOf("failed", signal, e) : Fails(i, k))
               => e \in ExporterSustainedFailures

Lossless(i, signal) == 10 * Real(i, "sent", signal) >= 9 * Real(i, "accepted", signal)

\* A collector that sends on what it accepts, and exposes its counters from the
\* start, is not reported for losing data because it restarted once
\* (rules/live/high_drop_rate.go:48-66, receiver_exporter_mismatch.go:50-65).
OneRestartIsNoLoss ==
  \A signal \in Signals :
    eager /\ Restarts <= 1 /\ (\A i \in Ends : Lossless(i, signal))
      => signal \notin HighDropRate \cup ReceiverExporterMismatch

\* One interval in which all goes well takes the alarms back.
GoodIntervalClears ==
  Len(store) >= 2 =>
    LET n == Len(store) IN
    Undisturbed(n) =>
      \A signal \in Signals :
        Real(n, "accepted", signal) > 0 /\ Lossless(n, signal)
          => signal \notin HighDropRate \cup ReceiverExporterMismatch

\* A drop of the accepted rate is reported only if there was one, as long as
\* at most one restart disturbs the window of a collector that exposes its
\* counters from the start (rules/live/receiver_backpressure.go:45-80).
BackpressureIsReal ==
  \A signal \in ReceiverBackpressure :
    LET n == Len(store)
        Truly(i) == PerUnit(Real(i, "accepted", signal), Elapsed(i))
        Slow(i) == 2 * (n - 3) * Truly(i) <= SumFunction([j \in 2 .. n - 2 |-> Truly(j)])
    IN  eager /\ Restarts <= 1 => \E i \in {n - 1, n} : Slow(i)

\* An exporter whose queue is reported was close to its capacity the last two
\* times the collector told one (rules/live/queue_near_capacity.go:44-57).
QueueAlarmIsReal ==
  \A e \in QueueNearCapacity :
    \E size, capacity \in {s \in ToSet(Series) : s.owner = e} :
      /\ size.metric = "queue_size" /\ capacity.metric = "queue_capacity"
      /\ LET Full(i) == /\ truth[i].after[capacity] > 0
                        /\ 10 * truth[i].after[size] > 8 * truth[i].after[capacity]
         IN  \E i, j \in 1 .. Len(store) :
               /\ i < j /\ Full(i) /\ Full(j)
               /\ \A k \in i .. Len(store) : k \notin {i, j} => truth[k].after[capacity] = 0

\* Logs that are reported to dominate did, unless the interval was disturbed:
\* the two signals are compared over the same interval
\* (rules/live/log_volume_dominance.go:22-36).
DominanceIsReal ==
  LogVolumeDominance /\ Undisturbed(Len(store)) =>
    Real(Len(store), "accepted", "logs") > 3 * Real(Len(store), "accepted", "traces")

\* No alarm of a live rule is about something that did not happen, or goes on
\* when it is over.
AlarmsAreReal ==
  /\ ZeroIsReal /\ FailuresAreSustained /\ OneRestartIsNoLoss /\ GoodIntervalClears
  /\ BackpressureIsReal /\ QueueAlarmIsReal /\ DominanceIsReal

\* The dashboard reads only one series of each receiver and exporter; these are
\* all that the exporters have.
OneSeriesEach(metric, signal) ==
  \A j, k \in Places(metric, signal) : Series[j].owner = Series[k].owner => j = k

\* The dashboard shows no drop of a signal that lost nothing in any interval
\* of the window, none of which was disturbed, although it misses the other
\* series of a receiver (metrics/store.go:283-306).
DashboardShowsNoFalseDrop ==
  \A signal \in Signals :
    /\ Len(store) >= 2
    /\ \A i \in Ends : Undisturbed(i) /\ Lossless(i, signal)
    /\ OneSeriesEach("sent", signal)
    => ~DropRateExceeds(SignalMetrics(store, signal), 10)
==============================================================================
