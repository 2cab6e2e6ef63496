----------------------------- MODULE MetricsRates -----------------------------
(***************************************************************************)
(* The rates that metrics/store.go computes from the counters of the       *)
(* scraped collector, and their aggregation for the dashboard.             *)
(*                                                                         *)
(* A series is a record of its metric's name and its labels: metric,       *)
(* signal, owner (the receiver or the exporter) and, if it has one, part   *)
(* (the transport).  An exposition lists series in the order of Series,    *)
(* those that it has: a snapshot has a collection time in seconds and, as  *)
(* samples, a function from the places of these in Series to their values. *)
(* Rates are counted per Unit seconds, so that they are integers as long   *)
(* as the time between two snapshots divides Unit.                         *)
(***************************************************************************)
EXTENDS Integers, Sequences, SequencesExt, FiniteSetsExt, MetricsStore

CONSTANTS
  Unit,
  Series    \* the series a collector may expose, in their order

ASSUME UnitAssumption == Unit \in Nat \ {0}

\* A series of this metric has all the labels that are asked for, and perhaps
\* more.
Matches(labels, s) ==
  /\ s.metric = labels.metric
  /\ \A k \in DOMAIN labels : k \in DOMAIN s /\ s[k] = labels[k]

\* The collector exposes no series that has all the labels of another one, so
\* that asking for all of a series' labels finds that series.  A label that is
\* empty counts as missing.
Labels ==
  [metric : STRING, signal : STRING, owner : STRING] \union
  [metric : STRING, signal : STRING, owner : STRING, part : STRING \ {""}]
ASSUME SeriesAssumption ==
  /\ Series \in Seq(Labels)
  /\ \A j, k \in DOMAIN Series : Matches(Series[j], Series[k]) => j = k

Absent == -1
MinWindowElapsed == 15

\* The labels a caller asks for, of one metric: all of a series, or only its
\* receiver or exporter.
OfOwner(metric, signal, owner) ==
  [metric |-> metric, signal |-> signal, owner |-> owner]

\* The first sample whose labels match.
LookupValue(snap, labels) ==
  LET found == {k \in DOMAIN snap.samples : Matches(labels, Series[k])}
  IN  IF found = {} THEN Absent ELSE snap.samples[Min(found)]

PerUnit(delta, elapsed) == (delta * Unit) \div elapsed

\* Mutation: the sign is dropped instead of the interval.
RateAbsolute(prev, curr, labels) ==
  LET p == LookupValue(prev, labels)
      c == LookupValue(curr, labels)
      elapsed == curr.at - prev.at
  IN  IF p = Absent \/ c = Absent \/ elapsed <= 0 THEN 0
      ELSE PerUnit(IF c < p THEN p - c ELSE c - p, elapsed)

\* A counter that is missing on either side, or was reset, has no rate.
RatePerSecond(prev, curr, labels) ==
  LET p == LookupValue(prev, labels)
      c == LookupValue(curr, labels)
      elapsed == curr.at - prev.at
  IN  IF p = Absent \/ c = Absent \/ c < p \/ elapsed <= 0 THEN 0
      ELSE PerUnit(c - p, elapsed)

\* Over the whole window once it is long enough; over its last interval when
\* the counter was reset.
WindowRatePerSecond(window, labels) ==
  IF Len(window) < 2 THEN 0
  ELSE
    LET oldest == window[1]
        newest == window[Len(window)]
        p == LookupValue(oldest, labels)
        c == LookupValue(newest, labels)
        elapsed == newest.at - oldest.at
    IN  IF elapsed < MinWindowElapsed \/ p = Absent \/ c = Absent THEN 0
        ELSE IF c < p THEN RatePerSecond(window[Len(window) - 1], newest, labels)
        ELSE PerUnit(c - p, elapsed)

\* The receivers or exporters of a snapshot (uniqueLabelValues).
Owners(snap, metrics) ==
  {Series[k].owner : k \in {k \in DOMAIN snap.samples : Series[k].metric \in metrics}}

\* Mutation: a receiver counts once for each of its samples.
SignalMetricsOfSamples(window, signal) ==
  LET newest == window[Len(window)]
      samples == {k \in DOMAIN newest.samples : Series[k].metric = "accepted"}
      Window(metric, o) == WindowRatePerSecond(window, OfOwner(metric, signal, o))
      exporters == Owners(newest, {"sent", "failed", "queue_size", "queue_capacity"})
  IN  [accepted |-> SumFunction([k \in samples |-> Window("accepted", Series[k].owner)]),
       sent |-> SumFunction([o \in exporters |-> Window("sent", o)]),
       failed |-> SumFunction([o \in exporters |-> Window("failed", o)])]

\* What the dashboard shows for a signal.
SignalMetrics(window, signal) ==
  LET newest == window[Len(window)]
      Total(metric, owners) == SumFunction(
        [o \in owners |-> WindowRatePerSecond(window, OfOwner(metric, signal, o))])
      receivers == Owners(newest, {"accepted"})
      exporters == Owners(newest, {"sent", "failed", "queue_size", "queue_capacity"})
  IN  [accepted |-> Total("accepted", receivers), sent |-> Total("sent", exporters),
       failed |-> Total("failed", exporters)]

\* DropRatePct compared with a percentage, multiplied out.
DropRateExceeds(sm, pct) ==
  sm.sent < sm.accepted /\ (sm.accepted - sm.sent) * 100 > pct * sm.accepted

\* sumRateAcrossLabels: every series of a metric in the later snapshot.
SumRate(prev, curr, metric, signal) ==
  LET exposed == {k \in DOMAIN curr.samples :
                    Series[k].metric = metric /\ Series[k].signal = signal}
  IN  SumFunction([k \in exposed |-> RatePerSecond(prev, curr, Series[k])])
==============================================================================
