------------------------------ MODULE AlertCoverage ------------------------------
(***************************************************************************)
(* A request for alert coverage (api/alertcoverage_handler.go): which of   *)
(* its alerts would lose their metrics to the filters of a configuration   *)
(* (alertcoverage/coverage.go).  The request reads the metric catalog      *)
(* piecewise, once per filter and once more for the names, while exports   *)
(* record into it and prunes and resets remove entries.                    *)
(*                                                                         *)
(* Requests do not touch each other, so one is enough.  One export at a    *)
(* time records one data point: what overlapping exports do to the         *)
(* trackers is in Catalog.                                                 *)
(***************************************************************************)
EXTENDS FilterAnalysis

CONSTANTS
  Points,       \* data points that exports bring, a subset of Point
  Configs,      \* sets of filter processors a request may come with
  Alerts,       \* [names, patterns, absent]: what an alert's expression refers to
  Finds,        \* what a regular expression matches anywhere, if it compiles
  NoPoint

ASSUME CoverageAssumption ==
  /\ Points \subseteq Point /\ NoPoint \notin Points
  /\ \A config \in Configs : config \subseteq Filter
  /\ Alerts \subseteq [names : SUBSET Names, patterns : SUBSET Patterns, absent : BOOLEAN]
  /\ DOMAIN Finds = DOMAIN Fits
  /\ \A p \in DOMAIN Finds : Fits[p] \subseteq Finds[p] /\ Finds[p] \subseteq Strings

VARIABLES
  config, alert,  \* the request's filters, and one alert of its rules
  known,          \* names in the catalog
  samples,        \* for each name, the sampled values of each attribute
  point, level,   \* the data point being recorded, and what comes next of it
  pc,             \* the request: "idle", "filters" or "names"
  hasCatalog,     \* whether the catalog had entries when the request began
  todo,           \* filters that are still to be analysed
  outcomes,       \* the composed outcome of each name; "none" if not analysed
  status,         \* the alert's status in the last answer; "none" if there is none
  seen,           \* ghost: points recorded whole since their entry was made
  before,         \* ghost: those of when the request began that are not forgotten
  flown           \* ghost: all points whose recording has begun

fixed == <<config, alert>>
catalog == <<known, samples>>
export == <<point, level>>
request == <<pc, hasCatalog, todo, outcomes, status>>
vars == <<fixed, catalog, export, request, seen, before, flown>>

Statuses == {"safe", "at_risk", "broken", "would_activate", "unknown"}

TypeOK ==
  /\ config \in Configs /\ alert \in Alerts
  /\ known \subseteq Names
  /\ samples \in [Names -> [Attrs -> SUBSET Values]]
  /\ \A n \in Names : n \notin known => samples[n] = NoSamples
  /\ point \in Points \union {NoPoint}
  /\ level \in {"none", "resource", "datapoint"}
  /\ level = "none" <=> point = NoPoint
  /\ pc \in {"idle", "filters", "names"}
  /\ hasCatalog \in BOOLEAN
  /\ todo \subseteq config
  /\ outcomes \in [Strings -> Outcomes \union {"none"}]
  /\ status \in Statuses \union {"none"}
  /\ seen \subseteq Points /\ before \subseteq Points /\ flown \subseteq Points

Init ==
  /\ config \in Configs /\ alert \in Alerts
  /\ known = {} /\ samples = [n \in Names |-> NoSamples]
  /\ point = NoPoint /\ level = "none"
  /\ pc = "idle" /\ hasCatalog = FALSE /\ todo = {}
  /\ outcomes = [s \in Strings |-> "none"] /\ status = "none"
  /\ seen = {} /\ before = {} /\ flown = {}

-----------------------------------------------------------------------------
(* The catalog *)

(* Catalog.Record, then RecordAttributes for the resource and for the data *)
(* point: three critical sections.                                         *)
Record(p) ==
  /\ level = "none"
  /\ point' = p /\ level' = "resource"
  /\ known' = known \union {p.name}
  /\ flown' = flown \union {p}
  /\ UNCHANGED <<fixed, samples, request, seen, before>>

AddSample(values, v) ==
  IF v = NoValue \/ Capped(values) THEN values ELSE values \union {v}

\* Mutation: the entry is not looked up again.
AddSamplesUnchecked(atLevel) ==
  [samples EXCEPT ![point.name] =
     [a \in Attrs |-> IF a[1] = atLevel THEN AddSample(@[a], point.attrs[a]) ELSE @[a]]]

AddSamples(atLevel) ==
  IF point.name \notin known THEN samples
  ELSE [samples EXCEPT ![point.name] =
          [a \in Attrs |-> IF a[1] = atLevel THEN AddSample(@[a], point.attrs[a]) ELSE @[a]]]

RecordResource ==
  /\ level = "resource" /\ level' = "datapoint"
  /\ samples' = AddSamples("resource")
  /\ UNCHANGED <<fixed, known, point, request, seen, before, flown>>

RecordDatapoint ==
  /\ level = "datapoint" /\ level' = "none" /\ point' = NoPoint
  /\ samples' = AddSamples("datapoint")
  /\ seen' = IF point.name \in known THEN seen \union {point} ELSE seen
  /\ UNCHANGED <<fixed, known, request, before, flown>>

(* A prune removes the entries that have gone stale, a reset all of them.  *)
Forget(gone) ==
  /\ known' = known \ gone
  /\ samples' = [n \in Names |-> IF n \in gone THEN NoSamples ELSE samples[n]]
  /\ seen' = {p \in seen : p.name \notin gone}
  /\ before' = {p \in before : p.name \notin gone}
  /\ UNCHANGED <<fixed, export, request, flown>>

-----------------------------------------------------------------------------
(* The request *)

RequestBegin ==
  /\ pc = "idle" /\ pc' = "filters"
  /\ hasCatalog' = (known # {})
  /\ todo' = {f \in config : HasRules(f)}
  /\ outcomes' = [s \in Strings |-> "none"]
  /\ status' = "none"
  /\ before' = seen
  /\ UNCHANGED <<fixed, catalog, export, seen, flown>>

Worst(set) ==
  IF "dropped" \in set THEN "dropped"
  ELSE IF "partial" \in set THEN "partial"
  ELSE IF "unknown" \in set THEN "unknown"
  ELSE "kept"

(* composeOutcome: a metric must survive every processor. *)
Compose(x, y) == Worst({x, y})

(* One round of buildFilterAnalyses: the entries are read again for every  *)
(* filter, and without entries only names are looked at.  The order of the *)
(* filters is that of a map.  The outcome is composed at once.             *)
AnalyzeFilter(f) ==
  LET analysed == IF hasCatalog THEN known ELSE RuleNames(f)
      result(s) == Outcome(f, s, IF hasCatalog THEN samples[s] ELSE NoSamples)
  IN  /\ pc = "filters" /\ f \in todo
      /\ todo' = todo \ {f}
      /\ outcomes' = [s \in Strings |->
           IF s \notin analysed THEN outcomes[s]
           ELSE IF outcomes[s] = "none" THEN result(s)
           ELSE Compose(outcomes[s], result(s))]
      /\ UNCHANGED <<fixed, catalog, export, pc, hasCatalog, status, seen, before, flown>>

\* Mutation: the names of the catalog are not looked up.
UnfilteredIsUnknown(tapIsActive, name) == IF tapIsActive THEN "unknown" ELSE "kept"

(* The outcome of a name that no filter was asked about. *)
UnfilteredOutcome(tapIsActive, name) ==
  IF tapIsActive /\ name \notin known THEN "unknown" ELSE "kept"

NameOutcome(tapIsActive, name) ==
  IF outcomes[name] # "none" THEN outcomes[name] ELSE UnfilteredOutcome(tapIsActive, name)

(* resolveRegexOutcome, which looks among the analysed names only. *)
RegexOutcome(pattern) ==
  LET found == IF pattern \in DOMAIN Finds
               THEN {s \in Finds[pattern] : outcomes[s] # "none"} ELSE {}
  IN  IF found = {} THEN "unknown" ELSE Worst({outcomes[s] : s \in found})

AlertOutcomes(tapIsActive) ==
  {NameOutcome(tapIsActive, n) : n \in alert.names}
    \union {RegexOutcome(p) : p \in alert.patterns}

DeriveStatus(set) ==
  IF set = {} THEN "unknown"
  ELSE CASE Worst(set) = "dropped" -> IF alert.absent THEN "would_activate" ELSE "broken"
         [] Worst(set) = "partial" -> "at_risk"
         [] Worst(set) = "unknown" -> "unknown"
         [] Worst(set) = "kept" -> "safe"

Answer(tapIsActive) ==
  /\ status' = DeriveStatus(AlertOutcomes(tapIsActive))
  /\ pc' = "idle"

(* The second Len of the request: with no entries there is no tap.         *)
ReadLen ==
  /\ pc = "filters" /\ todo = {}
  /\ IF known = {} THEN Answer(FALSE) ELSE pc' = "names" /\ UNCHANGED status
  /\ UNCHANGED <<fixed, catalog, export, hasCatalog, todo, outcomes, seen, before, flown>>

(* And the last Entries, of which it takes the names. *)
ReadNames ==
  /\ pc = "names"
  /\ Answer(TRUE)
  /\ UNCHANGED <<fixed, catalog, export, hasCatalog, todo, outcomes, seen, before, flown>>

-----------------------------------------------------------------------------
Next ==
  \/ \E p \in Points : Record(p)
  \/ RecordResource \/ RecordDatapoint
  \/ Forget(known) \/ \E n \in known : Forget({n})
  \/ RequestBegin
  \/ \E f \in config : AnalyzeFilter(f)
  \/ ReadLen \/ ReadNames

Spec == Init /\ [][Next]_vars

-----------------------------------------------------------------------------
(* Whether an alert refers to a metric. *)
Concerns(name) ==
  name \in alert.names \/ \E p \in alert.patterns \intersect DOMAIN Finds : name \in Finds[p]

(* Conditions on spans that pass for rules on metrics. *)
SpanRules(f) == f.metric \o f.datapoint = <<>> /\ Listed(f) = {} /\ f.span # <<>>

(* "safe" can be relied on: whatever an unsupported condition means, no    *)
(* filter drops any point of the alert's metrics that had been recorded    *)
(* when the request came in and has not been forgotten (coverage.go:68).   *)
SafeMeansNotDropped ==
  status = "safe" =>
    \A p \in before : Concerns(p.name) =>
      \A f \in config, other \in BOOLEAN : ~Drops(f, p, other)

(* "broken", "would_activate" and "at_risk" are no false alarms: a filter  *)
(* drops a point of the alert's metrics that has been seen, or any point   *)
(* of that name (coverage.go:147-156).                                     *)
AlarmIsReal ==
  status \in {"broken", "would_activate", "at_risk"} /\ ~(\E f \in config : SpanRules(f)) =>
    \E f \in config : \E s \in Strings :
      /\ Concerns(s)
      /\ \/ \E p \in flown : p.name = s /\ Drops(f, p, FALSE)
         \/ Drops(f, [name |-> s, attrs |-> [a \in Attrs |-> NoValue]], FALSE)

(* A condition that cannot be decided for all of the alert's metrics.      *)
Indefinite(c) ==
  \/ c.form = "unsupported"
  \/ c.form = "attrMatch" /\ c.arg \notin DOMAIN Fits
  \/ \E n \in alert.names : Capped(samples[n][c.attr])

(* "unknown" is never an accident of timing: an alert that names metrics   *)
(* recorded before the request, and not forgotten, gets a verdict unless a *)
(* condition is one that cannot be decided (coverage.go:86-90).            *)
UnknownHasReason ==
  status = "unknown" /\ pc = "idle" =>
    \/ alert.names = {} \/ alert.patterns # {}
    \/ \E n \in alert.names : \A p \in before : p.name # n
    \/ \E f \in config : \E i \in DOMAIN Conditions(f) : Indefinite(Conditions(f)[i])

=============================================================================
