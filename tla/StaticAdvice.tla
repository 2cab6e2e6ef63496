---------------------------- MODULE StaticAdvice -----------------------------
(***************************************************************************)
(* A user works on a configuration: it is analysed (analyze.Run: all       *)
(* static rules, the search for connector loops, the minimal severity),    *)
(* and the user follows the advice of one of the findings, its snippet     *)
(* merged into the configuration where its recommendation says, and has    *)
(* the result analysed again.                                              *)
(*                                                                         *)
(* Advice(cfg, f) is the set of configurations the advice may lead to.     *)
(***************************************************************************)
EXTENDS StaticRules, ConnectorLoop

CONSTANT Samples    \* configurations to start from, each with a severity rank

ASSUME SamplesAssumption ==
  \A s \in Samples : IsConfig(s.cfg) /\ DOMAIN s.cfg.pipelines \subseteq Pipeline

\* The names that the advice on routing gives to pipelines are names.
ASSUME BranchesAssumption ==
  \A p \in Pipeline, branch \in {"primary", "secondary"} : <<ComponentType(p), branch>> \in Pipeline

VARIABLES cfg,        \* the configuration as it is now
          threshold,  \* the rank of the minimal severity
          findings,   \* the last report
          phase,      \* "edited", "searching" or "reported"
          followed    \* history: the finding last followed, "none" before

adviceVars == <<cfg, threshold, findings, phase, followed, searchVars>>
------------------------------------------------------------------------------
(* Edits *)

NoSettings == [k \in {} |-> 0]

\* New entries of a map, over those it has.
Over(new, old) ==
  [n \in DOMAIN new \cup DOMAIN old |-> IF n \in DOMAIN new THEN new[n] ELSE old[n]]

\* The snippet's settings of a component, over those it has.
Merge(c, section, name, settings) ==
  [c EXCEPT ![section] =
     Over([n \in {name} |-> Over(settings, Setting(@, name, NoSettings))], @)]
Exporter(c, f, settings) == Merge(c, "exporters", f.name, settings)
Processor(c, f, settings) == Merge(c, "processors", f.name, settings)
Extension(c, f, settings) == Merge(c, "extensions", f.name, settings)

Lists(c, p, list, names) == [c EXCEPT !.pipelines[p][list] = names]
Processors(c, p) == c.pipelines[p].processors

\* A processor that the snippet defines, put into the list at a position.
Insert(c, p, name, settings, i) ==
  Lists(Merge(c, "processors", name, settings), p, "processors",
        InsertAt(Processors(c, p), i, name))
BeforeBatch(c, p) ==
  LET b == FirstOf(Processors(c, p), {"batch"})
  IN  IF b = 0 THEN Len(Processors(c, p)) + 1 ELSE b
AfterMemoryLimiter(c, p) == FirstOf(Processors(c, p), {"memory_limiter"}) + 1

Localhost(ep) == <<"localhost", ep[2]>>
MemoryLimits == [limit_mib |-> 512]

\* Mutation: the memory limiter comes last.
AddMemoryLimiterLast(c, p) ==
  Insert(c, p, <<"memory_limiter", "">>, MemoryLimits, Len(Processors(c, p)) + 1)

AddMemoryLimiter(c, p) == Insert(c, p, <<"memory_limiter", "">>, MemoryLimits, 1)
AddBatch(c, p) ==
  Insert(c, p, <<"batch", "">>, NoSettings, Len(Processors(c, p)) + 1)
AddSampler(c, p) ==
  Insert(c, p, <<"probabilistic_sampler", "">>, NoSettings, BeforeBatch(c, p))
AddSeverityFilter(c, p) ==
  Insert(c, p, <<"filter", "severity">>, [error_mode |-> "ignore"], BeforeBatch(c, p))
AddHealthFilter(c, p) ==
  Insert(c, p, <<"filter", "health">>,
         [error_mode |-> "ignore", traces_span |-> {"health"}], AfterMemoryLimiter(c, p))

\* The processor at position i is moved to where position j is then.
Move(c, p, i, j) ==
  LET s == Processors(c, p)
  IN  Lists(c, p, "processors", InsertAt(RemoveAt(s, i), j, s[i]))

MoveMemoryLimiterFirst(c, p) ==
  Move(c, p, FirstOf(Processors(c, p), {"memory_limiter"}), 1)

LastOf(names, types) ==
  SelectLastInSeq(names, LAMBDA n : ComponentType(n) \in types)

\* Behind the last sampling processor.
MoveBatchAfterSampling(c, p) ==
  Move(c, p, FirstOf(Processors(c, p), {"batch"}), LastOf(Processors(c, p), Samplers))

MoveBatchToEnd(c, p) ==
  Move(c, p, FirstOf(Processors(c, p), {"batch"}), Len(Processors(c, p)))

Without(c, p, list, gone) ==
  Lists(c, p, list, Only(c.pipelines[p][list], ToSet(c.pipelines[p][list]) \ gone))

\* Or the collector's own log is excluded, which no rule looks at.
StopFeedback(c, p) ==
  {Without(c, p, "exporters",
     {n \in ToSet(c.pipelines[p].exporters) : ComponentType(n) \in DebugTypes})}
  \cup {Merge(c, "receivers", r, [exclude |-> TRUE]) :
          r \in {n \in DOMAIN c.receivers :
                   ComponentType(n) = "filelog" /\ "exclude" \notin DOMAIN c.receivers[n]}}

AddPipelines(c, new) == [c EXCEPT !.pipelines = Over(new, @)]

\* The pipeline sends to the connector, and two pipelines receive from it;
\* the snippet gives these no processors.
RouteExporters(c, p) ==
  LET routing == <<"routing", "">>
      exporters == c.pipelines[p].exporters
      Branch(name, es) ==
        PipelineOf(<<ComponentType(p), name>>, <<routing>>, <<>>, es)
      branches == Over(Branch("primary", <<Head(exporters)>>),
                       Branch("secondary", Tail(exporters)))
  IN  Lists(AddPipelines(Merge(c, "connectors", routing, NoSettings), branches),
            p, "exporters", <<routing>>)

FillPipeline(c, f) == Lists(c, f.name, f.about[1], <<<<"otlp", "">>>>)

\* The missing component is defined, its settings left to be added, in its
\* own section or among the connectors, or its name removed from the pipeline.
ResolveRef(c, f) ==
  LET list == f.about[1]
      name == f.about[2]
      sections == {list} \cup (IF list = "processors" THEN {} ELSE {"connectors"})
  IN  {Merge(c, section, name, NoSettings) : section \in sections}
        \cup {Without(c, f.name, list, {name})}

RemoveUnused(c, f) ==
  LET section == CASE f.kind = "receiver" -> "receivers"
                   [] f.kind = "processor" -> "processors"
                   [] f.kind = "exporter" -> "exporters"
  IN  [c EXCEPT ![section] = Restrict(@, DOMAIN @ \ {f.name})]

\* The receiver with the longest interval gets the shortest one, as its
\* collection_interval whatever its type.
AlignIntervals(c, p) ==
  LET intervals == ReceiverIntervals(c, c.pipelines[p].receivers)
      shortest == Min({ri[2] : ri \in intervals})
      longest == Max({ri[2] : ri \in intervals})
  IN  {Merge(c, "receivers", ri[1], [collection_interval |-> shortest]) :
         ri \in {x \in intervals : x[2] = longest}}

LengthenInterval(c, f) ==
  Merge(c, "receivers", f.name,
    IF ComponentType(f.name) = "hostmetrics" THEN [collection_interval |-> 60]
    ELSE [scrape_intervals |->
            (PrometheusIntervals(c.receivers[f.name]) \ {f.about[2]}) \cup {60}])

\* The snippet of an OTLP receiver sets both protocols from one endpoint.
BindReceiverLocally(c, f) ==
  LET ep == Localhost(f.about)
      http == IF ep[2] = 4317 THEN <<ep[1], 4318>> ELSE ep
  IN  Merge(c, "receivers", f.name,
            IF ComponentType(f.name) = "otlp"
            THEN [grpc_endpoint |-> ep, http_endpoint |-> http] ELSE [endpoint |-> ep])

Enable(c, name) == [c EXCEPT !.serviceExtensions = Append(@, name)]
AddHealthCheck(c) ==
  LET name == <<"health_check", "">>
  IN  Enable(Merge(c, "extensions", name, [endpoint |-> <<"0.0.0.0", 13133>>]), name)

\* Mutation: it is looked for among the exporters of the pipeline it leads to.
BreakLoopAtWrongEnd(c, cycle) ==
  LET u == cycle[1]
      into == DOMAIN c.connectors \cap ToSet(c.pipelines[cycle[1]].receivers)
  IN  Without(c, u, "exporters", into)

\* The connector that closes the cycle is taken out of its exporters.
BreakLoop(c, cycle) ==
  LET u == cycle[Len(cycle) - 1]
      into == DOMAIN c.connectors \cap ToSet(c.pipelines[cycle[1]].receivers)
  IN  Without(c, u, "exporters", into)

Advice(c, f) ==
  CASE f.rule \in {"missing-memory-limiter", "tail-sampling-without-memory-limiter"} ->
         {AddMemoryLimiter(c, f.name)}
    [] f.rule = "missing-batch" -> {AddBatch(c, f.name)}
    [] f.rule = "no-trace-sampling" -> {AddSampler(c, f.name)}
    [] f.rule = "unused-components" -> {RemoveUnused(c, f)}
    [] f.rule = "multiple-exporters-no-routing" -> {RouteExporters(c, f.name)}
    [] f.rule = "no-log-severity-filter" -> {AddSeverityFilter(c, f.name)}
    [] f.rule = "memory-limiter-not-first" -> {MoveMemoryLimiterFirst(c, f.name)}
    [] f.rule = "batch-before-sampling" -> {MoveBatchAfterSampling(c, f.name)}
    [] f.rule = "batch-not-near-end" -> {MoveBatchToEnd(c, f.name)}
    [] f.rule = "receiver-endpoint-wildcard" -> {BindReceiverLocally(c, f)}
    [] f.rule = "debug-exporter-in-pipeline" -> {Without(c, f.name, "exporters", {f.about})}
    [] f.rule = "debug-log-feedback-loop" -> StopFeedback(c, f.name)
    [] f.rule = "pprof-extension-enabled" ->
         {[c EXCEPT !.serviceExtensions = Only(@, ToSet(@) \ {f.name})]}
    [] f.rule = "memory-limiter-without-limits" -> {Processor(c, f, MemoryLimits)}
    [] f.rule = "filter-error-mode-propagate" -> {Processor(c, f, [error_mode |-> "ignore"])}
    [] f.rule = "undefined-component-ref" -> ResolveRef(c, f)
    [] f.rule = "empty-pipeline" -> {FillPipeline(c, f)}
    [] f.rule = "scrape-interval-mismatch" -> AlignIntervals(c, f.name)
    [] f.rule = "short-scrape-interval" -> {LengthenInterval(c, f)}
    [] f.rule = "no-health-check-extension" -> {AddHealthCheck(c)}
    [] f.rule = "no-health-check-trace-filter" -> {AddHealthFilter(c, f.name)}
    [] f.rule = "no-span-metrics-connector" ->
         {Merge(c, "connectors", <<"spanmetrics", "">>, NoSettings)}
    [] f.rule = "filesystem-scraper-no-exclusions" ->
         {Merge(c, "receivers", f.name,
            [scrapers_filesystem |-> {"exclude_mount_points", "exclude_fs_types"}])}
    [] f.rule = "extension-endpoint-exposed" ->
         {Extension(c, f, [endpoint |-> Localhost(ep)]) :
            ep \in {x \in Endpoints(c.extensions[f.name]) : IsWildcard(x)}}
    [] f.rule \in {"exporter-no-sending-queue", "sending-queue-too-small"} ->
         {Exporter(c, f, [sending_queue_enabled |-> TRUE, sending_queue_queue_size |-> 5000])}
    [] f.rule = "exporter-no-retry" -> {Exporter(c, f, [retry_on_failure_enabled |-> TRUE])}
    [] f.rule = "exporter-insecure-tls" -> {Exporter(c, f, [tls_insecure |-> FALSE])}
    [] f.rule = "exporter-endpoint-localhost" ->
         {Exporter(c, f, [endpoint |-> <<"backend", 4317>>])}
    [] f.rule = "exporter-no-compression" -> {Exporter(c, f, [compression |-> "gzip"])}
    [] f.rule = "exporter-timeout-too-low" -> {Exporter(c, f, [timeout |-> 30])}
    [] f.rule = "connector-loop" -> {BreakLoop(c, f.name[2])}
------------------------------------------------------------------------------
NoFinding == Finding("none", "none", <<>>)
Unreported == {}

AdviceInit ==
  /\ \E s \in Samples : cfg = s.cfg /\ threshold = s.rank
  /\ findings = Unreported
  /\ phase = "edited"
  /\ followed = NoFinding
  /\ SearchInit(<<>>)

\* Without connectors the rule connector-loop has nothing to search.
AnalyzeWithoutConnectors ==
  /\ phase = "edited"
  /\ DOMAIN cfg.connectors = {}
  /\ findings' = FilterBySeverity(AllRules(cfg), threshold)
  /\ phase' = "reported"
  /\ UNCHANGED <<cfg, threshold, followed, searchVars>>

AnalyzeBegin ==
  /\ phase = "edited"
  /\ DOMAIN cfg.connectors # {}
  /\ Begin(Feeds(cfg))
  /\ phase' = "searching"
  /\ UNCHANGED <<cfg, threshold, findings, followed>>

AnalyzeSearch ==
  /\ phase = "searching"
  /\ SearchStep
  /\ UNCHANGED <<cfg, threshold, findings, phase, followed>>

\* The finding names the walk round the cycle.
LoopFindings == {Finding("connector-loop", "all", <<"cycle", w>>) : w \in cycles}

AnalyzeEnd ==
  /\ phase = "searching"
  /\ Done
  /\ findings' = FilterBySeverity(AllRules(cfg) \cup LoopFindings, threshold)
  /\ phase' = "reported"
  /\ UNCHANGED <<cfg, threshold, followed, searchVars>>

Follow(f) ==
  /\ phase = "reported"
  /\ cfg' \in Advice(cfg, f)
  /\ phase' = "edited"
  /\ followed' = f
  /\ UNCHANGED <<threshold, findings, searchVars>>

AdviceNext ==
  \/ AnalyzeWithoutConnectors \/ AnalyzeBegin \/ AnalyzeSearch \/ AnalyzeEnd
  \/ \E f \in findings : Follow(f)

\* An analysis ends, and this user goes on until the report is empty; sooner
\* or later a missing component is defined, and not its name removed again.
DefineMissing ==
  /\ \E f \in findings : f.rule = "undefined-component-ref" /\ Follow(f)
  /\ cfg'.pipelines = cfg.pipelines

AdviceSpec ==
  /\ AdviceInit /\ [][AdviceNext]_adviceVars
  /\ WF_adviceVars(AdviceNext) /\ SF_adviceVars(DefineMissing)
------------------------------------------------------------------------------
\* Whether a configuration still has what a finding is about.
Persists(f, c) ==
  IF f.rule = "connector-loop"
  THEN \A i \in 1 .. Len(f.name[2]) - 1 : f.name[2][i + 1] \in Feeds(c)[f.name[2][i]]
  ELSE f \in AllRules(c)

Followed == phase = "reported" /\ phase' = "edited"

\* Where the snippet on an endpoint does not reach: settings below protocols
\* of receivers other than otlp and of extensions, the top one of otlp.
OutOfReach(section, name, settings) ==
  LET set == IF section = "receivers" /\ ComponentType(name) = "otlp"
             THEN {"grpc_endpoint", "http_endpoint"} ELSE {"endpoint"}
  IN  {settings[k] : k \in DOMAIN settings \cap (EndpointSettings \ set)}

\* Advice that cannot do away with its finding: a collection_interval that the
\* prometheus receiver does not read, or one interval of several; a log that
\* is excluded where the rule does not look; one batch processor of several
\* that is moved; an endpoint that the snippet does not set.
Unaddressed(f, c, d) ==
  \/ /\ f.rule = "scrape-interval-mismatch"
     /\ LET intervals == ReceiverIntervals(c, c.pipelines[f.name].receivers)
        IN  \/ Cardinality(intervals) > 2
            \/ \E ri \in intervals : ComponentType(ri[1]) = "prometheus"
  \/ f.rule = "debug-log-feedback-loop" /\ d.receivers # c.receivers
  \/ /\ f.rule \in {"batch-before-sampling", "batch-not-near-end"}
     /\ \E i, j \in DOMAIN Processors(c, f.name) :
          i # j /\ {ComponentType(Processors(c, f.name)[k]) : k \in {i, j}} = {"batch"}
  \/ /\ f.rule = "receiver-endpoint-wildcard"
     /\ f.about \in OutOfReach("receivers", f.name, c.receivers[f.name])
  \/ /\ f.rule = "extension-endpoint-exposed"
     /\ \E ep \in OutOfReach("extensions", f.name, c.extensions[f.name]) : IsWildcard(ep)

\* Whoever follows the advice of a finding is rid of it: the snippet writes
\* what the rule reads, and an edit for one rule is not one that the same rule
\* objects to (every Evaluate, its Snippet beside its condition).
AdviceWorks ==
  [][Followed /\ ~Unaddressed(followed', cfg, cfg') => ~Persists(followed', cfg')]_adviceVars

\* The rules whose critical findings the advice of a rule brings about.
Raises(rule) ==
  CASE rule = "multiple-exporters-no-routing" ->
         {"missing-memory-limiter", "undefined-component-ref", "debug-log-feedback-loop",
          "connector-loop"}
    [] rule \in {"debug-exporter-in-pipeline", "debug-log-feedback-loop", "connector-loop"} ->
         {"empty-pipeline"}
    [] rule = "empty-pipeline" -> {"undefined-component-ref", "connector-loop"}
    [] rule = "undefined-component-ref" ->
         {"missing-memory-limiter", "memory-limiter-without-limits", "memory-limiter-not-first",
          "batch-before-sampling", "empty-pipeline", "debug-log-feedback-loop", "connector-loop"}
    [] rule = "no-span-metrics-connector" -> {"connector-loop"}
    [] OTHER -> {}

HasLoop(c) == Promise!HasLoop(Feeds(c))

\* The rules that an edit from c to d gives a new critical finding.
Raised(c, d) ==
  {f.rule : f \in {g \in AllRules(d) \ AllRules(c) : g.rule \in CriticalRules}}
  \cup (IF HasLoop(d) /\ ~HasLoop(c) THEN {"connector-loop"} ELSE {})

\* Advice makes nothing critically wrong that was right, but for the cases of
\* Raises: a rule's snippet is written with no regard to what the other rules
\* ask for (multiple_exporters_no_routing.go:49-66 gives its pipelines no
\* memory limiter, empty_pipeline.go refers to a receiver otlp).
EscalationIsKnown ==
  [][Followed => Raised(cfg, cfg') \subseteq Raises(followed'.rule)]_adviceVars

\* A loop through otlp, the one name the advice on empty pipelines knows, once
\* that is a connector: emptied to break the loop, the pipeline is to export to
\* otlp again.
Circular(c) ==
  LET otlp == <<"otlp", "">>
  IN  /\ otlp \in DOMAIN c.connectors
      /\ \E u, v \in DOMAIN c.pipelines :
           otlp \in ToSet(c.pipelines[u].exporters) \cap ToSet(c.pipelines[v].receivers)
      /\ HasLoop(c)

\* Who has the analysis report what is critical only, and follows one finding
\* after the other, in any order, comes to where analyze exits without
\* findings: no two critical rules ask for opposite things, but for a user
\* who was told that otlp may be a connector (empty_pipeline.go:48,
\* undefined_component_ref.go:39, :73).
CriticalsGoAway ==
  threshold = 3 ~> \/ phase = "reported" /\ ~ExceedsThreshold(findings, 3)
                   \/ Circular(cfg)
==============================================================================
