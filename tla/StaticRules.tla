----------------------------- MODULE StaticRules -----------------------------
(***************************************************************************)
(* The rules of rules/static over a parsed configuration, as operators     *)
(* that return the findings of a rule.                                     *)
(*                                                                         *)
(* A component is named <<type, qualifier>> for "type/qualifier".  Its     *)
(* settings are a function from the paths the rules look at, with _ for    *)
(* the levels, to values; a path that is not there, or holds a value of    *)
(* the wrong type, is not in the domain, and a component without settings  *)
(* has none.  An endpoint is <<host, port>>, its scheme left out.          *)
(*                                                                         *)
(* A finding names the rule, the kind of thing in its Scope, which one,    *)
(* and what about it where a rule may report one thing several times.  Its *)
(* wording is left out; its Severity is a table.                           *)
(***************************************************************************)
EXTENDS Integers, FiniteSets, SequencesExt

ComponentType(name) == name[1]
ComponentQualifier(name) == name[2]

\* The signal of a pipeline is the first part of its name, or Parse fails.
Signals == {"traces", "metrics", "logs"}
PipelineOf(name, receivers, processors, exporters) ==
  [n \in {name} |-> [signal |-> ComponentType(name), receivers |-> receivers,
                     processors |-> processors, exporters |-> exporters]]

PipelineLists == {"receivers", "processors", "exporters"}

\* What is left of a list when only these names stay, in its order.
Only(list, names) ==
  LET stay == {i \in DOMAIN list : list[i] \in names}
  IN  [k \in 1 .. Cardinality(stay) |->
         list[CHOOSE i \in stay : Cardinality({j \in stay : j <= i}) = k]]

\* A setting, or what the rule takes for one that is not there.
Setting(s, path, default) == IF path \in DOMAIN s THEN s[path] ELSE default

\* Endpoints at the top of the settings and below protocols.
EndpointSettings == {"endpoint", "grpc_endpoint", "http_endpoint"}
Endpoints(s) == {s[k] : k \in DOMAIN s \cap EndpointSettings}
IsWildcard(ep) == ep[1] \in {"0.0.0.0", "[::]"}
IsLocalhost(ep) == ep[1] \in {"localhost", "127.0.0.1", "[::1]"}

Types(names) == {ComponentType(names[i]) : i \in DOMAIN names}
\* The first of the given types, 0 if there is none.
FirstOf(names, types) ==
  SelectInSeq(names, LAMBDA n : ComponentType(n) \in types)

Samplers == {"tail_sampling", "probabilistic_sampler"}
DebugTypes == {"debug", "logging"}
NetworkExporterTypes == {"otlp", "otlphttp"}

FindingAbout(rule, kind, name, about) ==
  [rule |-> rule, kind |-> kind, name |-> name, about |-> about]
Finding(rule, kind, name) == FindingAbout(rule, kind, name, <<>>)
\* One finding for each pipeline or component that is Bad.
InPipelines(rule, cfg, Bad(_)) ==
  {Finding(rule, "pipeline", n) :
     n \in {m \in DOMAIN cfg.pipelines : Bad(cfg.pipelines[m])}}
\* One for each of the things a pipeline or component is bad about.
AboutPipelines(rule, cfg, Bad(_)) ==
  UNION {{FindingAbout(rule, "pipeline", n, b) : b \in Bad(cfg.pipelines[n])} :
           n \in DOMAIN cfg.pipelines}
AboutReceivers(rule, cfg, Bad(_, _)) ==
  UNION {{FindingAbout(rule, "receiver", n, b) : b \in Bad(n, cfg.receivers[n])} :
           n \in DOMAIN cfg.receivers}
InComponents(rule, kind, components, Bad(_, _)) ==
  {Finding(rule, kind, n) : n \in {m \in DOMAIN components : Bad(m, components[m])}}
InExporters(rule, cfg, Bad(_, _)) ==
  InComponents(rule, "exporter", cfg.exporters, LAMBDA n, s :
    ComponentType(n) \in NetworkExporterTypes /\ Bad(n, s))
\* The exporter of the sampling tap itself is spared by two rules.
IsTapExporter(name) == ComponentQualifier(name) = "signal-studio"
------------------------------------------------------------------------------
(* Configurations *)

\* Intervals are in seconds.
PrometheusIntervals(s) == Setting(s, "scrape_intervals", {})
HostMetricsInterval(s) == Setting(s, "collection_interval", 0)

Components == {"receivers", "processors", "exporters", "connectors", "extensions"}
IsMap(f) == f = [k \in DOMAIN f |-> f[k]]

IsPipeline(p) ==
  /\ IsMap(p) /\ DOMAIN p = {"signal"} \cup PipelineLists
  /\ \A list \in PipelineLists : p[list] \in Seq(ToSet(p[list]))

\* What Parse returns: maps from names, whatever they are, and lists of names.
\* No interval is negative.
IsConfig(c) ==
  /\ IsMap(c) /\ DOMAIN c = Components \cup {"pipelines", "serviceExtensions"}
  /\ IsMap(c.pipelines)
  /\ \A n \in DOMAIN c.pipelines :
       IsPipeline(c.pipelines[n]) /\ c.pipelines[n].signal = ComponentType(n)
  /\ \A n \in DOMAIN c.receivers :
       /\ PrometheusIntervals(c.receivers[n]) \subseteq Nat
       /\ HostMetricsInterval(c.receivers[n]) \in Nat
  /\ c.serviceExtensions \in Seq(ToSet(c.serviceExtensions))
------------------------------------------------------------------------------
(* Pipelines *)

MissingMemoryLimiter(cfg) ==
  InPipelines("missing-memory-limiter", cfg, LAMBDA p :
    "memory_limiter" \notin Types(p.processors))

MissingBatch(cfg) ==
  InPipelines("missing-batch", cfg, LAMBDA p : "batch" \notin Types(p.processors))

NoTraceSampling(cfg) ==
  InPipelines("no-trace-sampling", cfg, LAMBDA p :
    p.signal = "traces" /\ Types(p.processors) \cap Samplers = {})

HasRoutingConnector(cfg, exporters) ==
  \E i \in DOMAIN exporters :
    ComponentType(exporters[i]) = "routing" /\ exporters[i] \in DOMAIN cfg.connectors

MultipleExportersNoRouting(cfg) ==
  InPipelines("multiple-exporters-no-routing", cfg, LAMBDA p :
    Len(p.exporters) >= 2 /\ ~HasRoutingConnector(cfg, p.exporters))

NoLogSeverityFilter(cfg) ==
  InPipelines("no-log-severity-filter", cfg, LAMBDA p :
    p.signal = "logs" /\ Types(p.processors) \cap {"filter", "transform"} = {})

MemoryLimiterNotFirst(cfg) ==
  InPipelines("memory-limiter-not-first", cfg, LAMBDA p :
    FirstOf(p.processors, {"memory_limiter"}) > 1)

BatchBeforeSampling(cfg) ==
  InPipelines("batch-before-sampling", cfg, LAMBDA p :
    LET batch == FirstOf(p.processors, {"batch"})
        sampler == FirstOf(p.processors, Samplers)
    IN  batch # 0 /\ sampler # 0 /\ batch < sampler)

\* The last two positions are fine.
BatchNotNearEnd(cfg) ==
  InPipelines("batch-not-near-end", cfg, LAMBDA p :
    LET batch == FirstOf(p.processors, {"batch"})
    IN  batch # 0 /\ batch < Len(p.processors) - 1)

DebugExporterInPipeline(cfg) ==
  AboutPipelines("debug-exporter-in-pipeline", cfg, LAMBDA p :
    {n \in ToSet(p.exporters) : ComponentType(n) \in DebugTypes})

DebugLogFeedbackLoop(cfg) ==
  InPipelines("debug-log-feedback-loop", cfg, LAMBDA p :
    /\ \E r \in DOMAIN cfg.receivers : ComponentType(r) \in {"filelog", "journald"}
    /\ p.signal = "logs"
    /\ Types(p.exporters) \cap DebugTypes # {})

EmptyPipeline(cfg) ==
  AboutPipelines("empty-pipeline", cfg, LAMBDA p :
    {<<list>> : list \in {l \in {"receivers", "exporters"} : p[l] = <<>>}})

TailSamplingWithoutMemoryLimiter(cfg) ==
  InPipelines("tail-sampling-without-memory-limiter", cfg, LAMBDA p :
    /\ p.signal = "traces"
    /\ "tail_sampling" \in Types(p.processors)
    /\ "memory_limiter" \notin Types(p.processors))

\* A condition on spans whose text contains one of the health check paths.
FilterDropsHealthSpans(s) == "health" \in Setting(s, "traces_span", {})

NoHealthCheckTraceFilter(cfg) ==
  InPipelines("no-health-check-trace-filter", cfg, LAMBDA p :
    /\ p.signal = "traces"
    /\ \A i \in DOMAIN p.processors :
         ~ /\ ComponentType(p.processors[i]) = "filter"
           /\ p.processors[i] \in DOMAIN cfg.processors
           /\ FilterDropsHealthSpans(cfg.processors[p.processors[i]]))

\* What each list of a pipeline refers to and nothing defines.
UndefinedRefs(cfg, p) ==
  LET Defined(list) ==
        DOMAIN cfg[list] \cup (IF list = "processors" THEN {} ELSE DOMAIN cfg.connectors)
  IN  UNION {{list} \X (ToSet(p[list]) \ Defined(list)) : list \in PipelineLists}

UndefinedComponentRef(cfg) ==
  AboutPipelines("undefined-component-ref", cfg, LAMBDA p : UndefinedRefs(cfg, p))

UnusedComponents(cfg) ==
  LET Used(list) == UNION {ToSet(cfg.pipelines[n][list]) : n \in DOMAIN cfg.pipelines}
      Unused(kind, list) ==
        {Finding("unused-components", kind, n) : n \in DOMAIN cfg[list] \ Used(list)}
  IN  Unused("receiver", "receivers") \cup Unused("processor", "processors")
        \cup Unused("exporter", "exporters")
------------------------------------------------------------------------------
(* Intervals *)

\* <<receiver, interval>> for each interval of the defined receivers.
ReceiverIntervals(cfg, receivers) ==
  LET defined == ToSet(receivers) \cap DOMAIN cfg.receivers
      Of(r) == CASE ComponentType(r) = "prometheus" -> PrometheusIntervals(cfg.receivers[r])
                 [] ComponentType(r) = "hostmetrics" ->
                      {HostMetricsInterval(cfg.receivers[r])} \ {0}
                 [] OTHER -> {}
  IN  UNION {{r} \X Of(r) : r \in defined}

ScrapeIntervalMismatch(cfg) ==
  InPipelines("scrape-interval-mismatch", cfg, LAMBDA p :
    /\ p.signal = "metrics"
    /\ Cardinality({ri[2] : ri \in ReceiverIntervals(cfg, p.receivers)}) >= 2)

ShortScrapeInterval(cfg) ==
  AboutReceivers("short-scrape-interval", cfg, LAMBDA n, s :
    {<<"interval", d>> : d \in {x \in
       CASE ComponentType(n) = "prometheus" -> PrometheusIntervals(s)
         [] ComponentType(n) = "hostmetrics" -> {Setting(s, "collection_interval", 60)}
         [] OTHER -> {} : x < 60}})
------------------------------------------------------------------------------
(* Receivers, processors and extensions *)

ReceiverEndpointWildcard(cfg) ==
  AboutReceivers("receiver-endpoint-wildcard", cfg, LAMBDA n, s :
    {ep \in Endpoints(s) : ep[1] = "0.0.0.0"})

FilesystemScraperNoExclusions(cfg) ==
  InComponents("filesystem-scraper-no-exclusions", "receiver", cfg.receivers, LAMBDA n, s :
    /\ ComponentType(n) = "hostmetrics"
    /\ "scrapers_filesystem" \in DOMAIN s
    /\ s["scrapers_filesystem"] \cap {"exclude_mount_points", "exclude_fs_types"} = {})

\* Mutation: only one of the two limits is known.
MemoryLimiterWithoutPercentage(cfg) ==
  InComponents("memory-limiter-without-limits", "processor", cfg.processors, LAMBDA n, s :
    /\ ComponentType(n) = "memory_limiter"
    /\ "limit_percentage" \notin DOMAIN s)

MemoryLimiterWithoutLimits(cfg) ==
  InComponents("memory-limiter-without-limits", "processor", cfg.processors, LAMBDA n, s :
    /\ ComponentType(n) = "memory_limiter"
    /\ DOMAIN s \cap {"limit_mib", "limit_percentage"} = {})

FilterErrorModePropagate(cfg) ==
  InComponents("filter-error-mode-propagate", "processor", cfg.processors, LAMBDA n, s :
    /\ ComponentType(n) \in {"filter", "transform"}
    /\ Setting(s, "error_mode", "propagate") = "propagate")

PprofExtensionEnabled(cfg) ==
  LET first == FirstOf(cfg.serviceExtensions, {"pprof"})
  IN  IF first = 0 THEN {}
      ELSE {Finding("pprof-extension-enabled", "extension", cfg.serviceExtensions[first])}

NoHealthCheckExtension(cfg) ==
  IF \/ \E n \in DOMAIN cfg.extensions : ComponentType(n) = "health_check"
     \/ "health_check" \in Types(cfg.serviceExtensions)
  THEN {} ELSE {Finding("no-health-check-extension", "all", <<>>)}

\* Only extensions that are enabled, and defined, expose anything.
ExtensionEndpointExposed(cfg) ==
  {Finding("extension-endpoint-exposed", "extension", n) :
     n \in {m \in ToSet(cfg.serviceExtensions) \cap DOMAIN cfg.extensions :
              /\ ComponentType(m) \in {"zpages", "pprof", "health_check"}
              /\ \E ep \in Endpoints(cfg.extensions[m]) : IsWildcard(ep)}}

NoSpanMetricsConnector(cfg) ==
  IF /\ \A n \in DOMAIN cfg.connectors : ComponentType(n) # "spanmetrics"
     /\ {"traces", "metrics"} \subseteq
          {cfg.pipelines[n].signal : n \in DOMAIN cfg.pipelines}
  THEN {Finding("no-span-metrics-connector", "all", <<>>)} ELSE {}
------------------------------------------------------------------------------
(* Exporters *)

ExporterNoSendingQueue(cfg) ==
  InExporters("exporter-no-sending-queue", cfg, LAMBDA n, s :
    ~Setting(s, "sending_queue_enabled", FALSE))

ExporterNoRetry(cfg) ==
  InExporters("exporter-no-retry", cfg, LAMBDA n, s :
    ~Setting(s, "retry_on_failure_enabled", FALSE))

ExporterInsecureTLS(cfg) ==
  InExporters("exporter-insecure-tls", cfg, LAMBDA n, s :
    ~IsTapExporter(n) /\ Setting(s, "tls_insecure", FALSE))

ExporterEndpointLocalhost(cfg) ==
  InExporters("exporter-endpoint-localhost", cfg, LAMBDA n, s :
    ~IsTapExporter(n) /\ "endpoint" \in DOMAIN s /\ IsLocalhost(s["endpoint"]))

\* Without the key the default, gzip, applies.
ExporterNoCompression(cfg) ==
  InExporters("exporter-no-compression", cfg, LAMBDA n, s :
    Setting(s, "compression", "gzip") \in {"none", ""})

\* Without the key the default of five seconds applies.
ExporterTimeoutTooLow(cfg) ==
  InExporters("exporter-timeout-too-low", cfg, LAMBDA n, s :
    /\ \A ep \in Endpoints(s) : ~IsLocalhost(ep)
    /\ Setting(s, "timeout", 0) < 10)

SendingQueueTooSmall(cfg) ==
  InExporters("sending-queue-too-small", cfg, LAMBDA n, s :
    /\ Setting(s, "sending_queue_enabled", FALSE)
    /\ Setting(s, "sending_queue_queue_size", -1) \in 1 .. 499)
------------------------------------------------------------------------------
\* For each pipeline those that receive from a connector it exports to.
Feeds(cfg) ==
  [u \in DOMAIN cfg.pipelines |->
     {v \in DOMAIN cfg.pipelines :
        ToSet(cfg.pipelines[u].exporters) \cap ToSet(cfg.pipelines[v].receivers)
          \cap DOMAIN cfg.connectors # {}}]

\* All rules but connector-loop, which takes a search (ConnectorLoop).
AllRules(cfg) ==
  UNION {MissingMemoryLimiter(cfg), MissingBatch(cfg), NoTraceSampling(cfg),
    UnusedComponents(cfg), MultipleExportersNoRouting(cfg), NoLogSeverityFilter(cfg),
    MemoryLimiterNotFirst(cfg), BatchBeforeSampling(cfg), BatchNotNearEnd(cfg),
    ReceiverEndpointWildcard(cfg), DebugExporterInPipeline(cfg), PprofExtensionEnabled(cfg),
    MemoryLimiterWithoutLimits(cfg), ExporterNoSendingQueue(cfg), ExporterNoRetry(cfg),
    UndefinedComponentRef(cfg), EmptyPipeline(cfg), FilterErrorModePropagate(cfg),
    ScrapeIntervalMismatch(cfg), ExporterInsecureTLS(cfg), NoHealthCheckExtension(cfg),
    ExporterEndpointLocalhost(cfg), ExporterNoCompression(cfg),
    TailSamplingWithoutMemoryLimiter(cfg), NoHealthCheckTraceFilter(cfg),
    FilesystemScraperNoExclusions(cfg), ShortScrapeInterval(cfg),
    ExporterTimeoutTooLow(cfg), SendingQueueTooSmall(cfg), NoSpanMetricsConnector(cfg),
    ExtensionEndpointExposed(cfg), DebugLogFeedbackLoop(cfg)}

CriticalRules ==
  {"missing-memory-limiter", "memory-limiter-not-first", "batch-before-sampling",
   "memory-limiter-without-limits", "undefined-component-ref", "empty-pipeline",
   "exporter-insecure-tls", "connector-loop", "debug-log-feedback-loop"}

WarningRules ==
  {"missing-batch", "no-trace-sampling", "receiver-endpoint-wildcard",
   "debug-exporter-in-pipeline", "exporter-no-sending-queue", "exporter-no-retry",
   "filter-error-mode-propagate", "scrape-interval-mismatch",
   "no-health-check-extension", "tail-sampling-without-memory-limiter",
   "extension-endpoint-exposed"}

SeverityRank(rule) ==
  IF rule \in CriticalRules THEN 3 ELSE IF rule \in WarningRules THEN 2 ELSE 1

\* What is left of the findings at a minimal severity.
FilterBySeverity(findings, rank) == {f \in findings : SeverityRank(f.rule) >= rank}

\* Whether the command analyze exits with an error.
ExceedsThreshold(findings, rank) == FilterBySeverity(findings, rank) # {}
==============================================================================
