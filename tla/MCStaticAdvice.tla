--------------------------- MODULE MCStaticAdvice ----------------------------
(***************************************************************************)
(* Configurations to start from: one with the typical mistakes of each     *)
(* signal, and one for every graph that connectors can lay over a few      *)
(* pipelines that are otherwise fine.                                      *)
(***************************************************************************)
EXTENDS StaticAdvice

Default(type) == <<type, "">>
None == NoSettings
Endpoint(host, port) == <<host, port>>

Empty ==
  [receivers |-> NoSettings, processors |-> NoSettings, exporters |-> NoSettings,
   connectors |-> NoSettings, extensions |-> NoSettings, pipelines |-> NoSettings,
   serviceExtensions |-> <<>>]

SafeQueue == [sending_queue_enabled |-> TRUE, retry_on_failure_enabled |-> TRUE, timeout |-> 30]

\* Traces: wrong order, no limits, tap exporter beside an insecure one.
Traces ==
  [Empty EXCEPT
     !.receivers = Default("otlp") :>
        [grpc_endpoint |-> Endpoint("0.0.0.0", 4317),
         http_endpoint |-> Endpoint("localhost", 4318)],
     !.processors = Default("batch") :> None @@ Default("tail_sampling") :> None
                    @@ Default("filter") :> None,
     !.exporters = <<"otlp", "backend">> :> [tls_insecure |-> TRUE,
                      endpoint |-> Endpoint("backend", 4317)],
     !.extensions = Default("pprof") :> [endpoint |-> Endpoint("[::]", 1777)],
     !.serviceExtensions = <<Default("pprof")>>,
     !.pipelines = PipelineOf(Default("traces"), <<Default("otlp")>>,
        <<Default("batch"), Default("tail_sampling")>>, <<<<"otlp", "backend">>>>)]

Metrics ==
  [Empty EXCEPT
     !.receivers = Default("hostmetrics") :> [collection_interval |-> 30, scrapers_filesystem |-> {}]
                   @@ <<"hostmetrics", "slow">> :> [collection_interval |-> 120],
     !.processors = Default("memory_limiter") :> None @@ Default("batch") :> None,
     !.exporters = Default("otlphttp") :> (SafeQueue @@ [compression |-> "none"]),
     !.extensions = Default("health_check") :> None,
     !.serviceExtensions = <<Default("health_check")>>,
     !.pipelines = PipelineOf(Default("metrics"),
        <<Default("hostmetrics"), <<"hostmetrics", "slow">>>>,
        <<Default("batch"), Default("memory_limiter")>>, <<Default("otlphttp")>>)]

\* Logs: the collector may read its own output back; unfinished pipelines.
Logs ==
  [Empty EXCEPT
     !.receivers = Default("filelog") :> None @@ Default("otlp") :> None
                   @@ Default("prometheus") :> [scrape_intervals |-> {15, 60}],
     !.exporters = Default("debug") :> None,
     !.pipelines =
        PipelineOf(Default("logs"), <<Default("filelog")>>,
          <<Default("memory_limiter"), Default("batch")>>, <<Default("debug")>>)
        @@ PipelineOf(Default("metrics"), <<Default("prometheus")>>, <<>>, <<>>)]

Routed ==
  [Empty EXCEPT
     !.receivers = Default("otlp") :> None,
     !.processors = Default("memory_limiter") :> [limit_percentage |-> 80],
     !.exporters = <<"otlp", "a">> :> SafeQueue @@ <<"otlp", "b">> :> SafeQueue,
     !.pipelines = PipelineOf(Default("metrics"), <<Default("otlp")>>,
        <<Default("memory_limiter")>>, <<<<"otlp", "a">>, <<"otlp", "b">>>>)]

\* What it receives it sends nowhere yet.
Unfinished ==
  [Empty EXCEPT
     !.receivers = Default("otlp") :> None,
     !.processors = Default("memory_limiter") :> MemoryLimits,
     !.pipelines = PipelineOf(Default("logs"), <<Default("otlp")>>,
        <<Default("memory_limiter")>>, <<>>)]

\* Pipelines that only a connector for each edge of a graph ties together.
Connector(e) == <<"forward", e>>
Connected(pipelines, edges) ==
  [Empty EXCEPT
     !.receivers = Default("otlp") :> None,
     !.processors = Default("memory_limiter") :> MemoryLimits,
     !.exporters = Default("otlp") :> SafeQueue,
     !.connectors = [n \in {Connector(e) : e \in edges} |-> None],
     !.pipelines = [p \in pipelines |->
        [signal |-> ComponentType(p),
         receivers |-> <<Default("otlp")>> \o SetToSeq({Connector(e) : e \in {x \in edges : x[2] = p}}),
         processors |-> <<Default("memory_limiter")>>,
         exporters |-> <<Default("otlp")>> \o SetToSeq({Connector(e) : e \in {x \in edges : x[1] = p}})]]]

Two == {Default("traces"), Default("metrics")}
Three == Two \cup {Default("logs")}
Pairs(S) == S \X S

MCSamples ==
  {[cfg |-> Traces, rank |-> 2], [cfg |-> Metrics, rank |-> 1],
   [cfg |-> Logs, rank |-> 2], [cfg |-> Routed, rank |-> 1],
   [cfg |-> Traces, rank |-> 3], [cfg |-> Logs, rank |-> 3],
   [cfg |-> Unfinished, rank |-> 3]}
  \cup {[cfg |-> Connected(Two, g), rank |-> 3] : g \in SUBSET Pairs(Two)}
  \cup {[cfg |-> Connected(Three, g), rank |-> 3] :
          g \in SUBSET {e \in Pairs(Three) : e[1] # e[2]}}

MCPipeline == Signals \X {"", "primary", "secondary"}
MCNoPipeline == Default("none")
==============================================================================
