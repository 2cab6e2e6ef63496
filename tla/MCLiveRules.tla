----------------------------- MODULE MCLiveRules ------------------------------
(***************************************************************************)
(* A collector with a receiver that serves two transports and one          *)
(* exporter, and the kinds of intervals that the rules tell apart.         *)
(***************************************************************************)
EXTENDS LiveRules

S(metric, signal, owner) == [metric |-> metric, signal |-> signal, owner |-> owner]

Grpc == S("accepted", "traces", "otlp") @@ [part |-> "grpc"]
Http == S("accepted", "traces", "otlp") @@ [part |-> "http"]
Sent == S("sent", "traces", "backend")
Failed == S("failed", "traces", "backend")
Logs == S("accepted", "logs", "filelog")
LogsSent == S("sent", "logs", "backend")
QueueSize == S("queue_size", "", "backend")
QueueCapacity == S("queue_capacity", "", "backend")

MCSeries == <<Grpc, Http, Logs, Sent, LogsSent, Failed, QueueSize, QueueCapacity>>
MCSignals == {"traces", "logs"}

Nothing == [s \in ToSet(MCSeries) |-> IF s = QueueCapacity THEN 10 ELSE 0]
Interval(seconds, restart, before, after) ==
  [seconds |-> seconds, restart |-> restart, before |-> before @@ [s \in ToSet(MCSeries) |-> 0], after |-> after @@ Nothing]
None == [s \in {} |-> 0]

Healthy == Interval(10, FALSE, None, Grpc :> 200 @@ Sent :> 200)
OtherTransport == Interval(10, FALSE, None,
  Http :> 100 @@ Sent :> 100 @@ Logs :> 100 @@ LogsSent :> 100)
Losing == Interval(10, FALSE, None,
  Grpc :> 200 @@ Sent :> 80 @@ Failed :> 120 @@ QueueSize :> 9)
LogFlood == Interval(20, FALSE, None,
  Grpc :> 20 @@ Sent :> 20 @@ Logs :> 400 @@ LogsSent :> 400)
Idle == Interval(10, FALSE, None, None)
RestartAtEnd == Interval(10, TRUE, Grpc :> 200 @@ Sent :> 200, QueueCapacity :> 0)
RestartAtStart == Interval(10, TRUE, None, Grpc :> 250 @@ Sent :> 250)

\* The sampler only spares the traces one rule.
MCSetups == {<<TRUE, FALSE>>, <<FALSE, FALSE>>, <<TRUE, TRUE>>}

MCIntervals ==
  {Healthy, OtherTransport, Losing, LogFlood, Idle, RestartAtEnd, RestartAtStart}
==============================================================================
