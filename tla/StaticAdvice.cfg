CONSTANTS
  Pipeline <- MCPipeline
  NoPipeline <- MCNoPipeline
  Samples <- MCSamples
SPECIFICATION AdviceSpec
INVARIANTS
  SearchIsSound CleanIsOrdered
PROPERTIES
  AdviceWorks EscalationIsKnown CriticalsGoAway VerdictIsRight
CHECK_DEADLOCK FALSE
