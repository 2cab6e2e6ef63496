SPECIFICATION FairSpec
CONSTANTS
  Exporters = {x1, x2}
  p1 = p1
  Pruners = {p1}
  Workloads <- MCWorkloads
  SignalOf <- MCSignalOf
  n1 = n1
  s1 = s1
  l1 = l1
  a1 = a1
  a2 = a2
  v1 = v1
  v2 = v2
  v3 = v3
  Names = {n1, s1, l1}
  Attrs = {a1, a2}
  Values = {v1, v2, v3}
  NoTime = NoTime
  NoWindow = NoWindow
  MaxSamples = 2
  TTL = 1
  WindowDur = 2
  MaxDelay = 1
INVARIANTS SamplesAreFaithful EntriesAccountForItems ResetForgets RateCheckIsSound
PROPERTIES StaleGoesAway PruneSparesRecent
CHECK_DEADLOCK FALSE
