SPECIFICATION Spec
CONSTANTS
  n1 = n1
  n2 = n2
  k = k
  v1 = v1
  v2 = v2
  v3 = v3
  pat = pat
  bad = bad
  Names = {n1, n2}
  Keys = {k}
  Values = {v1, v2, v3}
  Patterns = {pat, bad}
  Fits <- TheFits
  Finds <- TheFinds
  MaxSamples = 2
  NoValue = NoValue
  NoText = NoText
  NoPoint = NoPoint
  Points <- ThePoints
  Configs <- TheConfigs
  Alerts <- TheAlerts
INVARIANTS SafeMeansNotDropped AlarmIsReal UnknownHasReason
