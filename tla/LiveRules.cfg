CONSTANTS
  WindowSize = 5
  Unit = 8400
  Series <- MCSeries
  Signals <- MCSignals
  Intervals <- MCIntervals
  Setups <- MCSetups
  MaxScrapes = 5
SPECIFICATION Spec
INVARIANTS
  RatesAreNotInflated SilenceIsReported AlarmsAreReal
  DashboardShowsNoFalseDrop
CHECK_DEADLOCK FALSE
