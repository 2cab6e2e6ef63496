SPECIFICATION Spec
CONSTANTS
  MaxFetches = 3
  Sessions <- MCSessions
  NoFetch = NoFetch
  NoSnapshot = NoSnapshot
  MaxCalls = 5
  Editors <- MCEditors
  Nothing = Nothing
INVARIANT PageIsTruthful
PROPERTIES PolledAgrees RememberedIsRestored LiveEditorIsAnalysed
CHECK_DEADLOCK FALSE
