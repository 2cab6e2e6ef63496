SPECIFICATION FairSpec
CONSTANTS
  c1 = c1  e1 = e1
  Callers = {c1, c2}
  Endpoints = {e1, e2}
  Setups <- MCSetups
  Loops = {l1, l2}
  WindowSize = 2
  NoScraper = NoScraper
  NoLoop = NoLoop
INVARIANTS TypeOK ConnectionIsOwned SingleActiveLoop ActiveLoopHasScraper LateDataIsAnnounced
PROPERTIES ErrorsAreRecovered OrphanLoopExits
CHECK_DEADLOCK FALSE
