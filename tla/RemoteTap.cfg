SPECIFICATION FairSpec
CONSTANTS
  Callers = {c1, c2}
  Addrs = {a1}
  Runs = {r1, r2}
  NoAddr = NoAddr
  NoRun = NoRun
  MaxBuffered = 1
INVARIANTS OneConnection StatusIsTruthful
PROPERTIES CallsReturn CancelledGoesAway
