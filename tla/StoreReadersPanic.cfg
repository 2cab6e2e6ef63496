SPECIFICATION Spec
CONSTANTS
  Requests = {r1}
  WindowSize = 4
  MaxPushes = 6
  Rates = 2
INVARIANT InsufficientDataIsHandled
