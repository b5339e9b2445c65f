SPECIFICATION Spec
CONSTANTS
  Timeouts = {0, 2}
  MaxGen = 1
INVARIANT TimeToLive
