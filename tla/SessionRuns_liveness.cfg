SPECIFICATION FairSpec
CONSTANTS
  p1 = p1
  p2 = p2
  k1 = k1
  Prompts = {p1}
  Controls = {}
  MaxAttempts = 1
  MaxCalls = 2
  MaxInputs = 1
INVARIANTS
  NeverAgain
PROPERTIES
  SteerServed
  OrphanResolved
  StopSettles
