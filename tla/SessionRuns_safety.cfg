SPECIFICATION Spec
CONSTANTS
  p1 = p1
  p2 = p2
  k1 = k1
  Prompts = {p1, p2}
  Controls = {k1}
  MaxAttempts = 1
  MaxCalls = 1
  MaxInputs = 2
SYMMETRY PromptSymmetry
INVARIANTS
  TypeOK
  NoLostWake
  IdleIsReleased
PROPERTIES
  InOrder
