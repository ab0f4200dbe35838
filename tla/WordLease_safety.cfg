SPECIFICATION Spec
CONSTANTS
  p1 = p1
  p2 = p2
  c1 = c1
  c2 = c2
  o1 = o1
  o2 = o2
  Panes = {p1, p2}
  Contents = {c1, c2}
  Proposals = {pr1, pr2}
  Operations = {o1, o2}
  None = None
  MaxGenerations = 3
  MaxSequence = 3
  MaxVersions = 4
SYMMETRY Symmetric
INVARIANTS
  TypeOK
  GenerationsContiguous
PROPERTIES
  FenceKept
  OutcomeFinal
