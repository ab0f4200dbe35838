SPECIFICATION FairSpec
CONSTANTS
  p1 = p1
  p2 = p2
  c1 = c1
  c2 = c2
  o1 = o1
  o2 = o2
  Panes = {p1, p2}
  Contents = {c1, c2}
  Proposals = {pr1}
  Operations = {o1, o2}
  None = None
  Goals = {"save", "edit"}
  MaxCommands = 2
  MaxTimeouts = 1
  MaxOthers = 0
PROPERTIES
  CommandEnds
  FenceAnswered
CHECK_DEADLOCK FALSE
