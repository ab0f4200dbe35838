SPECIFICATION Spec
CONSTANTS
  p1 = p1
  p2 = p2
  c1 = c1
  c2 = c2
  o1 = o1
  o2 = o2
  Panes = {p1, p2}
  Contents = {c1, c2}
  Proposals = {pr1}
  Operations = {o1, o2}
  None = None
  Goals = {"start", "save", "edit"}
  MaxCommands = 3
  MaxTimeouts = 2
  MaxOthers = 1
SYMMETRY Symmetric
INVARIANTS
  TypeOK
  EditsFenced
  AppliedOnce
  SavedIsSaved
CHECK_DEADLOCK FALSE
