SPECIFICATION FairSpec
CONSTANTS
  p1 = p1
  p2 = p2
  p3 = p3
  a1 = a1
  s1 = s1
  a2 = a2
  a3 = a3
  Processes = {p1, p2, p3}
  Tasks = {a1, s1, a2, a3}
  Host <- HostOf
  Synchronous = {s1}
  Breakers <- OneBreaker
  Slow = {a2}
  None = None
INVARIANTS
  TypeOK
  MutualExclusion
  HolderKeepsDirectory
  NoSelfWait
PROPERTIES
  EveryCallEnds
  AbandonedIsTaken
CHECK_DEADLOCK FALSE
