SPECIFICATION Spec
CONSTANTS
  doc1 = doc1
  doc2 = doc2
  i1 = i1
  i2 = i2
  Names = {doc1, doc2}
  Sources <- OneSource
  Contents = {c1, c2}
  Artifacts = {a1, a2}
  Ids = {i1, i2}
  Absent = Absent
  TornRemoval = TRUE
  MaxOps = 2
  MaxCrashes = 2
  MaxFailures = 0
INVARIANT RecoveryDistinguishes
CHECK_DEADLOCK FALSE
