SPECIFICATION FairSpec
CONSTANTS
  Keys = {k1, k2}
  Values = {v1}
  Absent = Absent
  Workers = {w1, w2}
  MaxAof = 3
  MaxCrashes = 2
INVARIANTS
  TypeOK
  DiskMatchesMemory
PROPERTIES
  CoveredKeysSurvive
  SnapshotIsPointInTime
  RecoveryCompletes
  SnapshotCompletes
