SPECIFICATION Spec
CONSTANTS
  Keys = {k1}
  Values = {v1}
  Absent = Absent
  Workers = {w1}
  MaxAof = 2
  MaxCrashes = 1
PROPERTY
  LoggedWritesSurvive
