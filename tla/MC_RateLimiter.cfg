SPECIFICATION Spec
CONSTANTS
  Callers = {acceptor}
  Ips = {i1, i2}
  MaxTokens = 1
  RefillRate = 1
  GlobalLimit = 2
  Second = 2
  MaxTime = 5
INVARIANTS
  TypeOK
  BucketLaw
  TwoWindowsPerSecond
