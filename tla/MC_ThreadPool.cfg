SPECIFICATION FairSpec
CONSTANTS
  Threads = {t1, t2, t3}
  Jobs = {j1, j2, j3}
  NoJob = NoJob
  NoOne = NoOne
CHECK_DEADLOCK FALSE
INVARIANTS
  TypeOK
  JobsRunOnce
  NoPopFromEmpty
  DrainedBeforeJoin
PROPERTIES
  JobsRun
