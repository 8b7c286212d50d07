SPECIFICATION FairSpec
CONSTANTS
  Threads = {t1, t2}
  Sockets = {s1}
  NoJob = NoJob
  NoOne = NoOne
CHECK_DEADLOCK FALSE
INVARIANTS
  TypeOK
  StorageOutlivesUsers
  NetworkOutlivesThreads
  NothingLeftToExpire
PROPERTIES
  StopEnds
  UsesPoolAsSpecified
