SPECIFICATION Spec
CONSTANTS
  Threads = {t1}
  Sockets = {s1}
  NoJob = NoJob
  NoOne = NoOne
CHECK_DEADLOCK FALSE
INVARIANT
  HandlersFindTheirMembers
