SPECIFICATION FairSpec
CONSTANTS
  Keys <- MC_Keys
  Values = {v1, v2}
  Absent = Absent
  Workers = {t1, t2}
  Scanners = {t2}
  Addrs = {a1, a2, a3}
  Null = Null
  Free = Free
  NoResult = NoResult
  Capacity = 2
  Word <- MC_Word
INVARIANTS
  TypeOK
  NoDanglingPointer
  NodesAreChained
PROPERTIES
  ImplementsKVMap
  CallsReturn
