-------------------------- MODULE PersistenceProofs --------------------------
(***************************************************************************)
(* Proofs about Persistence, for any keys, values, workers and bounds: its *)
(* types, that the files cover memory at every moment                      *)
(* (DiskMatchesMemory), that a load restores what the files covered        *)
(* (CoveredKeysSurvive) and that a snapshot is a point-in-time copy        *)
(* (SnapshotIsPointInTime). All four follow from the inductive invariant   *)
(* IInv.                                                                   *)
(***************************************************************************)
EXTENDS Persistence, TLAPS

(* Before the event loop starts no worker and no snapshot is under way. *)
IdleWhileLoading ==
    phase # "up" => snap = "idle" /\ \A w \in Workers : pc[w] = "idle"

(* A write that is not logged yet and did not overlap another is the only   *)
(* unlogged one of its key, and its value is the one in the map.            *)
UnloggedWriteInMap ==
    \A w \in Workers :
        pc[w] = "applied" /\ line[w].key \notin raced =>
            /\ hashMap[line[w].key] = line[w].value
            /\ ~PendingOther(w, line[w].key)

(* The latest line of a key whose writes are all logged, and in the order   *)
(* of the map, holds the key's value.                                       *)
LatestLineInMap ==
    phase = "up" =>
        \A k \in Keys : \A i \in DOMAIN aof :
            ~Pending(k) /\ k \notin raced /\ IsLatest(k, i) => aof[i].value = hashMap[k]

(* How far snapshot.log agrees with the map in each stage of createSnapshot. *)
DumpInMap ==
    phase = "up" =>
        \A k \in Keys :
            /\ snap = "idle" /\ Clean(k) /\ ~InLog(k) => rdb[k] = hashMap[k]
            /\ snap = "opened" => rdb[k] = Absent
            /\ snap = "dumping" /\ rdb[k] # Absent => rdb[k] = hashMap[k]
            /\ snap = "dumped" /\ k \notin sinceDump => rdb[k] = hashMap[k]
            /\ snap = "dumped" /\ k \in sinceDump => Pending(k) \/ InLog(k)

(* A key with a line in the log has a latest one. *)
LogHasLatest ==
    \A k \in Keys : InLog(k) => \E i \in DOMAIN aof : IsLatest(k, i)

(* What the loader has put into the map so far. *)
LoaderProgress ==
    /\ phase = "loadRdb" =>
         /\ replayed = 0
         /\ \A k \in Keys : hashMap[k] = IF k \in unread THEN Absent ELSE rdb[k]
    /\ phase = "loadAof" =>
         /\ replayed <= Len(aof)
         /\ \A k \in Keys :
              /\ (\A i \in 1 .. replayed : aof[i].key # k) => hashMap[k] = rdb[k]
              /\ \A i \in 1 .. replayed :
                   aof[i].key = k /\ (\A j \in 1 .. replayed : j > i => aof[j].key # k)
                   => hashMap[k] = aof[i].value

(* Until the load is over the files still give the last process's memory    *)
(* back, but for the keys that were not covered when it died.               *)
FilesHoldLastRun ==
    phase # "up" =>
        \A k \in Keys \ (lastRun.pending \union lastRun.raced \union
                         lastRun.lost \union lastRun.undumped) :
            Recovered(k) = lastRun.mem[k]

IInv ==
    /\ TypeOK
    /\ IdleWhileLoading
    /\ UnloggedWriteInMap
    /\ LatestLineInMap
    /\ DumpInMap
    /\ LogHasLatest
    /\ LoaderProgress
    /\ FilesHoldLastRun

-----------------------------------------------------------------------------

(* Every line carries the value a load gives its key: an INSERT a value of  *)
(* the client's, a DELETE the empty one (appendToLog's three arguments).    *)
LEMMA LineFields ==
    ASSUME NEW l \in Lines
    PROVE  /\ l.key \in Keys
           /\ l.value \in Values \union {Absent}
           /\ l.command \in {"INSERT", "DELETE"}
           /\ l.command # "INSERT" => l.value = Absent
BY DEF Lines

(* A write names a client's key, and what it logs is a line. *)
LEMMA WriteIsLine ==
    ASSUME NEW w \in Workers, NEW k \in Keys
    PROVE  /\ \A v \in Values : Insert(w, k, v) => \E l \in Lines : Apply(w, l)
           /\ Delete(w, k) => \E l \in Lines : Apply(w, l)
<1>1. [command |-> "DELETE", key |-> k, value |-> Absent] \in Lines
  BY DEF Lines
<1>2. \A v \in Values : [command |-> "INSERT", key |-> k, value |-> v] \in Lines
  BY DEF Lines
<1> QED
  BY <1>1, <1>2 DEF Insert, Delete

(* No step of any thread takes a variable out of its type. *)
LEMMA TypeStep == TypeOK /\ [Next]_vars => TypeOK'
<1> SUFFICES ASSUME TypeOK, [Next]_vars
             PROVE  TypeOK'
  OBVIOUS
<1> USE DEF TypeOK, Maps
<1>1. ASSUME NEW k \in Keys, LoadRdbLine(k)
      PROVE  TypeOK'
  BY <1>1 DEF LoadRdbLine, workerVars, historyVars
<1>2. CASE LoadRdbDone
  BY <1>2 DEF LoadRdbDone, loadVars, workerVars, historyVars
<1>3. CASE LoadAofLine
  <2>1. aof[replayed + 1] \in Lines
    BY <1>3 DEF LoadAofLine, Replayed
  <2>2. hashMap' \in Maps
    BY <1>3, <2>1, LineFields DEF LoadAofLine, Replayed
  <2> QED
    BY <1>3, <2>2 DEF LoadAofLine, Replayed, workerVars, historyVars
<1>4. CASE LoadDone
  BY <1>4, ConstantsAssumption DEF LoadDone, AllRead, workerVars, Runs, NoRun, EmptyMap
<1>5. ASSUME NEW w \in Workers, NEW l \in Lines, Apply(w, l)
      PROVE  TypeOK'
  <2>1. l.key \in Keys /\ l.value \in Values \union {Absent}
    BY LineFields
  <2>2. /\ hashMap' \in Maps
        /\ sinceDump' \in SUBSET Keys
        /\ lost' \in SUBSET Keys
        /\ raced' \in SUBSET Keys
    BY <1>5, <2>1 DEF Apply, CanWrite
  <2>3. /\ pc' \in [Workers -> {"idle", "applied", "logged"}]
        /\ line' \in [Workers -> Lines \union {NoLine}]
        /\ \A x \in Workers : pc'[x] = "applied" => line'[x] \in Lines
    BY <1>5 DEF Apply, CanWrite
  <2> QED
    BY <1>5, <2>2, <2>3 DEF Apply, CanWrite, loadVars
<1>6. ASSUME NEW w \in Workers, AppendToLog(w)
      PROVE  TypeOK'
  BY <1>6 DEF AppendToLog, Appended, loadVars, historyVars
<1>7. ASSUME NEW w \in Workers, Reply(w)
      PROVE  TypeOK'
  BY <1>7 DEF Reply, AfterReply, loadVars, historyVars
<1>8. CASE OpenRdb
  BY <1>8 DEF OpenRdb, EmptyMap, loadVars, workerVars, historyVars
<1>9. CASE ForEachBegin
  BY <1>9 DEF ForEachBegin, loadVars, workerVars, historyVars
<1>10. ASSUME NEW k \in Keys, ForEachLine(k)
       PROVE  TypeOK'
  BY <1>10 DEF ForEachLine, loadVars, workerVars, historyVars
<1>11. CASE ForEachEnd
  BY <1>11 DEF ForEachEnd, Dumped, loadVars, workerVars
<1>12. CASE ResetAof
  BY <1>12 DEF ResetAof, loadVars, workerVars
<1>13. CASE Crash
  <2>1. lastRun' \in Runs
    BY <1>13 DEF Crash, Runs
  <2> QED
    BY <1>13, <2>1, ConstantsAssumption DEF Crash, EmptyMap
<1>14. CASE UNCHANGED vars
  BY <1>14 DEF vars
<1> HIDE DEF TypeOK
<1> QED
  BY <1>1, <1>2, <1>3, <1>4, <1>5, <1>6, <1>7, <1>8, <1>9, <1>10, <1>11, <1>12, <1>13,
     <1>14, WriteIsLine DEF Next, Load, Work, Dump

(* Each variable of the storage path keeps its type, whatever the threads do. *)
THEOREM TypeCorrect == Spec => []TypeOK
<1>1. Init => TypeOK
  BY ConstantsAssumption DEF Init, TypeOK, Maps, EmptyMap, Runs, NoRun
<1> QED
  BY <1>1, TypeStep, PTL DEF Spec

-----------------------------------------------------------------------------

(* With a latest line for every logged key, Recovered chooses that line. *)
LEMMA RecoveredIsLatest ==
    ASSUME LogHasLatest, NEW k \in Keys, InLog(k)
    PROVE  \E i \in DOMAIN aof : IsLatest(k, i) /\ Recovered(k) = aof[i].value
<1> DEFINE c == CHOOSE i \in DOMAIN aof : IsLatest(k, i)
<1>1. c \in DOMAIN aof /\ IsLatest(k, c)
  BY DEF LogHasLatest
<1> QED
  BY <1>1 DEF Recovered

(* What a load gives back depends on the two files only. *)
LEMMA RecoveredFromFiles ==
    ASSUME UNCHANGED <<aof, rdb>>
    PROVE  \A k \in Keys : /\ InLog(k)' <=> InLog(k)
                           /\ \A i \in DOMAIN aof : IsLatest(k, i)' <=> IsLatest(k, i)
                           /\ Recovered(k)' = Recovered(k)
<1> SUFFICES ASSUME NEW k \in Keys
             PROVE  /\ InLog(k)' <=> InLog(k)
                    /\ \A i \in DOMAIN aof : IsLatest(k, i)' <=> IsLatest(k, i)
                    /\ Recovered(k)' = Recovered(k)
  OBVIOUS
<1> QED
  BY DEF InLog, IsLatest, Recovered

(* The inductive invariant says enough of every stage of a snapshot. *)
LEMMA CoveredIsRecovered == IInv => DiskMatchesMemory
<1> SUFFICES ASSUME IInv, phase = "up", NEW k \in Keys, Covered(k)
             PROVE  Recovered(k) = hashMap[k]
  BY DEF DiskMatchesMemory
<1>1. CASE InLog(k)
  <2>1. PICK i \in DOMAIN aof : IsLatest(k, i) /\ Recovered(k) = aof[i].value
    BY <1>1, RecoveredIsLatest DEF IInv
  <2> QED
    BY <2>1 DEF IInv, LatestLineInMap, Covered, Clean
<1>2. CASE ~InLog(k)
  <2>1. rdb[k] = hashMap[k]
    BY <1>2 DEF IInv, DumpInMap, Covered, Undumped, Clean, TypeOK
  <2> QED
    BY <1>2, <2>1 DEF Recovered
<1> QED
  BY <1>1, <1>2

(* At the end of a load the map is what the files give back. *)
LEMMA LoadedIsRecovered ==
    ASSUME IInv, phase = "loadAof", replayed = Len(aof), NEW k \in Keys
    PROVE  hashMap[k] = Recovered(k)
<1>1. DOMAIN aof = 1 .. replayed
  BY DEF IInv, TypeOK
<1>2. CASE InLog(k)
  <2>1. PICK i \in DOMAIN aof : IsLatest(k, i) /\ Recovered(k) = aof[i].value
    BY <1>2, RecoveredIsLatest DEF IInv
  <2> QED
    BY <1>1, <2>1 DEF IInv, LoaderProgress, IsLatest
<1>3. CASE ~InLog(k)
  BY <1>1, <1>3 DEF IInv, LoaderProgress, InLog, Recovered
<1> QED
  BY <1>2, <1>3

(* The invariant holds of a process that starts on empty files. *)
LEMMA IInvInit == Init => IInv
<1> SUFFICES ASSUME Init
             PROVE  IInv
  OBVIOUS
<1>1. TypeOK
  BY ConstantsAssumption DEF Init, TypeOK, Maps, EmptyMap, Runs, NoRun
<1>2. \A k \in Keys : ~InLog(k)
  BY DEF Init, InLog
<1>3. FilesHoldLastRun
  BY <1>2 DEF Init, FilesHoldLastRun, Recovered, NoRun
<1> QED
  BY <1>1, <1>2, <1>3
  DEF Init, IInv, IdleWhileLoading, UnloggedWriteInMap, LatestLineInMap, DumpInMap,
      LogHasLatest, LoaderProgress, EmptyMap

(* While the files load, nothing but the map and the loader moves. *)
LEMMA IInvLoad == IInv /\ Load => IInv'
<1> SUFFICES ASSUME IInv, Load
             PROVE  IInv'
  OBVIOUS
<1> USE DEF IInv
<1>1. TypeOK'
  BY TypeStep DEF Next
<1>2. UNCHANGED <<aof, rdb, snap, pc, line, raced, lost, sinceDump>> /\ phase # "up"
  BY DEF Load, LoadRdbLine, LoadRdbDone, LoadAofLine, Replayed, LoadDone, AllRead,
         workerVars, historyVars
<1>3. LogHasLatest'
  BY <1>2 DEF LogHasLatest, InLog, IsLatest
<1>4. \A w \in Workers : pc[w] # "applied"
  BY <1>2 DEF IdleWhileLoading
<1>5. UnloggedWriteInMap'
  BY <1>2, <1>4 DEF UnloggedWriteInMap
<1>6. ASSUME NEW k \in Keys, LoadRdbLine(k)
      PROVE  IInv'
  <2>1. LoaderProgress'
    BY <1>6 DEF LoadRdbLine, LoaderProgress, TypeOK, Maps
  <2>2. FilesHoldLastRun'
    BY <1>2, <1>6, RecoveredFromFiles DEF LoadRdbLine, FilesHoldLastRun, historyVars
  <2> QED
    BY <1>1, <1>2, <1>3, <1>5, <1>6, <2>1, <2>2
    DEF LoadRdbLine, IdleWhileLoading, LatestLineInMap, DumpInMap
<1>7. CASE LoadRdbDone
  <2>1. LoaderProgress'
    BY <1>7 DEF LoadRdbDone, LoaderProgress, TypeOK, Maps, loadVars
  <2>2. FilesHoldLastRun'
    BY <1>2, <1>7, RecoveredFromFiles DEF LoadRdbDone, FilesHoldLastRun, historyVars
  <2> QED
    BY <1>1, <1>2, <1>3, <1>5, <1>7, <2>1, <2>2
    DEF LoadRdbDone, IdleWhileLoading, LatestLineInMap, DumpInMap
<1>8. CASE LoadAofLine
  <2> DEFINE l == aof[replayed + 1]
  <2>1. l \in Lines
    BY <1>8 DEF LoadAofLine, Replayed, TypeOK
  <2>2. hashMap' = [hashMap EXCEPT ![l.key] = l.value]
    BY <1>8, <2>1, LineFields DEF LoadAofLine, Replayed
  <2>3. LoaderProgress'
    <3>1. phase' = "loadAof" /\ replayed' = replayed + 1 /\ replayed' <= Len(aof')
      BY <1>8 DEF LoadAofLine, Replayed, TypeOK
    <3>2. \A k \in Keys : (\A i \in 1 .. replayed' : aof[i].key # k) => hashMap'[k] = rdb[k]
      BY <1>8, <2>1, <2>2, <3>1, LineFields DEF LoadAofLine, Replayed, LoaderProgress, TypeOK, Maps
    <3>3. ASSUME NEW k \in Keys, NEW i \in 1 .. replayed', aof[i].key = k,
                 \A j \in 1 .. replayed' : j > i => aof[j].key # k
          PROVE  hashMap'[k] = aof[i].value
      <4>1. CASE i = replayed + 1
        BY <2>1, <2>2, <3>3, <4>1 DEF TypeOK, Maps
      <4>2. CASE i # replayed + 1
        <5>1. i \in 1 .. replayed /\ replayed + 1 > i
          BY <3>1, <4>2 DEF TypeOK
        <5>2. l.key # k
          BY <3>1, <3>3, <5>1 DEF TypeOK
        <5>3. hashMap'[k] = hashMap[k]
          BY <2>1, <2>2, <5>2 DEF TypeOK, Maps
        <5> QED
          BY <1>8, <3>1, <3>3, <5>1, <5>3 DEF LoadAofLine, Replayed, LoaderProgress, TypeOK
      <4> QED
        BY <4>1, <4>2
    <3> QED
      BY <1>2, <3>1, <3>2, <3>3 DEF LoaderProgress
  <2>4. FilesHoldLastRun'
    BY <1>2, <1>8, RecoveredFromFiles DEF LoadAofLine, Replayed, FilesHoldLastRun, historyVars
  <2> QED
    BY <1>1, <1>2, <1>3, <1>5, <1>8, <2>3, <2>4
    DEF LoadAofLine, Replayed, IdleWhileLoading, LatestLineInMap, DumpInMap
<1>9. CASE LoadDone
  <2>1. phase = "loadAof" /\ replayed = Len(aof) /\ phase' = "up" /\ UNCHANGED hashMap
    BY <1>9 DEF LoadDone, AllRead
  <2>2. \A k \in Keys : hashMap[k] = Recovered(k)
    BY <2>1, LoadedIsRecovered
  <2>3. LatestLineInMap'
    <3>1. DOMAIN aof = 1 .. replayed
      BY <2>1 DEF TypeOK
    <3> QED
      BY <1>2, <2>1, <3>1 DEF LatestLineInMap, LoaderProgress, IsLatest
  <2>4. DumpInMap'
    BY <1>2, <2>1, <2>2 DEF DumpInMap, IdleWhileLoading, InLog, Recovered
  <2> QED
    BY <1>1, <1>2, <1>3, <1>5, <2>1, <2>3, <2>4
    DEF IdleWhileLoading, LoaderProgress, FilesHoldLastRun
<1> HIDE DEF IInv
<1> QED
  BY <1>6, <1>7, <1>8, <1>9 DEF Load

(* A worker's steps: the write in the map, its line, the answer. *)
LEMMA IInvApply ==
    ASSUME IInv, TypeOK', NEW w \in Workers, NEW l \in Lines, Apply(w, l)
    PROVE  IInv'
<1> DEFINE k0 == l.key
<1> USE DEF IInv
<1>1. k0 \in Keys /\ l.value \in Values \union {Absent}
  BY LineFields
<1>2. /\ hashMap' = [hashMap EXCEPT ![k0] = l.value]
      /\ pc' = [pc EXCEPT ![w] = "applied"]
      /\ line' = [line EXCEPT ![w] = l]
      /\ raced' = IF PendingOther(w, k0) THEN raced \union {k0} ELSE raced \ {k0}
      /\ phase = "up" /\ pc[w] = "idle" /\ snap # "dumping"
      /\ UNCHANGED <<aof, rdb, phase, snap>>
  BY DEF Apply, CanWrite
<1>3. Pending(k0)'
  BY <1>2 DEF Pending, TypeOK
<1>4. \A k \in Keys \ {k0} : /\ Pending(k)' <=> Pending(k)
                             /\ hashMap'[k] = hashMap[k]
                             /\ k \in raced' <=> k \in raced
                             /\ k \in lost' <=> k \in lost
                             /\ k \in sinceDump' <=> k \in sinceDump
  BY <1>1, <1>2 DEF Pending, TypeOK, Maps, Apply, CanWrite
<1>5. \A k \in Keys : /\ InLog(k)' <=> InLog(k)
                      /\ \A i \in DOMAIN aof : IsLatest(k, i)' <=> IsLatest(k, i)
  BY <1>2, RecoveredFromFiles
<1>6. UnloggedWriteInMap'
  <2> SUFFICES ASSUME NEW x \in Workers, pc'[x] = "applied", line'[x].key \notin raced'
               PROVE  /\ hashMap'[line'[x].key] = line'[x].value
                      /\ \A y \in Workers \ {x} :
                           pc'[y] = "applied" => line'[y].key # line'[x].key
    BY DEF UnloggedWriteInMap, PendingOther
  <2>1. CASE x = w
    <3>1. line'[x] = l
      BY <1>2, <2>1 DEF TypeOK
    <3>2. ~PendingOther(w, k0)
      BY <1>2, <3>1
    <3>3. hashMap'[k0] = l.value
      BY <1>1, <1>2 DEF TypeOK, Maps
    <3>4. \A y \in Workers \ {w} : pc'[y] = "applied" => line'[y].key # k0
      BY <1>2, <3>2 DEF PendingOther, TypeOK
    <3> QED
      BY <2>1, <3>1, <3>3, <3>4
  <2>2. CASE x # w
    <3>1. line'[x] = line[x] /\ pc[x] = "applied" /\ line[x] \in Lines
      BY <1>2, <2>2 DEF TypeOK
    <3>2. line[x].key \in Keys
      BY <3>1, LineFields
    <3>3. line[x].key # k0
      BY <1>2, <2>2, <3>1 DEF PendingOther
    <3>4. line[x].key \notin raced /\ hashMap'[line[x].key] = hashMap[line[x].key]
      BY <1>4, <3>1, <3>2, <3>3
    <3>5. hashMap[line[x].key] = line[x].value /\ ~PendingOther(x, line[x].key)
      BY <3>1, <3>4 DEF UnloggedWriteInMap
    <3>6. \A y \in Workers \ {x} : pc'[y] = "applied" => line'[y].key # line[x].key
      BY <1>2, <3>1, <3>3, <3>5 DEF PendingOther, TypeOK
    <3> QED
      BY <3>1, <3>4, <3>5, <3>6
  <2> QED
    BY <2>1, <2>2
<1>7. LatestLineInMap'
  BY <1>2, <1>3, <1>4, <1>5 DEF LatestLineInMap
<1>8. DumpInMap'
  <2> SUFFICES ASSUME NEW k \in Keys
               PROVE  /\ snap = "idle" /\ Clean(k)' /\ ~InLog(k)' => rdb[k] = hashMap'[k]
                      /\ snap = "opened" => rdb[k] = Absent
                      /\ snap = "dumped" /\ k \notin sinceDump' => rdb[k] = hashMap'[k]
                      /\ snap = "dumped" /\ k \in sinceDump' => Pending(k)' \/ InLog(k)'
    BY <1>2 DEF DumpInMap
  <2>1. CASE k = k0
    BY <1>2, <1>3, <2>1 DEF DumpInMap, Clean, Apply, CanWrite
  <2>2. CASE k # k0
    BY <1>2, <1>4, <1>5, <2>2 DEF DumpInMap, Clean
  <2> QED
    BY <2>1, <2>2
<1>9. LogHasLatest'
  BY <1>2, <1>5 DEF LogHasLatest
<1> QED
  BY <1>2, <1>6, <1>7, <1>8, <1>9 DEF IdleWhileLoading, LoaderProgress, FilesHoldLastRun

(* appendToLog makes the line the latest of its key, and the write logged. *)
LEMMA IInvAppend ==
    ASSUME IInv, TypeOK', NEW w \in Workers, AppendToLog(w)
    PROVE  IInv'
<1> USE DEF IInv
<1>0. PICK l \in Lines, k0 \in Keys, n \in Nat :
        l = line[w] /\ k0 = l.key /\ n = Len(aof)
  BY LineFields DEF AppendToLog, Appended, TypeOK
<1>1. /\ aof' = Append(aof, l) /\ pc[w] = "applied"
      /\ pc' = [pc EXCEPT ![w] = "logged"]
      /\ line' = [line EXCEPT ![w] = NoLine]
      /\ UNCHANGED <<hashMap, rdb, phase, snap, sinceDump, lost, raced>>
  BY <1>0 DEF AppendToLog, Appended, historyVars, TypeOK
<1>2. phase = "up"
  BY <1>1 DEF IdleWhileLoading
<1>3. /\ DOMAIN aof = 1 .. n /\ DOMAIN aof' = 1 .. n + 1
      /\ aof'[n + 1] = l
      /\ \A i \in 1 .. n : aof'[i] = aof[i]
  BY <1>0, <1>1 DEF TypeOK
<1>4. IsLatest(k0, n + 1)'
  BY <1>0, <1>3 DEF IsLatest
<1>5. \A k \in Keys : \A i \in 1 .. n : IsLatest(k, i)' <=> k # k0 /\ IsLatest(k, i)
  BY <1>0, <1>3 DEF IsLatest
<1>6. \A k \in Keys \ {k0} : /\ Pending(k)' <=> Pending(k)
                             /\ InLog(k)' <=> InLog(k)
  BY <1>0, <1>1, <1>3 DEF Pending, InLog, TypeOK
<1>7. InLog(k0)'
  BY <1>0, <1>3 DEF InLog
<1>8. UnloggedWriteInMap'
  BY <1>1 DEF UnloggedWriteInMap, PendingOther, TypeOK
<1>9. LatestLineInMap'
  <2> SUFFICES ASSUME NEW k \in Keys, NEW i \in 1 .. n + 1,
                      ~Pending(k)', k \notin raced, IsLatest(k, i)'
               PROVE  aof'[i].value = hashMap[k]
    BY <1>1, <1>3 DEF LatestLineInMap
  <2>1. CASE i = n + 1
    <3>1. k = k0
      BY <1>0, <1>3, <2>1 DEF IsLatest
    <3> QED
      BY <1>0, <1>1, <1>3, <2>1, <3>1 DEF UnloggedWriteInMap
  <2>2. CASE i # n + 1
    <3>1. i \in 1 .. n
      BY <1>3, <2>2
    <3> QED
      BY <1>2, <1>3, <1>5, <1>6, <3>1 DEF LatestLineInMap
  <2> QED
    BY <2>1, <2>2
<1>10. DumpInMap'
  BY <1>1, <1>6, <1>7 DEF DumpInMap, Clean
<1>11. LogHasLatest'
  <2> SUFFICES ASSUME NEW k \in Keys, InLog(k)'
               PROVE  \E i \in 1 .. n + 1 : IsLatest(k, i)'
    BY <1>0, <1>3 DEF LogHasLatest
  <2>1. CASE k = k0
    BY <1>3, <1>4, <2>1
  <2>2. CASE k # k0
    <3>1. PICK i \in 1 .. n : IsLatest(k, i)
      BY <1>3, <1>6, <2>2 DEF LogHasLatest
    <3> QED
      BY <1>3, <1>5, <2>2, <3>1
  <2> QED
    BY <2>1, <2>2
<1> QED
  BY <1>1, <1>2, <1>8, <1>9, <1>10, <1>11 DEF IdleWhileLoading, LoaderProgress, FilesHoldLastRun

(* The answer changes neither the map nor the files. *)
LEMMA IInvReply ==
    ASSUME IInv, TypeOK', NEW w \in Workers, Reply(w)
    PROVE  IInv'
<1> USE DEF IInv
<1>1. /\ UNCHANGED <<hashMap, aof, rdb, phase, line, snap, sinceDump, lost, raced>>
      /\ pc[w] = "logged" /\ pc' = [pc EXCEPT ![w] = "idle"]
  BY DEF Reply, AfterReply, historyVars
<1>2. phase = "up"
  BY <1>1 DEF IdleWhileLoading
<1>3. \A k \in Keys : Pending(k)' <=> Pending(k)
  BY <1>1 DEF Pending, TypeOK
<1>4. \A k \in Keys : /\ InLog(k)' <=> InLog(k)
                      /\ \A i \in DOMAIN aof : IsLatest(k, i)' <=> IsLatest(k, i)
  BY <1>1, RecoveredFromFiles
<1>5. UnloggedWriteInMap'
  BY <1>1 DEF UnloggedWriteInMap, PendingOther, TypeOK
<1>6. LatestLineInMap' /\ DumpInMap' /\ LogHasLatest'
  BY <1>1, <1>3, <1>4 DEF LatestLineInMap, DumpInMap, Clean, LogHasLatest
<1> QED
  BY <1>1, <1>2, <1>5, <1>6 DEF IdleWhileLoading, LoaderProgress, FilesHoldLastRun

(* The snapshot thread's steps. *)
LEMMA IInvSnapshot == IInv /\ TypeOK' /\ (OpenRdb \/ Dump) => IInv'
<1> SUFFICES ASSUME IInv, TypeOK', OpenRdb \/ Dump
             PROVE  IInv'
  OBVIOUS
<1> USE DEF IInv
<1>1. /\ phase = "up"
      /\ UNCHANGED <<hashMap, phase, pc, line>>
  BY DEF OpenRdb, Dump, ForEachBegin, ForEachLine, ForEachEnd, Dumped, ResetAof, workerVars,
         IdleWhileLoading
<1>2. \A k \in Keys : Pending(k)' <=> Pending(k)
  BY <1>1 DEF Pending
<1>3. IdleWhileLoading' /\ LoaderProgress' /\ FilesHoldLastRun'
  BY <1>1 DEF IdleWhileLoading, LoaderProgress, FilesHoldLastRun
<1>4. ASSUME UNCHANGED <<aof, raced>>
      PROVE  UnloggedWriteInMap' /\ LatestLineInMap' /\ LogHasLatest'
  <2>1. UnloggedWriteInMap'
    BY <1>1, <1>4 DEF UnloggedWriteInMap, PendingOther
  <2>2. LatestLineInMap' /\ LogHasLatest'
    BY <1>1, <1>2, <1>4 DEF LatestLineInMap, LogHasLatest, IsLatest, InLog
  <2> QED
    BY <2>1, <2>2
<1>5. CASE OpenRdb
  <2>1. DumpInMap'
    BY <1>5 DEF OpenRdb, DumpInMap, EmptyMap
  <2> QED
    BY <1>3, <1>4, <1>5, <2>1 DEF OpenRdb, historyVars
<1>6. CASE ForEachBegin
  <2>1. DumpInMap'
    BY <1>1, <1>6 DEF ForEachBegin, DumpInMap
  <2> QED
    BY <1>3, <1>4, <1>6, <2>1 DEF ForEachBegin, historyVars
<1>7. ASSUME NEW k \in Keys, ForEachLine(k)
      PROVE  IInv'
  <2>1. DumpInMap'
    BY <1>1, <1>7 DEF ForEachLine, DumpInMap, TypeOK, Maps
  <2> QED
    BY <1>3, <1>4, <1>7, <2>1 DEF ForEachLine, historyVars
<1>8. CASE ForEachEnd
  <2>1. DumpInMap'
    BY <1>1, <1>8 DEF ForEachEnd, Dumped, DumpInMap
  <2> QED
    BY <1>3, <1>4, <1>8, <2>1 DEF ForEachEnd, Dumped
<1>9. CASE ResetAof
  <2>1. /\ snap = "dumped" /\ aof' = <<>> /\ snap' = "idle"
        /\ lost' = {k \in sinceDump : ~Pending(k)}
        /\ raced' = {k \in raced : Pending(k)}
        /\ UNCHANGED rdb
    BY <1>9 DEF ResetAof
  <2>2. \A k \in Keys : ~InLog(k)'
    BY <2>1 DEF InLog
  <2>3. UnloggedWriteInMap'
    <3>1. ASSUME NEW w \in Workers, pc[w] = "applied", line[w].key \notin raced'
          PROVE  line[w].key \notin raced
      BY <2>1, <3>1 DEF Pending
    <3> QED
      BY <1>1, <3>1 DEF UnloggedWriteInMap, PendingOther
  <2>4. LatestLineInMap' /\ LogHasLatest'
    BY <2>1, <2>2 DEF LatestLineInMap, LogHasLatest
  <2>5. DumpInMap'
    BY <1>1, <1>2, <2>1 DEF DumpInMap, Clean
  <2> QED
    BY <1>3, <2>3, <2>4, <2>5
<1> HIDE DEF IInv
<1> QED
  BY <1>5, <1>6, <1>7, <1>8, <1>9 DEF Dump

(* A crash keeps the files; what they cover is what the next load restores. *)
LEMMA IInvCrash == IInv /\ TypeOK' /\ Crash => IInv'
<1> SUFFICES ASSUME IInv, TypeOK', Crash
             PROVE  IInv'
  OBVIOUS
<1> USE DEF IInv
<1>1. /\ UNCHANGED <<aof, rdb>> /\ phase' = "loadRdb" /\ snap' = "idle" /\ replayed' = 0
      /\ pc' = [w \in Workers |-> "idle"] /\ hashMap' = EmptyMap
      /\ unread' = {k \in Keys : rdb[k] # Absent}
  BY DEF Crash
<1>2. IdleWhileLoading' /\ UnloggedWriteInMap' /\ LatestLineInMap' /\ DumpInMap'
  BY <1>1 DEF IdleWhileLoading, UnloggedWriteInMap, LatestLineInMap, DumpInMap
<1>3. LogHasLatest'
  BY <1>1, RecoveredFromFiles DEF LogHasLatest
<1>4. LoaderProgress'
  BY <1>1 DEF LoaderProgress, EmptyMap
<1>5. FilesHoldLastRun'
  <2>1. CASE phase = "up"
    <3>1. lastRun' = [mem |-> hashMap,
                      pending |-> {k \in Keys : Pending(k)},
                      raced |-> raced,
                      lost |-> lost,
                      undumped |-> {k \in Keys : Undumped(k)}]
      BY <2>1 DEF Crash
    <3>2. \A k \in Keys \ (lastRun'.pending \union lastRun'.raced \union
                           lastRun'.lost \union lastRun'.undumped) : Covered(k)
      BY <3>1 DEF Covered, Clean
    <3>3. \A k \in Keys : Covered(k) => Recovered(k) = lastRun'.mem[k]
      BY <2>1, <3>1, CoveredIsRecovered DEF DiskMatchesMemory
    <3> QED
      BY <1>1, <3>2, <3>3, RecoveredFromFiles DEF FilesHoldLastRun
  <2>2. CASE phase # "up"
    BY <1>1, <2>2, RecoveredFromFiles DEF Crash, FilesHoldLastRun
  <2> QED
    BY <2>1, <2>2
<1> QED
  BY <1>2, <1>3, <1>4, <1>5

(* Every step of every thread keeps the invariant. *)
LEMMA IInvStep == IInv /\ [Next]_vars => IInv'
<1> SUFFICES ASSUME IInv, [Next]_vars
             PROVE  IInv'
  OBVIOUS
<1>1. TypeOK'
  BY TypeStep DEF IInv
<1>2. CASE UNCHANGED vars
  <2>1. \A k \in Keys : /\ InLog(k)' <=> InLog(k)
                        /\ \A i \in DOMAIN aof : IsLatest(k, i)' <=> IsLatest(k, i)
                        /\ Recovered(k)' = Recovered(k)
                        /\ Pending(k)' <=> Pending(k)
    BY <1>2, RecoveredFromFiles DEF vars, Pending
  <2>2. UnloggedWriteInMap'
    BY <1>2 DEF vars, IInv, UnloggedWriteInMap, PendingOther
  <2>3. LatestLineInMap' /\ DumpInMap' /\ LogHasLatest' /\ FilesHoldLastRun'
    BY <1>2, <2>1 DEF vars, IInv, LatestLineInMap, DumpInMap, Clean, LogHasLatest,
                      FilesHoldLastRun
  <2>4. IdleWhileLoading' /\ LoaderProgress'
    BY <1>2 DEF vars, IInv, IdleWhileLoading, LoaderProgress
  <2> QED
    BY <1>1, <2>2, <2>3, <2>4 DEF IInv
<1>3. \A w \in Workers, l \in Lines : Apply(w, l) => IInv'
  BY <1>1, IInvApply
<1>4. \A w \in Workers : Work(w) => IInv'
  BY <1>1, IInvAppend, IInvReply DEF Work
<1> QED
  BY <1>1, <1>2, <1>3, <1>4, IInvLoad, IInvSnapshot, IInvCrash, WriteIsLine DEF Next

(* What a restart would read back agrees with memory on every covered key. *)
THEOREM DiskCorrect == Spec => []DiskMatchesMemory
BY IInvInit, IInvStep, CoveredIsRecovered, PTL DEF Spec

(* A load gives back every key that was covered when the last process died. *)
THEOREM LoadCorrect == Spec => CoveredKeysSurvive
<1>1. IInv /\ [Next]_vars =>
        [RestoredExcept(lastRun.pending \union lastRun.raced \union
                        lastRun.lost \union lastRun.undumped)]_vars
  <2> SUFFICES ASSUME IInv, Next, phase = "loadAof", phase' = "up",
                      NEW k \in Keys \ (lastRun.pending \union lastRun.raced \union
                                        lastRun.lost \union lastRun.undumped)
               PROVE  hashMap'[k] = lastRun.mem[k]
    BY DEF RestoredExcept
  <2>1. LoadDone
    BY DEF Next, Load, LoadRdbLine, LoadRdbDone, LoadAofLine, Replayed, Insert, Delete, Apply,
           CanWrite,
           Work, AppendToLog, Appended, Reply, AfterReply, OpenRdb, Dump, ForEachBegin, ForEachLine,
           ForEachEnd, Dumped, ResetAof, Crash
  <2>2. hashMap' = hashMap /\ replayed = Len(aof)
    BY <2>1 DEF LoadDone, AllRead
  <2>3. hashMap[k] = Recovered(k)
    BY <2>2, LoadedIsRecovered
  <2> QED
    BY <2>2, <2>3 DEF IInv, FilesHoldLastRun
<1> QED
  BY <1>1, IInvInit, IInvStep, PTL DEF Spec, CoveredKeysSurvive

(* The dump that forEach ends is the map during the whole of the dump. *)
THEOREM SnapshotCorrect == Spec => SnapshotIsPointInTime
<1>1. IInv /\ [Next]_vars =>
        [snap = "dumping" /\ snap' = "dumped" => rdb' = hashMap /\ hashMap' = hashMap]_vars
  <2> SUFFICES ASSUME IInv, Next, snap = "dumping", snap' = "dumped"
               PROVE  rdb' = hashMap /\ hashMap' = hashMap
    OBVIOUS
  <2>1. ForEachEnd
    BY DEF Next, Load, LoadRdbLine, LoadRdbDone, LoadAofLine, Replayed, LoadDone, AllRead,
           Insert, Delete, Apply, CanWrite, Work, AppendToLog, Appended, Reply, AfterReply, OpenRdb, Dump, ForEachBegin, ForEachLine,
           ResetAof, Crash
  <2>2. phase = "up"
    BY DEF IInv, IdleWhileLoading
  <2>3. \A k \in Keys : rdb[k] = hashMap[k]
    BY <2>1, <2>2 DEF ForEachEnd, Dumped, IInv, DumpInMap
  <2> QED
    BY <2>1, <2>3 DEF ForEachEnd, Dumped, IInv, TypeOK, Maps
<1> QED
  BY <1>1, IInvInit, IInvStep, PTL DEF Spec, SnapshotIsPointInTime

=============================================================================
