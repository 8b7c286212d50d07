----------------------------- MODULE Persistence -----------------------------
(***************************************************************************)
(* The storage path of the server: worker threads apply INSERT and DELETE  *)
(* commands to the in-memory map and log them (Server::messageHandler),    *)
(* the snapshot thread rewrites snapshot.log and resets appendonly.log     *)
(* (Persistence::createSnapshot), and after a crash the next process       *)
(* rebuilds the map from both files (Persistence::loadDataOnStartup).      *)
(*                                                                         *)
(* One action is one atomic step of one thread: what runs under one lock   *)
(* (HashMap::sm or Persistence::aof_mutex), or one flushed line of a file. *)
(* A crash is the end of the process at any point; every line written with *)
(* std::endl before it is in the file, the map is gone.                    *)
(***************************************************************************)
EXTENDS Naturals, Sequences

CONSTANTS
    Keys,       \* the keys clients use
    Values,     \* the (non-empty) values clients store
    Absent,     \* the empty string: what get() returns for a missing key
    Workers,    \* the worker threads of the pool
    MaxAof,     \* bound: lines in appendonly.log that still let a write start
    MaxCrashes  \* bound: crashes before a load completes

ASSUME ConstantsAssumption ==
    /\ Absent \notin Values
    /\ MaxAof \in Nat
    /\ MaxCrashes \in Nat

(* A line of appendonly.log, "command key value" with an empty value for a  *)
(* DELETE. Keys and values are blank-free tokens of the client's command,   *)
(* the value of an INSERT is not empty, so a line parses back to itself.    *)
Lines ==
    [command : {"INSERT"}, key : Keys, value : Values] \union
    [command : {"DELETE"}, key : Keys, value : {Absent}]

NoLine == [command |-> "none"]

Maps == [Keys -> Values \union {Absent}]

EmptyMap == [k \in Keys |-> Absent]

(* What is remembered of a process that ended: its map, and the keys at     *)
(* which something separated the files from it (see the operators below).   *)
Runs == [mem : Maps, pending : SUBSET Keys, raced : SUBSET Keys,
         lost : SUBSET Keys, undumped : SUBSET Keys]

NoRun == [mem |-> EmptyMap, pending |-> {}, raced |-> {}, lost |-> {}, undumped |-> {}]

VARIABLES
    hashMap,    \* the in-memory map: Absent where there is no node
    aof,        \* the lines of appendonly.log
    rdb,        \* the lines "INSERT key value" of snapshot.log, by key
    phase,      \* what the process does: "loadRdb", "loadAof" or "up"
    unread,     \* loader: keys whose snapshot.log line is still to be read
    replayed,   \* loader: lines of appendonly.log read so far
    pc,         \* pc[w]: "idle", "applied" (map changed), "logged" (line written)
    line,       \* line[w]: the line worker w has still to log
    snap,       \* createSnapshot: "idle", "opened", "dumping", "dumped"
    crashes,    \* crashes since a process was last up
    (* History variables: they never guard an action. *)
    sinceDump,  \* keys changed in the map since the dump ended
    lost,       \* keys whose line the last log reset dropped though the dump lacks it
    raced,      \* keys whose latest write overlapped another unlogged write to them
    lastRun     \* what memory held when the previous process ended

loadVars == <<unread, replayed>>
workerVars == <<pc, line>>
historyVars == <<sinceDump, lost, raced, lastRun>>
vars == <<hashMap, aof, rdb, phase, unread, replayed, pc, line, snap, crashes,
          sinceDump, lost, raced, lastRun>>

(* k has a write in the map whose line is not in the log yet. *)
Pending(k) == \E w \in Workers : pc[w] = "applied" /\ line[w].key = k

PendingOther(w, k) == \E x \in Workers \ {w} : pc[x] = "applied" /\ line[x].key = k

(* No unlogged, overlapped or dropped write separates disk from memory at k. *)
Clean(k) == ~Pending(k) /\ k \notin raced /\ k \notin lost

InLog(k) == \E i \in DOMAIN aof : aof[i].key = k

IsLatest(k, i) == aof[i].key = k /\ \A j \in DOMAIN aof : j > i => aof[j].key # k

(* What a load of both files gives k: its latest line, or else its dump. *)
Recovered(k) ==
    IF InLog(k) THEN aof[CHOOSE i \in DOMAIN aof : IsLatest(k, i)].value ELSE rdb[k]

(* snapshot.log is being rewritten and k, though stored, is in neither file. *)
Undumped(k) ==
    /\ snap \in {"opened", "dumping"}
    /\ hashMap[k] # Absent
    /\ rdb[k] = Absent
    /\ ~InLog(k)

Covered(k) == Clean(k) /\ ~Undumped(k)

-----------------------------------------------------------------------------

(* A process starts on empty files. *)
Init ==
    /\ hashMap = EmptyMap
    /\ aof = <<>>
    /\ rdb = EmptyMap
    /\ phase = "loadRdb"
    /\ unread = {}
    /\ replayed = 0
    /\ pc = [w \in Workers |-> "idle"]
    /\ line = [w \in Workers |-> NoLine]
    /\ snap = "idle"
    /\ crashes = 0
    /\ sinceDump = {}
    /\ lost = {}
    /\ raced = {}
    /\ lastRun = NoRun

-----------------------------------------------------------------------------
(* loadDataOnStartup. The event loop starts after it, so no worker runs. *)

(* One line of snapshot.log. The loader inserts whatever the line's command. *)
LoadRdbLine(k) ==
    /\ phase = "loadRdb"
    /\ k \in unread
    /\ hashMap' = [hashMap EXCEPT ![k] = rdb[k]]
    /\ unread' = unread \ {k}
    /\ UNCHANGED <<aof, rdb, phase, replayed, workerVars, snap, crashes, historyVars>>

LoadRdbDone ==
    /\ phase = "loadRdb"
    /\ unread = {}
    /\ phase' = "loadAof"
    /\ UNCHANGED <<hashMap, aof, rdb, loadVars, workerVars, snap, crashes, historyVars>>

(* Mutant: lines that are not INSERTs are skipped. *)
ReplayedInsertsOnly(l) == IF l.command = "INSERT" THEN l.value ELSE hashMap[l.key]

(* What line l leaves under its key: INSERT inserts, any other command removes. *)
Replayed(l) == IF l.command = "INSERT" THEN l.value ELSE Absent

LoadAofLine ==
    /\ phase = "loadAof"
    /\ replayed < Len(aof)
    /\ LET l == aof[replayed + 1]
       IN  hashMap' = [hashMap EXCEPT ![l.key] = Replayed(l)]
    /\ replayed' = replayed + 1
    /\ UNCHANGED <<aof, rdb, phase, unread, workerVars, snap, crashes, historyVars>>

(* Mutant: an empty log is taken for a failed read. *)
AllReadIfAny == replayed = Len(aof) /\ replayed > 0

AllRead == replayed = Len(aof)

LoadDone ==
    /\ phase = "loadAof"
    /\ AllRead
    /\ phase' = "up"
    /\ replayed' = 0
    /\ crashes' = 0
    /\ lastRun' = NoRun
    /\ UNCHANGED <<hashMap, aof, rdb, unread, workerVars, snap, sinceDump, lost, raced>>

-----------------------------------------------------------------------------
(* messageHandler: a write is applied to the map, then logged, then answered. *)

(* Mutant: the map is changed without taking sm. *)
CanWriteAlways == TRUE

(* insert and remove want sm exclusively: they wait while forEach holds it. *)
CanWrite == snap # "dumping"

(* HashMap::insert or HashMap::remove. *)
Apply(w, l) ==
    /\ phase = "up"
    /\ pc[w] = "idle"
    /\ Len(aof) < MaxAof
    /\ CanWrite
    /\ hashMap' = [hashMap EXCEPT ![l.key] = l.value]
    /\ pc' = [pc EXCEPT ![w] = "applied"]
    /\ line' = [line EXCEPT ![w] = l]
    /\ sinceDump' = IF snap = "dumped" THEN sinceDump \union {l.key} ELSE sinceDump
    /\ lost' = lost \ {l.key}
    /\ raced' = IF PendingOther(w, l.key) THEN raced \union {l.key} ELSE raced \ {l.key}
    /\ UNCHANGED <<aof, rdb, phase, loadVars, snap, crashes, lastRun>>

Insert(w, k, v) == Apply(w, [command |-> "INSERT", key |-> k, value |-> v])

Delete(w, k) == Apply(w, [command |-> "DELETE", key |-> k, value |-> Absent])

(* Mutant: a line with an empty value is not written. *)
AppendedNoDelete(l) == IF l.value = Absent THEN aof ELSE Append(aof, l)

Appended(l) == Append(aof, l)

(* appendToLog: one line under aof_mutex, flushed by std::endl. *)
AppendToLog(w) ==
    /\ pc[w] = "applied"
    /\ aof' = Appended(line[w])
    /\ pc' = [pc EXCEPT ![w] = "logged"]
    /\ line' = [line EXCEPT ![w] = NoLine]
    /\ UNCHANGED <<hashMap, rdb, phase, loadVars, snap, crashes, historyVars>>

(* Mutant: after the answer the worker logs again. *)
AfterReplyLog == "applied"

AfterReply == "idle"

(* The answer is sent; the worker is free for the next job. *)
Reply(w) ==
    /\ pc[w] = "logged"
    /\ pc' = [pc EXCEPT ![w] = AfterReply]
    /\ UNCHANGED <<hashMap, aof, rdb, phase, loadVars, line, snap, crashes, historyVars>>

-----------------------------------------------------------------------------
(* createSnapshot, on the scheduler's thread. The first one is due an       *)
(* interval after the process started: the load is assumed to be over.      *)

(* The ofstream opens snapshot.log with std::ios::trunc. *)
OpenRdb ==
    /\ phase = "up"
    /\ snap = "idle"
    /\ rdb' = EmptyMap
    /\ snap' = "opened"
    /\ UNCHANGED <<hashMap, aof, phase, loadVars, workerVars, crashes, historyVars>>

(* forEach takes sm shared and keeps it for the whole iteration. *)
ForEachBegin ==
    /\ snap = "opened"
    /\ snap' = "dumping"
    /\ UNCHANGED <<hashMap, aof, rdb, phase, loadVars, workerVars, crashes, historyVars>>

(* The callback writes one line; the table order of the keys is arbitrary. *)
ForEachLine(k) ==
    /\ snap = "dumping"
    /\ hashMap[k] # Absent
    /\ rdb[k] = Absent
    /\ rdb' = [rdb EXCEPT ![k] = hashMap[k]]
    /\ UNCHANGED <<hashMap, aof, phase, loadVars, workerVars, snap, crashes, historyVars>>

(* Mutant: the dump waits for a line of every key, stored or not. *)
DumpedAnyway(k) == rdb[k] # Absent

Dumped(k) == hashMap[k] # Absent => rdb[k] # Absent

ForEachEnd ==
    /\ snap = "dumping"
    /\ \A k \in Keys : Dumped(k)
    /\ snap' = "dumped"
    /\ sinceDump' = {}
    /\ UNCHANGED <<hashMap, aof, rdb, phase, loadVars, workerVars, crashes,
                   lost, raced, lastRun>>

(* Under aof_mutex: close, resize_file(aof_path, 0), reopen for appending. *)
ResetAof ==
    /\ snap = "dumped"
    /\ aof' = <<>>
    /\ snap' = "idle"
    /\ lost' = {k \in sinceDump : ~Pending(k)}
    /\ raced' = {k \in raced : Pending(k)}
    /\ sinceDump' = {}
    /\ UNCHANGED <<hashMap, rdb, phase, loadVars, workerVars, crashes, lastRun>>

-----------------------------------------------------------------------------
(* The process ends at any point: a signal, or an exception that leaves a   *)
(* thread (createSnapshot throws when it cannot open a file). The next one  *)
(* opens both files and starts to load them. A process that dies while it   *)
(* loads has no memory of its own to compare the next one with.             *)
Crash ==
    /\ crashes < MaxCrashes
    /\ crashes' = crashes + 1
    /\ hashMap' = EmptyMap
    /\ phase' = "loadRdb"
    /\ unread' = {k \in Keys : rdb[k] # Absent}
    /\ replayed' = 0
    /\ pc' = [w \in Workers |-> "idle"]
    /\ line' = [w \in Workers |-> NoLine]
    /\ snap' = "idle"
    /\ sinceDump' = {}
    /\ lost' = {}
    /\ raced' = {}
    /\ lastRun' = IF phase = "up"
                  THEN [mem |-> hashMap,
                        pending |-> {k \in Keys : Pending(k)},
                        raced |-> raced,
                        lost |-> lost,
                        undumped |-> {k \in Keys : Undumped(k)}]
                  ELSE lastRun
    /\ UNCHANGED <<aof, rdb>>

-----------------------------------------------------------------------------

Load == LoadRdbDone \/ LoadAofLine \/ LoadDone \/ \E k \in Keys : LoadRdbLine(k)

Work(w) == AppendToLog(w) \/ Reply(w)

Dump == ForEachBegin \/ ForEachEnd \/ ResetAof \/ \E k \in Keys : ForEachLine(k)

Next ==
    \/ Load
    \/ \E w \in Workers : \/ \E k \in Keys, v \in Values : Insert(w, k, v)
                          \/ \E k \in Keys : Delete(w, k)
                          \/ Work(w)
    \/ OpenRdb
    \/ Dump
    \/ Crash

Spec == Init /\ [][Next]_vars

(* A thread that can run is eventually scheduled. Clients need not send, the *)
(* snapshot need not come due and nothing need crash.                        *)
Fairness ==
    /\ WF_vars(Load)
    /\ \A w \in Workers : WF_vars(Work(w))
    /\ WF_vars(Dump)

FairSpec == Spec /\ Fairness

-----------------------------------------------------------------------------

(* Each variable ranges over the states its C++ counterpart can be in. *)
TypeOK ==
    /\ hashMap \in Maps
    /\ aof \in Seq(Lines)
    /\ rdb \in Maps
    /\ phase \in {"loadRdb", "loadAof", "up"}
    /\ unread \in SUBSET Keys
    /\ replayed \in Nat
    /\ pc \in [Workers -> {"idle", "applied", "logged"}]
    /\ line \in [Workers -> Lines \union {NoLine}]
    /\ \A w \in Workers : pc[w] = "applied" => line[w] \in Lines
    /\ snap \in {"idle", "opened", "dumping", "dumped"}
    /\ crashes \in 0 .. MaxCrashes
    /\ sinceDump \in SUBSET Keys
    /\ lost \in SUBSET Keys
    /\ raced \in SUBSET Keys
    /\ lastRun \in Runs

(* What a restart now would read back agrees with memory (Persistence.h:     *)
(* "bring the memory state up to date") on every key, except one that has an *)
(* unlogged write, one whose last write overlapped another unlogged write,   *)
(* one written between the dump and the log reset of the last snapshot, and, *)
(* while snapshot.log is being rewritten, one found in neither file.         *)
DiskMatchesMemory ==
    phase = "up" => \A k \in Keys : Covered(k) => Recovered(k) = hashMap[k]

(* At the end of a load, memory is what it was when the last process died, *)
(* but possibly for the keys of S.                                         *)
RestoredExcept(S) ==
    phase = "loadAof" /\ phase' = "up" =>
        \A k \in Keys \ S : hashMap'[k] = lastRun.mem[k]

(* The load restores every key that was covered when the last process died,  *)
(* however often the process dies again while it loads.                      *)
CoveredKeysSurvive ==
    [][RestoredExcept(lastRun.pending \union lastRun.raced \union
                      lastRun.lost \union lastRun.undumped)]_vars

(* createSnapshot writes a "full point-in-time snapshot": when forEach ends, *)
(* snapshot.log is the map as it was during the whole dump.                  *)
SnapshotIsPointInTime ==
    [][snap = "dumping" /\ snap' = "dumped" => rdb' = hashMap /\ hashMap' = hashMap]_vars

(* A load that is not interrupted ends with the server up. *)
RecoveryCompletes == phase # "up" ~> phase = "up"

(* A snapshot that was started ends (or the process does). *)
SnapshotCompletes == snap = "opened" ~> snap = "idle"

(* Persistence.h on the class: "It guarantees data recovery across server    *)
(* restarts and crashes": a key whose writes are all logged, and in the      *)
(* order in which the map took them, survives a crash, the log resets of     *)
(* earlier snapshots and the rewriting of snapshot.log notwithstanding.      *)
LoggedWritesSurvive ==
    [][RestoredExcept(lastRun.pending \union lastRun.raced)]_vars

(* Persistence.h on loadDataOnStartup: it replays the log "to bring the      *)
(* memory state up to date", so two logged writes to one key are replayed in *)
(* the order in which the map took them.                                     *)
ReplayFollowsMapOrder ==
    [][RestoredExcept(lastRun.pending \union lastRun.lost \union lastRun.undumped)]_vars

=============================================================================
