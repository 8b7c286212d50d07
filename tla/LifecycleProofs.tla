-------------------------- MODULE LifecycleProofs --------------------------
(***************************************************************************)
(* Proofs about Lifecycle for any number of pool threads and clients: the  *)
(* members of Server outlive the threads that use them, and nothing is     *)
(* left to expire when they go. The pool's own invariant is taken over     *)
(* from ThreadPoolProofs; the rest follows from Order, which says what has *)
(* ended for good by the time main reaches each statement.                 *)
(***************************************************************************)
EXTENDS Lifecycle, TLAPS

PoolProofs == INSTANCE ThreadPoolProofs WITH Jobs <- Sockets

(* The statements of main, by number. *)
LEMMA MainIs ==
    /\ DOMAIN Main = 1 .. 29
    /\ Main[1] = "load" /\ Main[2] = "start loop" /\ Main[3] = "start accept"
    /\ Main[4] = "await stop"
    /\ Main[5] = "clear running" /\ Main[6] = "close connections"
    /\ Main[7] = "close sessions" /\ Main[8] = "close listener" /\ Main[9] = "join loop"
    /\ Main[10] = "join accept"
    /\ Main[11] = "clear running" /\ Main[12] = "close connections"
    /\ Main[13] = "close sessions" /\ Main[14] = "close listener" /\ Main[15] = "join loop"
    /\ Main[16] = "destroy expiredSockets" /\ Main[17] = "destroy eventLoop"
    /\ Main[18] = "destroy connections"
    /\ Main[19] = "stop sweeper" /\ Main[20] = "join sweeper"
    /\ Main[21] = "destroy sessions" /\ Main[22] = "destroy limiter"
    /\ Main[23] = "stop scheduler" /\ Main[24] = "join scheduler"
    /\ Main[25] = "clear active" /\ Main[26] = "notify" /\ Main[27] = "join pool"
    /\ Main[28] = "destroy storage" /\ Main[29] = "exited"
BY DEF Main, StopFirst, StopLast

(* Where in Main a statement occurs. *)
LEMMA Places ==
    ASSUME NEW i \in 1 .. 29
    PROVE  /\ Main[i] = "start loop" => i = 2
           /\ Main[i] = "start accept" => i = 3
           /\ Main[i] = "clear running" => i \in {5, 11}
           /\ Main[i] = "close connections" => i \in {6, 12}
           /\ Main[i] = "close sessions" => i \in {7, 13}
           /\ Main[i] = "close listener" => i \in {8, 14}
           /\ Main[i] = "destroy expiredSockets" => i = 16
           /\ Main[i] = "stop sweeper" => i = 19
           /\ Main[i] = "destroy sessions" => i = 21
           /\ Main[i] = "stop scheduler" => i = 23
           /\ Main[i] = "clear active" => i = 25
           /\ Main[i] = "notify" => i = 26
           /\ Main[i] = "join pool" => i = 27
           /\ Main[i] = "destroy storage" => i = 28
<1>1. \/ i = 1 \/ i = 2 \/ i = 3 \/ i = 4 \/ i = 5 \/ i = 6 \/ i = 7 \/ i = 8 \/ i = 9 \/ i = 10
      \/ i = 11 \/ i = 12 \/ i = 13 \/ i = 14 \/ i = 15 \/ i = 16 \/ i = 17 \/ i = 18 \/ i = 19
      \/ i = 20 \/ i = 21 \/ i = 22 \/ i = 23 \/ i = 24 \/ i = 25 \/ i = 26 \/ i = 27 \/ i = 28
      \/ i = 29
  OBVIOUS
<1>2. /\ Main[i] = "start loop" => i = 2
      /\ Main[i] = "start accept" => i = 3
      /\ Main[i] = "clear running" => i \in {5, 11}
      /\ Main[i] = "close connections" => i \in {6, 12}
      /\ Main[i] = "close sessions" => i \in {7, 13}
      /\ Main[i] = "close listener" => i \in {8, 14}
      /\ Main[i] = "destroy expiredSockets" => i = 16
      /\ Main[i] = "stop sweeper" => i = 19
  BY <1>1, MainIs, Zenon
<1>3. /\ Main[i] = "destroy sessions" => i = 21
      /\ Main[i] = "stop scheduler" => i = 23
      /\ Main[i] = "clear active" => i = 25
      /\ Main[i] = "notify" => i = 26
      /\ Main[i] = "join pool" => i = 27
      /\ Main[i] = "destroy storage" => i = 28
  BY <1>1, MainIs, Zenon
<1> QED
  BY <1>2, <1>3

(* Statements main does not merely pass, and what it waits for at a join. *)
LEMMA Joins ==
    ASSUME CanPass(Main[at])
    PROVE  /\ at # 2 /\ at # 3 /\ at # 12 /\ at # 13 /\ at # 25 /\ at # 26 /\ at # 27
           /\ at # 29
           /\ at = 9 => loop \in {"off", "ended"}
           /\ at = 10 => acc.pc = "ended"
           /\ at = 20 => ticker["sweeper"] = "ended"
           /\ at = 24 => ticker["scheduler"] = "ended"
<1>1. CASE at = 2
  BY <1>1, MainIs DEF CanPass
<1>2. CASE at = 3
  BY <1>2, MainIs DEF CanPass
<1>3. CASE at = 9
  BY <1>3, MainIs DEF CanPass
<1>4. CASE at = 10
  BY <1>4, MainIs DEF CanPass
<1>5. CASE at = 12
  BY <1>5, MainIs DEF CanPass
<1>6. CASE at = 13
  BY <1>6, MainIs DEF CanPass
<1>7. CASE at = 20
  BY <1>7, MainIs DEF CanPass
<1>8. CASE at = 24
  BY <1>8, MainIs DEF CanPass
<1>9. CASE at = 25
  BY <1>9, MainIs DEF CanPass
<1>10. CASE at = 26
  BY <1>10, MainIs DEF CanPass
<1>11. CASE at = 27
  BY <1>11, MainIs DEF CanPass
<1>12. CASE at = 29
  BY <1>12, MainIs DEF CanPass
<1> QED
  BY <1>1, <1>2, <1>3, <1>4, <1>5, <1>6, <1>7, <1>8, <1>9, <1>10, <1>11, <1>12

(* How far main is when it is past a statement. *)
LEMMA PastIs ==
    ASSUME at \in 1 .. 29
    PROVE  /\ Past("destroy expiredSockets") => at > 16
           /\ Past("destroy sessions") => at > 21
           /\ Past("destroy storage") => at > 28
BY MainIs, Places DEF Past

-----------------------------------------------------------------------------
(* The order of the shutdown. *)

(* What main knows once it is past a join or a close: the threads it waited  *)
(* for have ended for good, and what it emptied after that stays empty.      *)
Order ==
    /\ at > 9 => loop \in {"off", "ended"}
    /\ at > 10 => acc.pc = "ended"
    /\ at > 12 => connections = {}
    /\ at > 13 => sessions = {}
    /\ at > 20 => ticker["sweeper"] = "ended"
    /\ at > 24 => ticker["scheduler"] = "ended"
    /\ at <= 25 => closing = "no"
    /\ at > 27 => closing = "joined"

(* Where main is when it is at a statement that changes something. *)
LEMMA DoAt ==
    ASSUME at \in 1 .. 29
    PROVE  /\ Do("start loop") => at \in {2} /\ at' = at + 1
           /\ Do("start accept") => at \in {3} /\ at' = at + 1
           /\ Do("clear running") => at \in {5, 11} /\ at' = at + 1
           /\ Do("close connections") => at \in {6, 12} /\ at' = at + 1
           /\ Do("close sessions") => at \in {7, 13} /\ at' = at + 1
           /\ Do("close listener") => at \in {8, 14} /\ at' = at + 1
           /\ Do("stop sweeper") => at \in {19} /\ at' = at + 1
           /\ Do("stop scheduler") => at \in {23} /\ at' = at + 1
           /\ Do("clear active") => at \in {25} /\ at' = at + 1
           /\ Do("notify") => at \in {26} /\ at' = at + 1
           /\ Do("join pool") => at \in {27} /\ at' = at + 1
BY Places, Zenon DEF Do, At

(* The statements of main keep types and order. *)
LEMMA OrderMain ==
    ASSUME ServerTypeOK, Order, MainStep
    PROVE  ServerTypeOK' /\ Order'
<1>0. at \in 1 .. 29 /\ DOMAIN Main = 1 .. 29
  BY MainIs DEF ServerTypeOK
<1>1. CASE Pass
  <2>1. /\ at # 2 /\ at # 3 /\ at # 12 /\ at # 13 /\ at # 25 /\ at # 26 /\ at # 27 /\ at # 29
        /\ at = 9 => loop \in {"off", "ended"}
        /\ at = 10 => acc.pc = "ended"
        /\ at = 20 => ticker["sweeper"] = "ended"
        /\ at = 24 => ticker["scheduler"] = "ended"
    BY <1>1, Joins, Zenon DEF Pass
  <2>2. /\ at' = at + 1
        /\ UNCHANGED <<running, listening, acc, loop, found, netVars, tickVars, poolVars>>
    BY <1>1, Zenon DEF Pass
  <2> QED
    BY <1>0, <2>1, <2>2 DEF ServerTypeOK, Order, netVars, tickVars, poolVars
<1>2. CASE StartLoop
  <2>1. at \in {2} /\ at' = at + 1
    BY <1>0, <1>2, DoAt, Zenon DEF StartLoop
  <2>2. /\ loop' = "test"
        /\ UNCHANGED <<running, listening, acc, found, netVars, tickVars, poolVars>>
    BY <1>2, Zenon DEF StartLoop
  <2> QED
    BY <1>0, <2>1, <2>2 DEF ServerTypeOK, Order, netVars, tickVars, poolVars
<1>3. CASE StartAccept
  <2>1. at \in {3} /\ at' = at + 1
    BY <1>0, <1>3, DoAt, Zenon DEF StartAccept
  <2>2. /\ acc' = [acc EXCEPT !.pc = "test"]
        /\ UNCHANGED <<running, listening, loop, found, netVars, tickVars, poolVars>>
    BY <1>3, Zenon DEF StartAccept
  <2> QED
    BY <1>0, <2>1, <2>2 DEF ServerTypeOK, Order, netVars, tickVars, poolVars
<1>4. CASE ClearRunning
  <2>1. at \in {5, 11} /\ at' = at + 1
    BY <1>0, <1>4, DoAt, Zenon DEF ClearRunning
  <2>2. /\ running' \in BOOLEAN
        /\ UNCHANGED <<listening, acc, loop, found, netVars, tickVars, poolVars>>
    BY <1>4, Zenon DEF ClearRunning
  <2> QED
    BY <1>0, <2>1, <2>2 DEF ServerTypeOK, Order, netVars, tickVars, poolVars
<1>5. CASE CloseConnections
  <2>1. at \in {6, 12} /\ at' = at + 1
    BY <1>0, <1>5, DoAt, Zenon DEF CloseConnections
  <2>2. /\ connections' = {}
        /\ UNCHANGED <<running, listening, acc, loop, found, sessions, expired, tickVars, poolVars>>
    BY <1>5, Zenon DEF CloseConnections, Closed
  <2> QED
    BY <1>0, <2>1, <2>2 DEF ServerTypeOK, Order, netVars, tickVars, poolVars
<1>6. CASE CloseSessions
  <2>1. at \in {7, 13} /\ at' = at + 1
    BY <1>0, <1>6, DoAt, Zenon DEF CloseSessions
  <2>2. /\ sessions' = {}
        /\ UNCHANGED <<running, listening, acc, loop, found, connections, expired,
                     tickVars, poolVars>>
    BY <1>6, Zenon DEF CloseSessions, Closed
  <2> QED
    BY <1>0, <2>1, <2>2 DEF ServerTypeOK, Order, netVars, tickVars, poolVars
<1>7. CASE CloseListener
  <2>1. at \in {8, 14} /\ at' = at + 1
    BY <1>0, <1>7, DoAt, Zenon DEF CloseListener
  <2>2. /\ listening' \in BOOLEAN
        /\ UNCHANGED <<running, acc, loop, found, netVars, tickVars, poolVars>>
    BY <1>7, Zenon DEF CloseListener
  <2> QED
    BY <1>0, <2>1, <2>2 DEF ServerTypeOK, Order, netVars, tickVars, poolVars
<1>8. ASSUME NEW p \in Periodic, StopPeriodic(p)
      PROVE  ServerTypeOK' /\ Order'
  <2>1. at \in {19, 23} /\ at' = at + 1
    BY <1>0, <1>8, DoAt, Zenon DEF StopPeriodic
  <2>2. /\ ticking' = [ticking EXCEPT ![p] = FALSE]
        /\ ticker' = [ticker EXCEPT ![p] = IF ticker[p] = "asleep" THEN "test" ELSE ticker[p]]
        /\ UNCHANGED <<running, listening, acc, loop, found, netVars, poolVars>>
    BY <1>8, Zenon DEF StopPeriodic
  <2> QED
    BY <1>0, <2>1, <2>2 DEF ServerTypeOK, Order, Periodic, netVars, poolVars
<1>9. CASE StopPool
  <2>1. /\ \/ at = 25 /\ at' = at + 1 /\ closing' = "flagged"
           \/ at = 26 /\ at' = at + 1 /\ closing' = "notified"
           \/ at = 27 /\ at' = at + 1 /\ closing' = "joined"
        /\ UNCHANGED <<running, listening, acc, loop, found, netVars, tickVars>>
    BY <1>0, <1>9, DoAt, Zenon DEF StopPool, Pool!ClearActive, Pool!NotifyAll, Pool!Join
  <2> QED
    BY <1>0, <2>1 DEF ServerTypeOK, Order, netVars, tickVars
<1> QED
  BY <1>1, <1>2, <1>3, <1>4, <1>5, <1>6, <1>7, <1>8, <1>9 DEF MainStep

(* So do the steps of the accept thread, the event loop and the others. *)
LEMMA OrderStep ==
    ServerTypeOK /\ Order /\ [Next]_vars => ServerTypeOK' /\ Order'
<1> SUFFICES ASSUME ServerTypeOK, Order, [Next]_vars
             PROVE  ServerTypeOK' /\ Order'
  OBVIOUS
<1> DEFINE Inv == ServerTypeOK /\ Order
<1>0. at \in 1 .. 29 /\ DOMAIN Main = 1 .. 29
  BY MainIs DEF ServerTypeOK
<1>1. CASE AcceptStep \/ AcceptFails
  BY <1>0, <1>1 DEF ServerTypeOK, Order, AcceptStep, AcceptTest, Refuse, AcceptCheck, AddSession,
    PutConnection, DropClient, AcceptFails, AcceptGoto, netVars, tickVars, poolVars
<1>2. CASE LoopStep
  BY <1>0, <1>2 DEF ServerTypeOK, Order, LoopStep, LoopTop, LoopWake, LoopEventsDone, CloseSockets,
    netVars, tickVars, poolVars
<1>8. CASE LoopSubmit
  BY <1>0, <1>8 DEF ServerTypeOK, Order, LoopSubmit, Pool!AcceptJob, netVars, tickVars
<1>3. CASE SnapshotDone \/ SweepDone
  BY <1>0, <1>3 DEF ServerTypeOK, Order, SnapshotDone, SweepDone, TickGoto, Periodic, netVars,
    poolVars
<1>4. ASSUME NEW s \in Sockets, Accept(s) \/ LoopFind(s) \/ LoopHangUp(s)
      PROVE  Inv'
  <2>1. CASE Accept(s)
    BY <1>0, <2>1 DEF ServerTypeOK, Order, Accept, netVars, tickVars, poolVars
  <2>2. CASE LoopFind(s)
    BY <1>0, <2>2 DEF ServerTypeOK, Order, LoopFind, netVars, tickVars, poolVars
  <2>3. CASE LoopHangUp(s)
    BY <1>0, <2>3 DEF ServerTypeOK, Order, LoopHangUp, CloseSockets, tickVars, poolVars
  <2> QED
    BY <1>4, <2>1, <2>2, <2>3
<1>5. ASSUME NEW t \in Threads, PoolWork(t) \/ PoolSpuriousWakeup(t)
      PROVE  Inv'
  BY <1>0, <1>5 DEF ServerTypeOK, Order, PoolWork, RunHandler, CloseSockets, PoolSpuriousWakeup,
    Pool!Lock, Pool!CheckPredicate, Pool!Block, Pool!Return, Pool!TakeJob, Pool!RunJob,
    Pool!SpuriousWakeup, netVars, tickVars
<1>6. ASSUME NEW p \in Periodic, TickStep(p)
      PROVE  Inv'
  BY <1>0, <1>6 DEF ServerTypeOK, Order, TickStep, TickTest, TickBlock, TickTimeout, TickGoto,
    Periodic, netVars, poolVars
<1>7. CASE UNCHANGED vars
  BY <1>7 DEF ServerTypeOK, Order, vars
<1> QED
  BY <1>1, <1>2, <1>3, <1>4, <1>5, <1>6, <1>7, <1>8, OrderMain DEF Next

(* Types and order always hold, whatever the pool does. *)
LEMMA OrderAlways == Spec => [](ServerTypeOK /\ Order)
<1>1. Init => ServerTypeOK /\ Order
  <2>1. DOMAIN Main = 1 .. 29
    BY MainIs, Zenon
  <2> QED
    BY <2>1 DEF Init, ServerTypeOK, Order, Periodic, Pool!Init
<1> QED
  BY <1>1, OrderStep, PTL DEF Spec

-----------------------------------------------------------------------------
(* The pool inside the process. *)

(* The event loop submits only while main has not passed the first join of   *)
(* the loop, long before the pool's destructor begins.                       *)
LEMMA SubmitsInTime ==
    ASSUME ServerTypeOK, Order, loop = "submit"
    PROVE  closing = "no"
<1>1. at \in 1 .. 29
  BY MainIs DEF ServerTypeOK
<1>2. at <= 9
  BY <1>1 DEF Order
<1> QED
  BY <1>1, <1>2 DEF Order

(* Every step of the process is a step of the pool or leaves the pool alone. *)
LEMMA PoolStep == ServerTypeOK /\ Order /\ [Next]_vars => [PoolProofs!Next]_poolVars
<1> SUFFICES ASSUME ServerTypeOK, Order, [Next]_vars
             PROVE  PoolProofs!Next \/ UNCHANGED poolVars
  OBVIOUS
<1>1. ASSUME LoopSubmit
      PROVE  PoolProofs!Next
  <2>1. found \in Sockets /\ closing = "no"
    BY <1>1, SubmitsInTime DEF LoopSubmit, ServerTypeOK
  <2>2. PoolProofs!AcceptJob(found)
    BY <1>1 DEF LoopSubmit, Pool!AcceptJob, Pool!NotifyOne, PoolProofs!AcceptJob,
                PoolProofs!NotifyOne
  <2> QED
    BY <2>1, <2>2 DEF PoolProofs!Next, PoolProofs!Submit
<1>2. ASSUME NEW t \in Threads, PoolWork(t)
      PROVE  PoolProofs!Next
  <2>1. PoolProofs!Work(t)
    BY <1>2 DEF PoolWork, RunHandler, Pool!Lock, Pool!Inside, Pool!CheckPredicate, Pool!Block,
                Pool!Return, Pool!MayLeave, Pool!TakeJob, Pool!Popped, Pool!RunJob,
                Pool!AfterJob, PoolProofs!Work, PoolProofs!Lock, PoolProofs!Inside,
                PoolProofs!CheckPredicate, PoolProofs!Block, PoolProofs!Return,
                PoolProofs!MayLeave, PoolProofs!TakeJob, PoolProofs!Popped,
                PoolProofs!RunJob, PoolProofs!AfterJob
  <2> QED
    BY <2>1 DEF PoolProofs!Next
<1>3. ASSUME NEW t \in Threads, PoolSpuriousWakeup(t)
      PROVE  PoolProofs!Next
  BY <1>3 DEF PoolSpuriousWakeup, Pool!SpuriousWakeup, PoolProofs!SpuriousWakeup,
              PoolProofs!Next
<1>4. ASSUME StopPool
      PROVE  PoolProofs!Next
  BY <1>4 DEF StopPool, Pool!ClearActive, Pool!NotifyAll, Pool!Join, Pool!Joinable,
              PoolProofs!ClearActive, PoolProofs!NotifyAll, PoolProofs!Join,
              PoolProofs!Joinable, PoolProofs!Next
<1>5. ASSUME MainStep
      PROVE  PoolProofs!Next \/ UNCHANGED poolVars
  BY <1>4, <1>5 DEF MainStep, Pass, StartLoop, StartAccept, ClearRunning, CloseConnections,
              CloseSessions, CloseListener, StopPeriodic
<1>6. ASSUME AcceptStep \/ AcceptFails \/ LoopStep \/ SnapshotDone \/ SweepDone
      PROVE  UNCHANGED poolVars
  BY <1>6 DEF AcceptStep, AcceptTest, Refuse, AcceptCheck, AddSession, PutConnection, DropClient,
              AcceptFails, AcceptGoto, LoopStep, LoopTop, LoopWake, LoopEventsDone,
              SnapshotDone, SweepDone, TickGoto
<1>7. ASSUME NEW s \in Sockets, Accept(s) \/ LoopFind(s) \/ LoopHangUp(s)
      PROVE  UNCHANGED poolVars
  BY <1>7 DEF Accept, LoopFind, LoopHangUp
<1>8. ASSUME NEW p \in Periodic, TickStep(p)
      PROVE  UNCHANGED poolVars
  BY <1>8 DEF TickStep, TickTest, TickBlock, TickTimeout, TickGoto
<1>9. CASE UNCHANGED vars
  BY <1>9 DEF vars, poolVars
<1> QED
  BY <1>1, <1>2, <1>3, <1>5, <1>6, <1>7, <1>8, <1>9 DEF Next

(* What is proved of the pool alone holds of it inside the process. *)
LEMMA PoolInvariant == Spec => []PoolProofs!IInv
<1>1. Init => PoolProofs!IInv
  <2>1. Init => PoolProofs!Init
    BY DEF Init, Pool!Init, PoolProofs!Init
  <2> QED
    BY <2>1, ConstantsAssumption, PoolProofs!IInvInit
<1>2. PoolProofs!IInv /\ ServerTypeOK /\ Order /\ [Next]_vars => PoolProofs!IInv'
  BY PoolStep, ConstantsAssumption, PoolProofs!IInvStep DEF poolVars, PoolProofs!vars
<1> QED
  BY <1>1, <1>2, OrderAlways, PTL DEF Spec

(* Types, order and the pool's invariant always hold. *)
LEMMA OrderInvariant == Spec => [](PoolProofs!IInv /\ ServerTypeOK /\ Order)
BY PoolInvariant, OrderAlways, PTL

-----------------------------------------------------------------------------

(* The types of all threads and of what they share. *)
THEOREM TypeCorrect == Spec => []TypeOK
<1>1. PoolProofs!IInv /\ ServerTypeOK => TypeOK
  BY DEF PoolProofs!IInv, PoolProofs!TypeOK, TypeOK, Pool!TypeOK
<1> QED
  BY <1>1, OrderInvariant, PTL

(* The server submits no job once the pool's destructor has begun, because   *)
(* main has joined the event loop before. So the pool behaves as ThreadPool  *)
(* specifies, and what ThreadPoolProofs shows of it (no job lost or run      *)
(* twice, none left when it is joined) holds in the process.                 *)
THEOREM PoolImplemented == Spec => UsesPoolAsSpecified
<1>1. Init => Pool!Init
  BY DEF Init
<1>2. PoolProofs!Next => Pool!Next
  BY DEF Pool!Next, Pool!Submit, Pool!AcceptJob, Pool!NotifyOne, Pool!Work, Pool!Lock, Pool!Inside,
         Pool!CheckPredicate, Pool!Block, Pool!Return, Pool!MayLeave, Pool!TakeJob, Pool!Popped,
         Pool!RunJob, Pool!AfterJob, Pool!SpuriousWakeup, Pool!ClearActive, Pool!NotifyAll,
         Pool!Join, Pool!Joinable,
         PoolProofs!Next, PoolProofs!Submit, PoolProofs!AcceptJob, PoolProofs!NotifyOne,
         PoolProofs!Work, PoolProofs!Lock, PoolProofs!Inside, PoolProofs!CheckPredicate,
         PoolProofs!Block, PoolProofs!Return, PoolProofs!MayLeave, PoolProofs!TakeJob,
         PoolProofs!Popped, PoolProofs!RunJob, PoolProofs!AfterJob, PoolProofs!SpuriousWakeup,
         PoolProofs!ClearActive, PoolProofs!NotifyAll, PoolProofs!Join, PoolProofs!Joinable
<1>3. ServerTypeOK /\ Order /\ [Next]_vars =>
        [Pool!Next]_<<jobs, active, owner, pc, job, closing, sent, ran>>
  BY <1>2, PoolStep DEF poolVars
<1> QED
  BY <1>1, <1>3, OrderAlways, PTL DEF Spec, UsesPoolAsSpecified, Pool!Spec, Pool!vars

(* Map and files are destroyed when no handler runs and no snapshot is taken. *)
THEOREM StorageCorrect == Spec => []StorageOutlivesUsers
<1>1. PoolProofs!IInv /\ ServerTypeOK /\ Order => StorageOutlivesUsers
  <2> SUFFICES ASSUME PoolProofs!IInv, ServerTypeOK, Order
               PROVE  StorageOutlivesUsers
    OBVIOUS
  <2>1. at \in 1 .. 29
    BY MainIs DEF ServerTypeOK
  <2>2. at > 28 => closing = "joined" /\ ticker["scheduler"] = "ended"
    BY <2>1 DEF Order
  <2>3. closing = "joined" => \A t \in Threads : pc[t] = "gone"
    BY DEF PoolProofs!IInv, PoolProofs!ClosingOrder
  <2> QED
    BY <2>1, <2>2, <2>3, PastIs, Zenon DEF StorageOutlivesUsers
<1> QED
  BY <1>1, OrderInvariant, PTL

(* Event loop, connections and sessions are destroyed when the threads that  *)
(* work on them have ended.                                                  *)
THEOREM NetworkCorrect == Spec => []NetworkOutlivesThreads
<1>1. ServerTypeOK /\ Order => NetworkOutlivesThreads
  <2> SUFFICES ASSUME ServerTypeOK, Order
               PROVE  NetworkOutlivesThreads
    OBVIOUS
  <2>1. at \in 1 .. 29
    BY MainIs DEF ServerTypeOK
  <2>2. /\ at > 16 => loop \in {"off", "ended"} /\ acc.pc = "ended"
        /\ at > 21 => ticker["sweeper"] = "ended"
    BY <2>1 DEF Order
  <2> QED
    BY <2>1, <2>2, PastIs, Zenon DEF NetworkOutlivesThreads
<1> QED
  BY <1>1, OrderInvariant, PTL

(* The second stop leaves no connection and no session, whatever was         *)
(* registered during the first.                                              *)
THEOREM NothingLeftCorrect == Spec => []NothingLeftToExpire
<1>1. ServerTypeOK /\ Order => NothingLeftToExpire
  <2> SUFFICES ASSUME ServerTypeOK, Order
               PROVE  NothingLeftToExpire
    OBVIOUS
  <2>1. at \in 1 .. 29
    BY MainIs DEF ServerTypeOK
  <2>2. at > 16 => connections = {} /\ sessions = {}
    BY <2>1 DEF Order
  <2> QED
    BY <2>1, <2>2, PastIs, Zenon DEF NothingLeftToExpire
<1> QED
  BY <1>1, OrderInvariant, PTL

=============================================================================
