------------------------------ MODULE Lifecycle ------------------------------
(***************************************************************************)
(* The life of the process: main starts the server, waits for the request  *)
(* to stop, calls Server::stop, joins the accept thread and returns, upon  *)
(* which ~Server calls stop again and the members are destroyed, the last  *)
(* one declared first. Meanwhile the accept thread, the event loop, the    *)
(* pool (ThreadPool, instantiated here), the snapshot scheduler and the    *)
(* session sweeper use those members.                                      *)
(*                                                                         *)
(* A step is one statement of main, stop or a destructor, or what another  *)
(* thread does between two points where it looks at a flag. What handlers, *)
(* snapshots and sweeps do is modelled in the other modules; here it       *)
(* matters when they run and what they leave behind.                       *)
(***************************************************************************)
EXTENDS Naturals, Sequences

CONSTANTS
    Threads,    \* the pool's threads
    Sockets,    \* the connections clients make; each sends one command
    NoJob,
    NoOne

ASSUME ConstantsAssumption ==
    /\ Threads # {}
    /\ NoJob \notin Sockets
    /\ NoOne \notin Threads

VARIABLES
    at,         \* main: the index in Main of the statement it is at
    running,
    listening,  \* serverSocket is open
    acc,        \* accept thread: [pc, sock]
    loop,       \* event loop: "off", "test", "wait", "dispatch", "submit", "ended"
    found,      \* event loop: the connection it has found, until it is submitted
    connections,\* the sockets in connections
    sessions,   \* the sockets that have a session
    expired,    \* expiredSockets
    ticker,     \* ticker[p]: periodic thread p: "test", "blocking", "asleep",
                \*            "callback", "ended"
    ticking,    \* ticking[p]: its flag active
    (* The pool. *)
    jobs, active, owner, pc, job, closing, sent, ran

Pool == INSTANCE ThreadPool WITH Jobs <- Sockets

poolVars == <<jobs, active, owner, pc, job, closing, sent, ran>>
netVars == <<connections, sessions, expired>>
tickVars == <<ticker, ticking>>
vars == <<at, running, listening, acc, loop, found, connections, sessions, expired, ticker,
          ticking, jobs, active, owner, pc, job, closing, sent, ran>>

(* The threads of SnapshotScheduler and UserSessionBackgroundWorker. *)
Periodic == {"scheduler", "sweeper"}

(* Mutant: stop waits for the event loop before it tells it to end. *)
StopFirstJoins == "join loop"

StopFirst == "clear running"

(* Mutant: stop does not wait for the event loop. *)
StopLastUnjoined == "close listener"

StopLast == "join loop"

(* main, statement by statement: the server starts; stop; then ~Server calls *)
(* stop again and destroys the members, from the last declared to the first. *)
Main ==
    <<"load", "start loop", "start accept", "await stop",
      StopFirst, "close connections", "close sessions", "close listener", StopLast,
      "join accept",
      StopFirst, "close connections", "close sessions", "close listener", StopLast,
      "destroy expiredSockets", "destroy eventLoop", "destroy connections",
      "stop sweeper", "join sweeper", "destroy sessions", "destroy limiter",
      "stop scheduler", "join scheduler", "clear active", "notify", "join pool",
      "destroy storage", "exited">>

Await == CHOOSE i \in DOMAIN Main : Main[i] = "await stop"

At(s) == Main[at] = s

(* main has gone past the statement s of its block's end. *)
Past(s) == \E i \in DOMAIN Main : Main[i] = s /\ i < at

Init ==
    /\ at = 1
    /\ running = TRUE
    /\ listening = TRUE
    /\ acc = [pc |-> "off", sock |-> NoJob]
    /\ loop = "off" /\ found = NoJob
    /\ connections = {} /\ sessions = {} /\ expired = {}
    /\ ticker = [p \in Periodic |-> "test"]
    /\ ticking = [p \in Periodic |-> TRUE]
    /\ Pool!Init

-----------------------------------------------------------------------------
(* main. *)

(* main moves on after the statement s. *)
Do(s) == At(s) /\ at' = at + 1

(* Statements that only wait for other threads, or end a member nobody else *)
(* has to be told of. "await stop" ends with a signal or the word stop.     *)
CanPass(s) ==
    \/ s = "join loop" /\ loop \in {"off", "ended"}
    \/ s = "join accept" /\ acc.pc = "ended"
    \/ s = "join sweeper" /\ ticker["sweeper"] = "ended"
    \/ s = "join scheduler" /\ ticker["scheduler"] = "ended"
    \/ s \in {"load", "await stop", "destroy expiredSockets", "destroy eventLoop",
              "destroy connections", "destroy sessions", "destroy limiter", "destroy storage"}

Pass ==
    /\ CanPass(Main[at])
    /\ at' = at + 1
    /\ UNCHANGED <<running, listening, acc, loop, found, netVars, tickVars, poolVars>>

StartLoop ==
    /\ Do("start loop")
    /\ loop' = "test"
    /\ UNCHANGED <<running, listening, acc, found, netVars, tickVars, poolVars>>

StartAccept ==
    /\ Do("start accept")
    /\ acc' = [acc EXCEPT !.pc = "test"]
    /\ UNCHANGED <<running, listening, loop, found, netVars, tickVars, poolVars>>

ClearRunning ==
    /\ Do("clear running")
    /\ running' = FALSE
    /\ UNCHANGED <<listening, acc, loop, found, netVars, tickVars, poolVars>>

(* Mutant: what is closed is not forgotten. *)
ClosedKept(S) == S

Closed(S) == {}

CloseConnections ==
    /\ Do("close connections")
    /\ connections' = Closed(connections)
    /\ UNCHANGED <<running, listening, acc, loop, found, sessions, expired, tickVars, poolVars>>

(* close_all_sessions. *)
CloseSessions ==
    /\ Do("close sessions")
    /\ sessions' = Closed(sessions)
    /\ UNCHANGED <<running, listening, acc, loop, found, connections, expired, tickVars, poolVars>>

CloseListener ==
    /\ Do("close listener")
    /\ listening' = FALSE
    /\ UNCHANGED <<running, acc, loop, found, netVars, tickVars, poolVars>>

(* ~SnapshotScheduler and ~UserSessionBackgroundWorker clear active, without *)
(* the mutex, and notify: a thread that is asleep wakes.                     *)
StopPeriodic(p) ==
    /\ Do(IF p = "sweeper" THEN "stop sweeper" ELSE "stop scheduler")
    /\ ticking' = [ticking EXCEPT ![p] = FALSE]
    /\ ticker' = [ticker EXCEPT ![p] = IF ticker[p] = "asleep" THEN "test" ELSE ticker[p]]
    /\ UNCHANGED <<running, listening, acc, loop, found, netVars, poolVars>>

(* ~ThreadPool. *)
StopPool ==
    /\ \/ Do("clear active") /\ Pool!ClearActive
       \/ Do("notify") /\ Pool!NotifyAll
       \/ Do("join pool") /\ Pool!Join
    /\ UNCHANGED <<running, listening, acc, loop, found, netVars, tickVars>>

-----------------------------------------------------------------------------
(* acceptClients. *)

AcceptGoto(from, to) ==
    /\ acc.pc = from
    /\ acc' = [acc EXCEPT !.pc = to]
    /\ UNCHANGED <<at, running, listening, loop, found, tickVars, poolVars>>

(* while (running) accept(...): on a closed descriptor accept fails at once. *)
AcceptTest ==
    /\ AcceptGoto("test", IF running /\ listening THEN "blocked" ELSE "ended")
    /\ UNCHANGED netVars

(* A client connects. A thread blocked in accept holds on to the listening   *)
(* socket: closing the descriptor does not wake it, the next client does.    *)
Accept(s) ==
    /\ acc.pc = "blocked"
    /\ s \notin sent \union connections \union sessions \union expired
    /\ acc' = [pc |-> "accepted", sock |-> s]
    /\ UNCHANGED <<at, running, listening, loop, found, netVars, tickVars, poolVars>>

(* The rate limiter refuses the client. *)
Refuse == AcceptGoto("accepted", "test") /\ UNCHANGED netVars

(* Mutant: the socket accept returns is not compared with INVALID_SOCKET. *)
AcceptFailsUnseen == AcceptGoto("blocked", "accepted") /\ UNCHANGED netVars

AcceptFails == AcceptGoto("blocked", "ended") /\ UNCHANGED netVars

(* if (!running) break, after the client was accepted. *)
AcceptCheck ==
    /\ AcceptGoto("accepted", IF running THEN "admitted" ELSE "ended")
    /\ UNCHANGED netVars

AddSession ==
    /\ AcceptGoto("admitted", "session")
    /\ sessions' = sessions \union {acc.sock}
    /\ UNCHANGED <<connections, expired>>

PutConnection ==
    /\ AcceptGoto("session", "test")
    /\ connections' = connections \union {acc.sock}
    /\ UNCHANGED <<sessions, expired>>

(* setNonBlocking fails. *)
DropClient ==
    /\ AcceptGoto("session", "test")
    /\ sessions' = sessions \ {acc.sock}
    /\ UNCHANGED <<connections, expired>>

-----------------------------------------------------------------------------
(* runEventLoop. *)

(* closeConnection for each socket of S. *)
CloseSockets(S) ==
    /\ connections' = connections \ S
    /\ sessions' = sessions \ (connections \intersect S)

LoopTop ==
    /\ loop = "test"
    /\ IF running
       THEN loop' = "wait" /\ CloseSockets(expired) /\ expired' = {}
       ELSE loop' = "ended" /\ UNCHANGED netVars
    /\ UNCHANGED <<at, running, listening, acc, found, tickVars, poolVars>>

(* wait returns, with events or after a second without any. *)
LoopWake ==
    /\ loop = "wait"
    /\ loop' = "dispatch"
    /\ UNCHANGED <<at, running, listening, acc, found, netVars, tickVars, poolVars>>

(* A readable socket is looked up in the map. *)
LoopFind(s) ==
    /\ loop = "dispatch"
    /\ s \in connections \ sent
    /\ loop' = "submit"
    /\ found' = s
    /\ UNCHANGED <<at, running, listening, acc, netVars, tickVars, poolVars>>

(* The Connection it found goes to the pool, whatever has been stopped since. *)
LoopSubmit ==
    /\ loop = "submit"
    /\ Pool!AcceptJob(found)
    /\ loop' = "dispatch"
    /\ found' = NoJob
    /\ UNCHANGED <<at, running, listening, acc, netVars, tickVars>>

LoopHangUp(s) ==
    /\ loop = "dispatch"
    /\ CloseSockets({s})
    /\ UNCHANGED <<at, running, listening, acc, loop, found, expired, tickVars, poolVars>>

LoopEventsDone ==
    /\ loop = "dispatch"
    /\ loop' = "test"
    /\ UNCHANGED <<at, running, listening, acc, found, netVars, tickVars, poolVars>>

-----------------------------------------------------------------------------
(* Pool and periodic threads. *)

(* A handler ends; it may have closed its connection. *)
RunHandler(t) ==
    /\ Pool!RunJob(t)
    /\ \E S \in {{}, {job[t]}} : CloseSockets(S)
    /\ UNCHANGED <<at, running, listening, acc, loop, found, expired, tickVars>>

PoolWork(t) ==
    \/ RunHandler(t)
    \/ /\ \/ Pool!Lock(t) \/ Pool!CheckPredicate(t) \/ Pool!Block(t)
          \/ Pool!Return(t) \/ Pool!TakeJob(t)
       /\ UNCHANGED <<at, running, listening, acc, loop, found, netVars, tickVars>>

PoolSpuriousWakeup(t) ==
    /\ Pool!SpuriousWakeup(t)
    /\ UNCHANGED <<at, running, listening, acc, loop, found, netVars, tickVars>>

TickGoto(p, from, to) ==
    /\ ticker[p] = from
    /\ ticker' = [ticker EXCEPT ![p] = to]
    /\ UNCHANGED <<at, running, listening, acc, loop, found, ticking, poolVars>>

(* The loop's condition, and wait_for's predicate, before the thread blocks. *)
TickTest(p) ==
    TickGoto(p, "test", IF ticking[p] THEN "blocking" ELSE "ended") /\ UNCHANGED netVars

TickBlock(p) == TickGoto(p, "blocking", "asleep") /\ UNCHANGED netVars

(* The interval has passed, whether or not a notification was missed. *)
TickTimeout(p) ==
    TickGoto(p, "asleep", IF ticking[p] THEN "callback" ELSE "ended") /\ UNCHANGED netVars

(* createSnapshot ends. *)
SnapshotDone == TickGoto("scheduler", "callback", "test") /\ UNCHANGED netVars

(* cleanup_expired_sessions ends: expired sessions went to onSessionExpired. *)
SweepDone ==
    /\ TickGoto("sweeper", "callback", "test")
    /\ \E E \in SUBSET sessions : sessions' = sessions \ E /\ expired' = expired \union E
    /\ UNCHANGED connections

-----------------------------------------------------------------------------

MainStep ==
    \/ Pass
    \/ StartLoop \/ StartAccept
    \/ ClearRunning \/ CloseConnections \/ CloseSessions \/ CloseListener
    \/ \E p \in Periodic : StopPeriodic(p)
    \/ StopPool

AcceptStep == AcceptTest \/ Refuse \/ AcceptCheck \/ AddSession \/ PutConnection \/ DropClient

LoopStep == LoopTop \/ LoopWake \/ LoopEventsDone

TickStep(p) == TickTest(p) \/ TickBlock(p) \/ TickTimeout(p)

Next ==
    \/ MainStep
    \/ AcceptStep \/ AcceptFails
    \/ LoopStep \/ LoopSubmit
    \/ SnapshotDone \/ SweepDone
    \/ \E s \in Sockets : Accept(s) \/ LoopFind(s) \/ LoopHangUp(s)
    \/ \E t \in Threads : PoolWork(t) \/ PoolSpuriousWakeup(t)
    \/ \E p \in Periodic : TickStep(p)

Spec == Init /\ [][Next]_vars

(* Threads that can run do run, a mutex that is free again and again is      *)
(* granted, time passes and callbacks end. Nobody has to ask for a stop, and *)
(* no client has to connect or send.                                         *)
FairSpec ==
    /\ Spec
    /\ WF_vars(MainStep /\ at # Await)
    /\ WF_vars(AcceptStep)
    /\ WF_vars(LoopStep) /\ SF_vars(LoopSubmit)
    /\ WF_vars(SnapshotDone) /\ WF_vars(SweepDone)
    /\ \A t \in Threads : WF_vars(PoolWork(t))
    /\ \A p \in Periodic : WF_vars(TickStep(p))

-----------------------------------------------------------------------------

ServerTypeOK ==
    /\ at \in DOMAIN Main
    /\ running \in BOOLEAN /\ listening \in BOOLEAN
    /\ acc \in [pc : {"off", "test", "blocked", "accepted", "admitted", "session", "ended"},
               sock : Sockets \union {NoJob}]
    /\ acc.pc \in {"accepted", "admitted", "session"} => acc.sock \in Sockets
    /\ loop \in {"off", "test", "wait", "dispatch", "submit", "ended"}
    /\ found \in Sockets \union {NoJob}
    /\ loop = "submit" => found \in Sockets
    /\ connections \subseteq Sockets /\ sessions \subseteq Sockets /\ expired \subseteq Sockets
    /\ ticker \in [Periodic -> {"test", "blocking", "asleep", "callback", "ended"}]
    /\ ticking \in [Periodic -> BOOLEAN]

(* Every thread is at one of its points; the pool keeps its own types. *)
TypeOK == ServerTypeOK /\ Pool!TypeOK

(* The map and the files outlive whoever uses them: once they are destroyed, *)
(* no handler runs, though jobs still queued at the stop run late, and no    *)
(* snapshot is being taken.                                                  *)
StorageOutlivesUsers ==
    Past("destroy storage") =>
        /\ \A t \in Threads : pc[t] # "running"
        /\ ticker["scheduler"] # "callback"

(* Event loop, connections, limiter and sessions outlive the threads that    *)
(* work on them: the accept thread and the event loop have ended before the  *)
(* first member goes, and no sweep runs when the sessions go.                *)
NetworkOutlivesThreads ==
    /\ Past("destroy expiredSockets") => loop \in {"off", "ended"} /\ acc.pc = "ended"
    /\ Past("destroy sessions") => ticker["sweeper"] # "callback"

(* A client accepted while stop runs may be registered after stop has closed *)
(* everything; the second stop closes it too. So no connection and no        *)
(* session is left, and the sweeper, which still runs, finds none to report  *)
(* to expiredSockets, destroyed before it. (A client accepted when running   *)
(* was already cleared is never registered, nor is its socket closed.)       *)
NothingLeftToExpire ==
    Past("destroy expiredSockets") => connections = {} /\ sessions = {}

(* Once a stop is requested the process ends, also when the scheduler or the *)
(* sweeper misses its notification; unless the accept thread stays blocked   *)
(* because no client comes, or a pool thread, which tests active before it   *)
(* waits, has missed its notification: ~ThreadPool clears active without m.  *)
StopEnds ==
    []<>(at > Await) =>
        \/ <>At("exited")
        \/ <>[](acc.pc = "blocked")
        \/ <>[](closing = "notified" /\ \E t \in Threads : pc[t] = "waiting")

(* ThreadPool.h: the destructor "waits for all threads to finish", and       *)
(* acceptJob does not look whether it has begun. The server keeps to that:   *)
(* the event loop, which may have found a connection just before everything  *)
(* was closed, submits nothing once the pool's end has begun. So the pool in *)
(* the process behaves as ThreadPool specifies it.                           *)
UsesPoolAsSpecified == Pool!Spec

(* README, Graceful Shutdown: "Type `stop` to cleanly flush data and join    *)
(* all threads": a handler finds event loop, connections and sessions alive. *)
HandlersFindTheirMembers ==
    Past("destroy eventLoop") => \A t \in Threads : pc[t] # "running"

=============================================================================
