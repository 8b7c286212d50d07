----------------------------- MODULE Connections -----------------------------
(***************************************************************************)
(* The life of client connections in Server: the accept thread registers   *)
(* them, the event loop turns epoll's one-shot readiness into jobs, pool   *)
(* workers run messageHandler and re-arm the socket, and the session       *)
(* sweeper queues the sockets of idle sessions for the event loop to close.*)
(* Threads name a connection by its file descriptor, which the kernel      *)
(* hands out again once it is closed.                                      *)
(*                                                                         *)
(* A step is one system call or one operation on a shared container. The   *)
(* calls of closeConnection are one step, and so is each operation on the  *)
(* unsynchronised map `connections`.                                       *)
(***************************************************************************)
EXTENDS Naturals, Sequences, FiniteSets

CONSTANTS
    Clients,    \* TCP connections clients make, each once
    Keys,       \* session keys: address and port of the peer
    Peers,      \* which address and port each connection may come from
    Fds,        \* file descriptors the process may have open for clients
    Workers,    \* the pool's threads
    None,
    MaxSends,   \* bound: commands all clients send
    MaxIdle     \* bound: times a session has been idle for too long

ASSUME ConstantsAssumption ==
    /\ Peers \subseteq [Clients -> Keys]
    /\ None \notin Clients \union Fds
    /\ MaxSends \in Nat /\ MaxIdle \in Nat

VARIABLES
    (* Clients and the kernel. *)
    peer,       \* peer[c]: the address and port connection c comes from
    client,     \* client[c]: "out", "in", "hungup" (FIN sent) or "reset"
    backlog,    \* connections accept() has not returned yet
    sent,       \* commands sent so far
    input,      \* input[c]: commands in c's receive buffer
    sock,       \* sock[f]: the connection descriptor f denotes, or None
    reg,        \* reg[f]: f in the epoll set: "none", "armed" or "muted"
    (* The server's shared state. *)
    connections,\* connections[f]: the Connection registered under f, or None
    sessions,   \* sessions[k]: the UserSession's [fd, conn, idle], or None
    expired,    \* expiredSockets
    jobs,       \* the pool's queue of messageHandler jobs
    idled,      \* times a session has been idle for too long
    (* The threads. *)
    acc,        \* accept thread: [pc, conn, fd]
    loopPc,     \* event loop: "top", "closing", "dispatch"
    toClose,    \* event loop: the swapped-out expired sockets
    events,     \* event loop: the entries of wait() still to be handled
    pc,         \* pc[w]: "idle", "recv", "reply", "rearm"
    job,        \* job[w]: the [fd, conn] its messageHandler was given
    blockedOn,  \* blockedOn[w]: the connection its recv is blocked on, or None
    (* History. *)
    crossed,    \* a descriptor was used for another connection than was meant
    reused      \* keys under which a connection was accepted while the server
                \* still kept something of an earlier one

kernelVars == <<peer, client, backlog, sent, input>>
loopVars == <<loopPc, toClose, events>>
workerVars == <<pc, job, blockedOn>>
vars == <<peer, client, backlog, sent, input, sock, reg, connections, sessions, expired, jobs,
          idled, acc, loopPc, toClose, events, pc, job, blockedOn, crossed, reused>>

(* A descriptor as a thread remembers it, with the connection it stood for. *)
Handles == [fd : Fds, conn : Clients]

ASSUME NoneIsNoHandle == None \notin Handles

(* A UserSession: idle once its last activity is longer ago than it may be.  *)
UserSessions == [fd : Fds, conn : Clients, idle : BOOLEAN]

(* An EventLoopEntry, its kind settled when epoll_wait returned. *)
Entries == [fd : Fds, conn : Clients, event : {"Readable", "HangUp"}]

(* The accept thread between two connections, and after its loop has ended. *)
Ended == [pc |-> "ended", conn |-> None, fd |-> None]

Idle == [pc |-> "accept", conn |-> None, fd |-> None]

Open(f) == sock[f] # None

(* Using handle h now reaches another connection. *)
Crosses(h) == sock[h.fd] \notin {None, h.conn}

Init ==
    /\ peer \in Peers
    /\ client = [c \in Clients |-> "out"]
    /\ backlog = {}
    /\ sent = 0
    /\ input = [c \in Clients |-> 0]
    /\ sock = [f \in Fds |-> None]
    /\ reg = [f \in Fds |-> "none"]
    /\ connections = [f \in Fds |-> None]
    /\ sessions = [k \in Keys |-> None]
    /\ expired = <<>>
    /\ jobs = <<>>
    /\ idled = 0
    /\ acc = Idle
    /\ loopPc = "top"
    /\ toClose = <<>>
    /\ events = {}
    /\ pc = [w \in Workers |-> "idle"]
    /\ job = [w \in Workers |-> None]
    /\ blockedOn = [w \in Workers |-> None]
    /\ crossed = FALSE
    /\ reused = {}

-----------------------------------------------------------------------------
(* Clients. *)

(* A peer address and port serve one connection at a time: they can be used  *)
(* again once the kernel has dropped the earlier connection, after a reset   *)
(* without the server's doing.                                               *)
Connect(c) ==
    /\ client[c] = "out"
    /\ \A d \in Clients \ {c} : peer[d] = peer[c] => client[d] \in {"out", "reset"}
    /\ client' = [client EXCEPT ![c] = "in"]
    /\ backlog' = backlog \union {c}
    /\ UNCHANGED <<peer, sent, input, sock, reg, connections, sessions, expired, jobs, idled,
                   acc, loopVars, workerVars, crossed, reused>>

Send(c) ==
    /\ client[c] = "in"
    /\ sent < MaxSends
    /\ sent' = sent + 1
    /\ input' = [input EXCEPT ![c] = input[c] + 1]
    /\ UNCHANGED <<peer, client, backlog, sock, reg, connections, sessions, expired, jobs,
                   idled, acc, loopVars, workerVars, crossed, reused>>

(* The client closes: what it sent stays readable after a FIN, not after a reset. *)
Leave(c, how) ==
    /\ client[c] = "in"
    /\ client' = [client EXCEPT ![c] = how]
    /\ input' = IF how = "reset" THEN [input EXCEPT ![c] = 0] ELSE input
    /\ UNCHANGED <<peer, backlog, sent, sock, reg, connections, sessions, expired, jobs,
                   idled, acc, loopVars, workerVars, crossed, reused>>

-----------------------------------------------------------------------------
(* UserSessionManager, under its mutex. *)

RemoveSession(k) == [sessions EXCEPT ![k] = None]

(* A session that is gone is not missed. *)
UpdateActivity(k) ==
    IF sessions[k] = None THEN sessions ELSE [sessions EXCEPT ![k].idle = FALSE]

(* closeConnection(f): stop watching, drop session and Connection, close.    *)
CloseConnection(h) ==
    LET f == h.fd
    IN  /\ reg' = [reg EXCEPT ![f] = "none"]
        /\ sessions' = IF connections[f] = None THEN sessions
                       ELSE RemoveSession(peer[connections[f]])
        /\ connections' = [connections EXCEPT ![f] = None]
        /\ sock' = [sock EXCEPT ![f] = None]
        /\ crossed' = (crossed \/ Crosses(h))

-----------------------------------------------------------------------------
(* acceptClients. *)

(* The server still has a session, a socket or a Connection under key k. *)
Lingers(k) ==
    \/ sessions[k] # None
    \/ \E f \in Fds : \/ Open(f) /\ peer[sock[f]] = k
                      \/ connections[f] # None /\ peer[connections[f]] = k

(* accept() returns a connection under a free descriptor, in blocking mode. *)
Accept(c, f) ==
    /\ acc = Idle
    /\ c \in backlog
    /\ ~Open(f)
    /\ backlog' = backlog \ {c}
    /\ sock' = [sock EXCEPT ![f] = c]
    /\ acc' = [pc |-> "limit", conn |-> c, fd |-> f]
    /\ reused' = IF Lingers(peer[c]) THEN reused \union {peer[c]} ELSE reused
    /\ UNCHANGED <<peer, client, sent, input, reg, connections, sessions, expired, jobs,
                   idled, loopVars, workerVars, crossed>>

(* accept() fails, for want of descriptors (the files take some too) or of   *)
(* memory, or because the connection is gone: the loop ends for good.        *)
AcceptFails ==
    /\ acc = Idle
    /\ backlog # {}
    /\ acc' = Ended
    /\ UNCHANGED <<kernelVars, sock, reg, connections, sessions, expired, jobs, idled,
                   loopVars, workerVars, crossed, reused>>

(* The rate limiter refuses: the socket is closed. *)
Refuse ==
    /\ acc.pc = "limit"
    /\ crossed' = (crossed \/ Crosses([fd |-> acc.fd, conn |-> acc.conn]))
    /\ sock' = [sock EXCEPT ![acc.fd] = None]
    /\ reg' = [reg EXCEPT ![acc.fd] = "none"]
    /\ acc' = Idle
    /\ UNCHANGED <<kernelVars, connections, sessions, expired, jobs, idled, loopVars,
                   workerVars, reused>>

(* add_session: a session that already exists under the key is left alone. *)
AddSession ==
    LET k == peer[acc.conn]
    IN  /\ acc.pc = "limit"
        /\ IF sessions[k] # None THEN UNCHANGED sessions
           ELSE sessions' = [sessions EXCEPT
                    ![k] = [fd |-> acc.fd, conn |-> acc.conn, idle |-> FALSE]]
        /\ acc' = [acc EXCEPT !.pc = "session"]
        /\ UNCHANGED <<kernelVars, sock, reg, connections, expired, jobs, idled, loopVars,
                       workerVars, crossed, reused>>

(* setNonBlocking succeeds. *)
SetNonBlocking ==
    /\ acc.pc = "session"
    /\ Open(acc.fd)
    /\ acc' = [acc EXCEPT !.pc = "ready"]
    /\ UNCHANGED <<kernelVars, sock, reg, connections, sessions, expired, jobs, idled,
                   loopVars, workerVars, crossed, reused>>

(* setNonBlocking fails on a closed descriptor: session and socket are given up. *)
DropClient ==
    /\ acc.pc = "session"
    /\ ~Open(acc.fd)
    /\ sessions' = RemoveSession(peer[acc.conn])
    /\ acc' = Idle
    /\ UNCHANGED <<kernelVars, sock, reg, connections, expired, jobs, idled, loopVars,
                   workerVars, crossed, reused>>

(* The Connection is entered into the map, though the socket may have been   *)
(* closed by now: then the entry is stale until the descriptor is used again.*)
PutConnection ==
    /\ acc.pc = "ready"
    /\ connections' = [connections EXCEPT ![acc.fd] = acc.conn]
    /\ acc' = [acc EXCEPT !.pc = "put"]
    /\ UNCHANGED <<kernelVars, sock, reg, sessions, expired, jobs, idled, loopVars,
                   workerVars, crossed, reused>>

(* EpollEventLoop::add; its failure on a closed descriptor goes unnoticed. *)
AddToLoop ==
    /\ acc.pc = "put"
    /\ reg' = IF Open(acc.fd) THEN [reg EXCEPT ![acc.fd] = "armed"] ELSE reg
    /\ acc' = Idle
    /\ UNCHANGED <<kernelVars, sock, connections, sessions, expired, jobs, idled,
                   loopVars, workerVars, crossed, reused>>

-----------------------------------------------------------------------------
(* Time passes: a session's last activity is longer ago than it may be. *)
GoIdle(k) ==
    /\ sessions[k] # None
    /\ ~sessions[k].idle
    /\ idled < MaxIdle
    /\ idled' = idled + 1
    /\ sessions' = [sessions EXCEPT ![k].idle = TRUE]
    /\ UNCHANGED <<kernelVars, sock, reg, connections, expired, jobs, acc, loopVars,
                   workerVars, crossed, reused>>

(* Mutant: the comparison is the wrong way round. *)
IsExpiredInverted(k) == sessions[k] # None /\ ~sessions[k].idle

IsExpired(k) == sessions[k] # None /\ sessions[k].idle

(* Mutant: the session is erased without the callback. *)
OnSessionExpiredUnset(h) == UNCHANGED expired

(* The callback queues the session's socket for the event loop. *)
OnSessionExpired(h) == expired' = Append(expired, h)

(* cleanup_expired_sessions, run by the sweeper again and again, meets an    *)
(* expired session: callback, then erase.                                    *)
Expire(k) ==
    /\ IsExpired(k)
    /\ OnSessionExpired([fd |-> sessions[k].fd, conn |-> sessions[k].conn])
    /\ sessions' = [sessions EXCEPT ![k] = None]
    /\ UNCHANGED <<kernelVars, sock, reg, connections, jobs, idled, acc, loopVars,
                   workerVars, crossed, reused>>

-----------------------------------------------------------------------------
(* runEventLoop. *)

SwapExpired ==
    /\ loopPc = "top"
    /\ toClose' = expired
    /\ expired' = <<>>
    /\ loopPc' = "closing"
    /\ UNCHANGED <<kernelVars, sock, reg, connections, sessions, jobs, idled, acc, events,
                   workerVars, crossed, reused>>

CloseExpired ==
    /\ loopPc = "closing"
    /\ toClose # <<>>
    /\ CloseConnection(Head(toClose))
    /\ toClose' = Tail(toClose)
    /\ UNCHANGED <<kernelVars, expired, jobs, idled, acc, loopPc, events, workerVars, reused>>

Ready(f) ==
    /\ reg[f] = "armed"
    /\ input[sock[f]] > 0 \/ client[sock[f]] \in {"hungup", "reset"}

(* A reset raises EPOLLHUP; a FIN does not, since EPOLLRDHUP is not watched. *)
Entry(f) ==
    [fd |-> f, conn |-> sock[f],
     event |-> IF client[sock[f]] = "reset" THEN "HangUp" ELSE "Readable"]

(* epoll_wait returns every armed descriptor with something to report, and   *)
(* mutes it (EPOLLONESHOT); after a second it returns nothing.               *)

Wait ==
    /\ loopPc = "closing"
    /\ toClose = <<>>
    /\ events' = {Entry(f) : f \in {g \in Fds : Ready(g)}}
    /\ reg' = [f \in Fds |-> IF Ready(f) THEN "muted" ELSE reg[f]]
    /\ loopPc' = IF events' = {} THEN "top" ELSE "dispatch"
    /\ UNCHANGED <<kernelVars, sock, connections, sessions, expired, jobs, idled, acc,
                   toClose, workerVars, crossed, reused>>

EventDone(e) ==
    /\ events' = events \ {e}
    /\ loopPc' = IF events' = {} THEN "top" ELSE "dispatch"

(* Mutant: connections[] without looking whether the entry exists. *)
FoundUnchecked(f) == TRUE

Found(f) == connections[f] # None

(* Readable: the Connection found under the descriptor goes to the pool. *)
Dispatch(e) ==
    /\ e \in events
    /\ e.event = "Readable"
    /\ jobs' = IF Found(e.fd) THEN Append(jobs, [fd |-> e.fd, conn |-> connections[e.fd]])
               ELSE jobs
    /\ crossed' = (crossed \/ Crosses(e))
    /\ EventDone(e)
    /\ UNCHANGED <<kernelVars, sock, reg, connections, sessions, expired, idled, acc,
                   toClose, workerVars, reused>>

(* HangUp or Error: the loop closes the connection itself. *)
DispatchHangUp(e) ==
    /\ e \in events
    /\ e.event = "HangUp"
    /\ CloseConnection(e)
    /\ EventDone(e)
    /\ UNCHANGED <<kernelVars, expired, jobs, idled, acc, toClose, workerVars, reused>>

-----------------------------------------------------------------------------
(* A worker: messageHandler. *)

TakeJob(w) ==
    /\ pc[w] = "idle"
    /\ jobs # <<>>
    /\ job' = [job EXCEPT ![w] = Head(jobs)]
    /\ jobs' = Tail(jobs)
    /\ pc' = [pc EXCEPT ![w] = "recv"]
    /\ UNCHANGED <<kernelVars, sock, reg, connections, sessions, expired, idled, acc,
                   loopVars, blockedOn, crossed, reused>>

EndJob(w) ==
    /\ pc' = [pc EXCEPT ![w] = "idle"]
    /\ job' = [job EXCEPT ![w] = None]
    /\ blockedOn' = [blockedOn EXCEPT ![w] = None]

(* Mutant: the early return for half a command forgets to re-arm. *)
AfterRecvNoRearm == {"reply", "idle"}

(* A whole command is answered; half of one only re-arms. *)
AfterRecv == {"reply", "rearm"}

(* The connection recv reads: the one it is blocked on, even if the          *)
(* descriptor was closed or made non-blocking since; or the descriptor's.    *)
Source(w) == IF blockedOn[w] # None THEN blockedOn[w] ELSE sock[job[w].fd]

(* The socket is still as accept() returned it. *)
Blocking(f) == acc.fd = f /\ acc.pc \in {"limit", "session"}

NothingToRead(d) == d # None /\ input[d] = 0 /\ client[d] = "in"

(* recv returns bytes. *)
Recv(w) ==
    LET d == Source(w)
    IN  /\ pc[w] = "recv"
        /\ d # None /\ input[d] > 0
        /\ input' = [input EXCEPT ![d] = input[d] - 1]
        /\ \E next \in AfterRecv : pc' = [pc EXCEPT ![w] = next]
        /\ blockedOn' = [blockedOn EXCEPT ![w] = None]
        /\ crossed' = (crossed \/ Crosses(job[w]))
        /\ UNCHANGED <<peer, client, backlog, sent, sock, reg, connections, sessions, expired,
                       jobs, idled, acc, loopVars, job, reused>>

(* recv has nothing to read. *)
RecvWouldBlock(w) ==
    /\ pc[w] = "recv"
    /\ blockedOn[w] = None
    /\ NothingToRead(sock[job[w].fd])
    /\ ~Blocking(job[w].fd)
    /\ pc' = [pc EXCEPT ![w] = "rearm"]
    /\ UNCHANGED <<kernelVars, sock, reg, connections, sessions, expired, jobs, idled,
                   acc, loopVars, job, blockedOn, crossed, reused>>

(* A job left of an earlier connection reads from one just accepted under    *)
(* its descriptor: recv blocks until that client sends or leaves.            *)
RecvBlocks(w) ==
    /\ pc[w] = "recv"
    /\ blockedOn[w] = None
    /\ NothingToRead(sock[job[w].fd])
    /\ Blocking(job[w].fd)
    /\ blockedOn' = [blockedOn EXCEPT ![w] = sock[job[w].fd]]
    /\ crossed' = (crossed \/ Crosses(job[w]))
    /\ UNCHANGED <<kernelVars, sock, reg, connections, sessions, expired, jobs, idled,
                   acc, loopVars, pc, job, reused>>

(* recv returns 0 or an error, or the command buffer overflows: close. *)
RecvClose(w) ==
    LET d == Source(w)
    IN  /\ pc[w] = "recv"
        /\ ~NothingToRead(d)
        /\ input' = IF d # None THEN [input EXCEPT ![d] = 0] ELSE input
        /\ CloseConnection(job[w])
        /\ EndJob(w)
        /\ UNCHANGED <<peer, client, backlog, sent, expired, jobs, idled, acc, loopVars, reused>>

(* update_activity, under the key of the Connection and if it still has a    *)
(* session; then the command is carried out, and its answer goes to whoever  *)
(* has the descriptor.                                                       *)
Reply(w) ==
    /\ pc[w] = "reply"
    /\ sessions' = UpdateActivity(peer[job[w].conn])
    /\ pc' = [pc EXCEPT ![w] = "rearm"]
    /\ crossed' = (crossed \/ Crosses(job[w]))
    /\ UNCHANGED <<kernelVars, sock, reg, connections, expired, jobs, idled, acc,
                   loopVars, job, blockedOn, reused>>


Rearmed(f) == [reg EXCEPT ![f] = "armed"]

(* rearmSocket: EPOLL_CTL_MOD, which fails where the descriptor is not watched. *)
Rearm(w) ==
    LET f == job[w].fd
    IN  /\ pc[w] = "rearm"
        /\ IF reg[f] # "none"
           THEN /\ reg' = Rearmed(f)
                /\ crossed' = (crossed \/ Crosses(job[w]))
                /\ UNCHANGED <<sock, connections, sessions>>
           ELSE CloseConnection(job[w])
        /\ EndJob(w)
        /\ UNCHANGED <<kernelVars, expired, jobs, idled, acc, loopVars, reused>>

-----------------------------------------------------------------------------

ClientStep(c) == Connect(c) \/ Send(c) \/ Leave(c, "hungup") \/ Leave(c, "reset")

AcceptStep ==
    \/ \E c \in Clients, f \in Fds : Accept(c, f)
    \/ AcceptFails
    \/ Refuse
    \/ AddSession
    \/ SetNonBlocking
    \/ DropClient
    \/ PutConnection
    \/ AddToLoop

LoopStep ==
    \/ SwapExpired
    \/ CloseExpired
    \/ Wait
    \/ \E e \in events : Dispatch(e) \/ DispatchHangUp(e)

WorkerStep(w) ==
    \/ TakeJob(w)
    \/ Recv(w)
    \/ RecvWouldBlock(w)
    \/ RecvBlocks(w)
    \/ RecvClose(w)
    \/ Reply(w)
    \/ Rearm(w)

Next ==
    \/ \E c \in Clients : ClientStep(c)
    \/ AcceptStep
    \/ \E k \in Keys : GoIdle(k) \/ Expire(k)
    \/ LoopStep
    \/ \E w \in Workers : WorkerStep(w)

Spec == Init /\ [][Next]_vars

(* The accept thread, the event loop, the workers and the sweeper keep running. *)
FairSpec ==
    /\ Spec
    /\ WF_vars(AcceptStep)
    /\ WF_vars(LoopStep)
    /\ \A w \in Workers : WF_vars(WorkerStep(w))
    /\ \A k \in Keys : WF_vars(Expire(k))

-----------------------------------------------------------------------------

(* A job always has a Connection, a running handler has its job, and only an *)
(* open descriptor is in the epoll set.                                      *)
TypeOK ==
    /\ peer \in [Clients -> Keys]
    /\ client \in [Clients -> {"out", "in", "hungup", "reset"}]
    /\ backlog \in SUBSET Clients
    /\ sent \in 0 .. MaxSends
    /\ input \in [Clients -> 0 .. MaxSends]
    /\ sock \in [Fds -> Clients \union {None}]
    /\ reg \in [Fds -> {"none", "armed", "muted"}]
    /\ \A f \in Fds : reg[f] # "none" => Open(f)
    /\ connections \in [Fds -> Clients \union {None}]
    /\ sessions \in [Keys -> UserSessions \union {None}]
    /\ expired \in Seq(Handles)
    /\ jobs \in Seq(Handles)
    /\ idled \in 0 .. MaxIdle
    /\ acc \in {Idle, Ended} \/ acc \in [pc : {"limit", "session", "ready", "put"}, conn : Clients, fd : Fds]
    /\ loopPc \in {"top", "closing", "dispatch"}
    /\ toClose \in Seq(Handles)
    /\ events \in SUBSET Entries
    /\ pc \in [Workers -> {"idle", "recv", "reply", "rearm"}]
    /\ job \in [Workers -> Handles \union {None}]
    /\ \A w \in Workers : pc[w] # "idle" => job[w] # None
    /\ blockedOn \in [Workers -> Clients \union {None}]
    /\ crossed \in BOOLEAN
    /\ reused \subseteq Keys

(* Where a handler for the connection behind a socket can be: reported,      *)
(* queued or running. What is left of an earlier connection is not counted.  *)
Handlers(f) ==
    {<<"event", e>> : e \in {x \in events : x.fd = f /\ x.conn = sock[f]}} \union
    {<<"job", i>> : i \in {n \in DOMAIN jobs : jobs[n] = [fd |-> f, conn |-> sock[f]]}} \union
    {<<"worker", w>> : w \in {x \in Workers : /\ pc[x] # "idle"
                                              /\ job[x] = [fd |-> f, conn |-> sock[f]]}}

(* Server.h on rearmSocket: a muted socket "will stay dead forever unless    *)
(* re-armed". While no descriptor was confused with another, a watched       *)
(* socket is muted exactly while one handler, and only one, has it: none is  *)
(* forgotten and no two run for one connection.                              *)
OneHandlerWhileMuted ==
    ~crossed => \A f \in Fds :
        /\ reg[f] = "armed" => Handlers(f) = {}
        /\ reg[f] = "muted" => Cardinality(Handlers(f)) = 1

(* The accept thread has the socket, and has not entered it into the map. *)
InHand(f) == acc.fd = f /\ acc.pc \in {"limit", "session", "ready"}

(* The socket's session can expire, or has expired and is to be closed. *)
WillExpire(f) ==
    LET c == sock[f]
        h == [fd |-> f, conn |-> c]
    IN  \/ sessions[peer[c]] \in {[fd |-> f, conn |-> c, idle |-> b] : b \in BOOLEAN}
        \/ \E i \in DOMAIN expired : expired[i] = h
        \/ \E i \in DOMAIN toClose : toClose[i] = h

(* Even when descriptors are confused every open socket is with the accept   *)
(* thread or in the map, where stop and hang-ups find it; and it has a       *)
(* session that can expire, or has expired and waits to be closed, unless a  *)
(* client came back from its address and port while the server still kept    *)
(* something of the connection before.                                       *)
NoSocketForgotten ==
    \A f \in Fds : Open(f) /\ ~InHand(f) =>
        /\ connections[f] = sock[f]
        /\ peer[sock[f]] \notin reused => WillExpire(f)


(* A session that has been idle for too long is used again or its socket is  *)
(* closed, unless another connection was accepted under its key meanwhile.   *)
IdleSocketsAreClosed ==
    \A c \in Clients :
        LET accepted == \E f \in Fds : sock[f] = c
            session(b) == \E f \in Fds : sessions[peer[c]] = [fd |-> f, conn |-> c, idle |-> b]
        IN  (accepted /\ session(TRUE)) ~> (~accepted \/ session(FALSE) \/ peer[c] \in reused)

(* UserSession.h: the manager of the sessions "tracks idle times to          *)
(* automatically clean up expired connections": no registered socket is left *)
(* that can never expire.                                                    *)
EverySocketExpires ==
    \A f \in Fds : Open(f) /\ ~InHand(f) => WillExpire(f)

(* README, Concurrency Model: a guard "Prevents duplicate recv() jobs for    *)
(* the same socket".                                                         *)
OneJobPerSocket ==
    \A f \in Fds :
        Cardinality({i \in DOMAIN jobs : jobs[i].fd = f}) +
        Cardinality({w \in Workers : pc[w] # "idle" /\ job[w].fd = f}) <= 1

=============================================================================
