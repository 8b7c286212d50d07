-------------------------- MODULE ConnectionsProofs --------------------------
(***************************************************************************)
(* Proofs about Connections for any clients, descriptors, workers and      *)
(* addresses, however the threads' steps interleave and however            *)
(* descriptors and addresses are used again: the shapes every thread       *)
(* relies on hold; a watched socket is muted exactly while one handler has *)
(* it, as long as no descriptor was confused with another; and no socket   *)
(* is forgotten, but those whose address came back too early.              *)
(***************************************************************************)
EXTENDS Connections, FiniteSetTheorems, SequenceTheorems, TLAPS

KernelOK ==
    /\ client \in [Clients -> {"out", "in", "hungup", "reset"}]
    /\ backlog \in SUBSET Clients
    /\ sent \in 0 .. MaxSends
    /\ input \in [Clients -> 0 .. MaxSends]
    /\ \A c \in Clients : input[c] <= sent

SocketsOK ==
    /\ sock \in [Fds -> Clients \union {None}]
    /\ reg \in [Fds -> {"none", "armed", "muted"}]
    /\ \A f \in Fds : reg[f] # "none" => Open(f)

TablesOK ==
    /\ connections \in [Fds -> Clients \union {None}]
    /\ sessions \in [Keys -> UserSessions \union {None}]
    /\ crossed \in BOOLEAN

QueuesOK ==
    /\ expired \in Seq(Handles)
    /\ jobs \in Seq(Handles)
    /\ toClose \in Seq(Handles)

AcceptOK ==
    acc \in {Idle, Ended} \/ acc \in [pc : {"limit", "session", "ready", "put"}, conn : Clients, fd : Fds]

LoopOK ==
    /\ loopPc \in {"top", "closing", "dispatch"}
    /\ events \in SUBSET Entries

IdledOK == idled \in 0 .. MaxIdle

WorkersOK ==
    /\ pc \in [Workers -> {"idle", "recv", "reply", "rearm"}]
    /\ job \in [Workers -> Handles \union {None}]
    /\ \A w \in Workers : pc[w] # "idle" => job[w] # None

Basics ==
    /\ peer \in [Clients -> Keys]
    /\ reused \subseteq Keys
    /\ blockedOn \in [Workers -> Clients \union {None}]

(* TypeOK in parts, and that no receive buffer holds more than was sent. *)
IInv ==
    /\ KernelOK /\ SocketsOK /\ TablesOK /\ QueuesOK /\ AcceptOK /\ LoopOK /\ IdledOK
    /\ WorkersOK /\ Basics

-----------------------------------------------------------------------------

(* The server starts with no connections. *)
LEMMA IInvInit == Init => IInv
<1> SUFFICES ASSUME Init
             PROVE  IInv
  OBVIOUS
<1>1. KernelOK /\ IdledOK
  BY ConstantsAssumption DEF Init, KernelOK, IdledOK
<1>2. SocketsOK /\ TablesOK
  BY DEF Init, SocketsOK, TablesOK
<1>3. QueuesOK
  BY DEF Init, QueuesOK
<1>4. AcceptOK /\ LoopOK /\ WorkersOK
  BY DEF Init, AcceptOK, LoopOK, WorkersOK
<1>5. Basics
  BY ConstantsAssumption DEF Init, Basics
<1> QED
  BY <1>1, <1>2, <1>3, <1>4, <1>5 DEF IInv

(* What each part of the invariant depends on. *)
LEMMA Unchanged ==
    ASSUME IInv
    PROVE  /\ UNCHANGED <<client, backlog, sent, input>> => KernelOK'
           /\ UNCHANGED <<sock, reg>> => SocketsOK'
           /\ UNCHANGED <<connections, sessions, crossed>> => TablesOK'
           /\ UNCHANGED <<expired, jobs, toClose>> => QueuesOK'
           /\ UNCHANGED acc => AcceptOK'
           /\ UNCHANGED <<loopPc, events>> => LoopOK'
           /\ UNCHANGED idled => IdledOK'
           /\ UNCHANGED <<pc, job>> => WorkersOK'
BY DEF IInv, KernelOK, SocketsOK, Open, TablesOK, QueuesOK, AcceptOK, LoopOK, IdledOK, WorkersOK

(* A handle names a descriptor and a connection. *)
LEMMA HandleIs ==
    ASSUME NEW h \in Handles
    PROVE  h.fd \in Fds /\ h.conn \in Clients
BY DEF Handles

(* The thread that runs a handler has a descriptor to use. *)
LEMMA JobIs ==
    ASSUME IInv, NEW w \in Workers, pc[w] # "idle"
    PROVE  job[w] \in Handles /\ job[w].fd \in Fds /\ job[w].conn \in Clients
<1>1. job[w] \in Handles
  BY DEF IInv, WorkersOK
<1> QED
  BY <1>1, HandleIs

(* No step changes an address, or forgets that one was used again too early. *)
LEMMA PeersStay ==
    ASSUME Next
    PROVE  peer' = peer /\ reused \subseteq reused'
<1>1. ASSUME NEW c \in Clients, ClientStep(c)
      PROVE  UNCHANGED <<peer, reused>>
  BY <1>1 DEF ClientStep, Connect, Send, Leave
<1>2. ASSUME AcceptStep
      PROVE  peer' = peer /\ reused \subseteq reused'
  BY <1>2 DEF AcceptStep, Accept, AcceptFails, Refuse, AddSession, SetNonBlocking, DropClient,
              PutConnection, AddToLoop, kernelVars
<1>3. ASSUME NEW k \in Keys, GoIdle(k) \/ Expire(k)
      PROVE  UNCHANGED <<peer, reused>>
  BY <1>3 DEF GoIdle, Expire, kernelVars
<1>4. ASSUME LoopStep
      PROVE  UNCHANGED <<peer, reused>>
  BY <1>4 DEF LoopStep, SwapExpired, CloseExpired, Wait, Dispatch, DispatchHangUp, kernelVars
<1>5. ASSUME NEW w \in Workers, WorkerStep(w)
      PROVE  UNCHANGED <<peer, reused>>
  BY <1>5 DEF WorkerStep, TakeJob, Recv, RecvWouldBlock, RecvBlocks, RecvClose, Reply, Rearm,
              kernelVars
<1> QED
  BY <1>1, <1>2, <1>3, <1>4, <1>5 DEF Next

(* The connection a handler reads from. *)
LEMMA SourceIs ==
    ASSUME IInv, NEW w \in Workers, pc[w] # "idle"
    PROVE  Source(w) \in Clients \union {None}
<1>1. job[w].fd \in Fds
  BY JobIs
<1> QED
  BY <1>1 DEF Source, IInv, Basics, SocketsOK

(* Addresses, and what workers are blocked on, keep their types. *)
LEMMA BasicsStep ==
    ASSUME IInv, Next
    PROVE  Basics'
<1>1. peer' \in [Clients -> Keys]
  BY PeersStay DEF IInv, Basics
<1>2. reused' \subseteq Keys /\ blockedOn' \in [Workers -> Clients \union {None}]
  <2>1. ASSUME NEW c \in Clients, ClientStep(c)
        PROVE  UNCHANGED <<reused, blockedOn>>
    BY <2>1 DEF ClientStep, Connect, Send, Leave, workerVars
  <2>2. ASSUME NEW c \in Clients, NEW f \in Fds, Accept(c, f)
        PROVE  reused' \subseteq Keys /\ UNCHANGED blockedOn
    BY <2>2 DEF Accept, IInv, Basics, workerVars
  <2>3. ASSUME AcceptFails \/ Refuse \/ AddSession \/ SetNonBlocking \/ DropClient
                 \/ PutConnection \/ AddToLoop
        PROVE  UNCHANGED <<reused, blockedOn>>
    BY <2>3 DEF AcceptFails, Refuse, AddSession, SetNonBlocking, DropClient, PutConnection,
                AddToLoop, workerVars
  <2>4. ASSUME NEW k \in Keys, GoIdle(k) \/ Expire(k)
        PROVE  UNCHANGED <<reused, blockedOn>>
    BY <2>4 DEF GoIdle, Expire, workerVars
  <2>5. ASSUME LoopStep
        PROVE  UNCHANGED <<reused, blockedOn>>
    BY <2>5 DEF LoopStep, SwapExpired, CloseExpired, Wait, Dispatch, DispatchHangUp, workerVars
  <2>6. ASSUME NEW w \in Workers, WorkerStep(w)
        PROVE  /\ UNCHANGED reused
               /\ blockedOn' \in [Workers -> Clients \union {None}]
    <3>1. blockedOn \in [Workers -> Clients \union {None}]
      BY DEF IInv, Basics
    <3>2. CASE RecvBlocks(w)
      <4>1. job[w].fd \in Fds
        BY <3>2, JobIs DEF RecvBlocks
      <4>2. sock[job[w].fd] \in Clients \union {None}
        BY <4>1 DEF IInv, SocketsOK
      <4> QED
        BY <3>1, <3>2, <4>2 DEF RecvBlocks
    <3>3. CASE Recv(w) \/ RecvClose(w) \/ Rearm(w)
      BY <3>1, <3>3 DEF Recv, RecvClose, Rearm, EndJob
    <3>4. CASE TakeJob(w) \/ RecvWouldBlock(w) \/ Reply(w)
      BY <3>1, <3>4 DEF TakeJob, RecvWouldBlock, Reply
    <3> QED
      BY <2>6, <3>2, <3>3, <3>4 DEF WorkerStep
  <2> QED
    BY <2>1, <2>2, <2>3, <2>4, <2>5, <2>6 DEF Next, AcceptStep, IInv, Basics
<1> QED
  BY <1>1, <1>2 DEF Basics

(* closeConnection leaves the tables in shape, whatever the descriptor now is. *)
LEMMA Closed ==
    ASSUME IInv, NEW h, h.fd \in Fds, CloseConnection(h)
    PROVE  SocketsOK' /\ TablesOK'
<1> DEFINE f == h.fd
<1>1. /\ reg' = [reg EXCEPT ![f] = "none"]
      /\ sessions' = IF connections[f] = None THEN sessions
                     ELSE [sessions EXCEPT ![peer[connections[f]]] = None]
      /\ connections' = [connections EXCEPT ![f] = None]
      /\ sock' = [sock EXCEPT ![f] = None]
      /\ crossed' = (crossed \/ Crosses(h))
  BY DEF CloseConnection, RemoveSession
<1> HIDE DEF f
<1>2. f \in Fds
  BY DEF f
<1>3. SocketsOK'
  BY <1>1, <1>2 DEF IInv, SocketsOK, Open
<1>4. sessions' \in [Keys -> UserSessions \union {None}]
  BY <1>1, <1>2 DEF IInv, TablesOK, Basics
<1>5. connections' \in [Fds -> Clients \union {None}]
  BY <1>1, <1>2 DEF IInv, TablesOK
<1>6. crossed' \in BOOLEAN
  BY <1>1, Zenon DEF IInv, TablesOK
<1> QED
  BY <1>3, <1>4, <1>5, <1>6 DEF TablesOK

(* A flag that may be raised is a flag. *)
LEMMA Raised ==
    ASSUME IInv, NEW x, crossed' = (crossed \/ Crosses(x)), UNCHANGED <<connections, sessions>>
    PROVE  TablesOK'
<1>1. crossed' \in BOOLEAN
  BY Zenon
<1> QED
  BY <1>1 DEF IInv, TablesOK

-----------------------------------------------------------------------------
(* The threads. *)

(* A client's step changes the kernel's state only. *)
LEMMA ClientKeeps ==
    ASSUME IInv, NEW c \in Clients, ClientStep(c)
    PROVE  IInv'
<1>0. Basics'
  BY BasicsStep DEF Next
<1>1. UNCHANGED <<sock, reg, connections, sessions, expired, jobs, idled, acc, loopPc, toClose,
                  events, pc, job, crossed>>
  BY DEF ClientStep, Connect, Send, Leave, loopVars, workerVars
<1>2. KernelOK'
  <2>1. CASE Connect(c)
    BY <2>1 DEF Connect, IInv, KernelOK
  <2>2. CASE Send(c)
    BY <2>2, ConstantsAssumption DEF Send, IInv, KernelOK
  <2>3. ASSUME NEW how \in {"hungup", "reset"}, Leave(c, how)
        PROVE  KernelOK'
    <3>1. /\ client' = [client EXCEPT ![c] = how]
          /\ UNCHANGED <<backlog, sent>>
          /\ input' = input \/ input' = [input EXCEPT ![c] = 0]
      BY <2>3 DEF Leave
    <3>2. client' \in [Clients -> {"out", "in", "hungup", "reset"}]
      BY <3>1, Zenon DEF IInv, KernelOK
    <3>3. input' \in [Clients -> 0 .. MaxSends] /\ \A d \in Clients : input'[d] <= sent'
      BY <3>1, ConstantsAssumption DEF IInv, KernelOK
    <3> QED
      BY <3>1, <3>2, <3>3 DEF IInv, KernelOK
  <2> QED
    BY <2>1, <2>2, <2>3 DEF ClientStep
<1> QED
  BY <1>1, <1>2, <1>0, Unchanged DEF IInv

(* The accept thread. *)
LEMMA AcceptKeeps ==
    ASSUME IInv, AcceptStep
    PROVE  IInv'
<1>0. Basics'
  BY BasicsStep DEF Next
<1>1. ASSUME acc # Idle, acc # Ended
      PROVE  acc \in [pc : {"limit", "session", "ready", "put"}, conn : Clients, fd : Fds]
             /\ acc.conn \in Clients /\ acc.fd \in Fds /\ peer[acc.conn] \in Keys
  BY <1>1 DEF IInv, AcceptOK, Basics
<1>2. acc.pc \in {"limit", "session", "ready", "put"} => acc # Idle /\ acc # Ended
  BY DEF Idle, Ended
<1>3. Idle \in {Idle, Ended} /\ Ended \in {Idle, Ended}
  OBVIOUS
<1>4. ASSUME NEW c \in Clients, NEW f \in Fds, Accept(c, f)
      PROVE  IInv'
  <2>1. /\ ~Open(f) /\ backlog' = backlog \ {c} /\ sock' = [sock EXCEPT ![f] = c]
        /\ acc' = [pc |-> "limit", conn |-> c, fd |-> f]
        /\ UNCHANGED <<client, sent, input, reg, connections, sessions, expired, jobs, idled,
                       loopPc, toClose, events, pc, job, crossed>>
    BY <1>4 DEF Accept, loopVars, workerVars
  <2>2. KernelOK'
    BY <2>1 DEF IInv, KernelOK
  <2>3. SocketsOK'
    BY <2>1, ConstantsAssumption DEF IInv, SocketsOK, Open
  <2>4. AcceptOK'
    BY <2>1 DEF AcceptOK
  <2> QED
    BY <2>1, <2>2, <2>3, <2>4, <1>0, Unchanged DEF IInv
<1>5. CASE AcceptFails
  <2>1. /\ acc' = Ended
        /\ UNCHANGED <<client, backlog, sent, input, sock, reg, connections, sessions, expired,
                       jobs, idled, loopPc, toClose, events, pc, job, crossed>>
    BY <1>5 DEF AcceptFails, kernelVars, loopVars, workerVars
  <2>2. AcceptOK'
    BY <2>1 DEF AcceptOK
  <2> QED
    BY <2>1, <2>2, <1>0, Unchanged DEF IInv
<1>6. CASE Refuse
  <2>1. /\ acc.pc = "limit"
        /\ crossed' = (crossed \/ Crosses([fd |-> acc.fd, conn |-> acc.conn]))
        /\ sock' = [sock EXCEPT ![acc.fd] = None]
        /\ reg' = [reg EXCEPT ![acc.fd] = "none"]
        /\ acc' = Idle
        /\ UNCHANGED <<client, backlog, sent, input, connections, sessions, expired, jobs, idled,
                       loopPc, toClose, events, pc, job>>
    BY <1>6 DEF Refuse, kernelVars, loopVars, workerVars
  <2>2. acc.fd \in Fds
    BY <1>1, <1>2, <2>1
  <2>3. SocketsOK'
    BY <2>1, <2>2 DEF IInv, SocketsOK, Open
  <2>4. TablesOK'
    BY <2>1, Raised
  <2>5. AcceptOK'
    BY <2>1 DEF AcceptOK
  <2> QED
    BY <2>1, <2>3, <2>4, <2>5, <1>0, Unchanged DEF IInv
<1>7. CASE AddSession
  <2> DEFINE s == [fd |-> acc.fd, conn |-> acc.conn, idle |-> FALSE]
  <2>1. /\ acc.pc = "limit"
        /\ sessions' = sessions \/ sessions' = [sessions EXCEPT ![peer[acc.conn]] = s]
        /\ acc' = [acc EXCEPT !.pc = "session"]
        /\ UNCHANGED <<client, backlog, sent, input, sock, reg, connections, expired, jobs, idled,
                       loopPc, toClose, events, pc, job, crossed>>
    BY <1>7 DEF AddSession, kernelVars, loopVars, workerVars
  <2>2. /\ acc \in [pc : {"limit", "session", "ready", "put"}, conn : Clients, fd : Fds]
        /\ acc.conn \in Clients /\ acc.fd \in Fds /\ peer[acc.conn] \in Keys
    BY <1>1, <1>2, <2>1
  <2>3. s \in UserSessions
    BY <2>2 DEF UserSessions
  <2> HIDE DEF s
  <2>4. TablesOK'
    BY <2>1, <2>2, <2>3 DEF IInv, TablesOK
  <2>5. AcceptOK'
    BY <2>1, <2>2 DEF AcceptOK
  <2> QED
    BY <2>1, <2>4, <2>5, <1>0, Unchanged DEF IInv
<1>8. CASE DropClient
  <2>1. /\ acc.pc = "session"
        /\ sessions' = [sessions EXCEPT ![peer[acc.conn]] = None]
        /\ acc' = Idle
        /\ UNCHANGED <<client, backlog, sent, input, sock, reg, connections, expired, jobs, idled,
                       loopPc, toClose, events, pc, job, crossed>>
    BY <1>8 DEF DropClient, RemoveSession, kernelVars, loopVars, workerVars
  <2>2. peer[acc.conn] \in Keys
    BY <1>1, <1>2, <2>1
  <2>3. TablesOK'
    BY <2>1, <2>2 DEF IInv, TablesOK
  <2>4. AcceptOK'
    BY <2>1 DEF AcceptOK
  <2> QED
    BY <2>1, <2>3, <2>4, <1>0, Unchanged DEF IInv
<1>11. CASE SetNonBlocking
  <2>1. /\ acc.pc = "session" /\ acc' = [acc EXCEPT !.pc = "ready"]
        /\ UNCHANGED <<client, backlog, sent, input, sock, reg, connections, sessions, expired,
                       jobs, idled, loopPc, toClose, events, pc, job, crossed>>
    BY <1>11 DEF SetNonBlocking, kernelVars, loopVars, workerVars
  <2>2. AcceptOK'
    BY <1>1, <1>2, <2>1 DEF AcceptOK
  <2> QED
    BY <2>1, <2>2, <1>0, Unchanged DEF IInv
<1>9. CASE PutConnection
  <2>1. /\ acc.pc = "ready"
        /\ connections' = [connections EXCEPT ![acc.fd] = acc.conn]
        /\ acc' = [acc EXCEPT !.pc = "put"]
        /\ UNCHANGED <<client, backlog, sent, input, sock, reg, sessions, expired, jobs, idled,
                       loopPc, toClose, events, pc, job, crossed>>
    BY <1>9 DEF PutConnection, kernelVars, loopVars, workerVars
  <2>2. /\ acc \in [pc : {"limit", "session", "ready", "put"}, conn : Clients, fd : Fds]
        /\ acc.conn \in Clients /\ acc.fd \in Fds
    BY <1>1, <1>2, <2>1
  <2>3. TablesOK'
    BY <2>1, <2>2 DEF IInv, TablesOK
  <2>4. AcceptOK'
    BY <2>1, <2>2 DEF AcceptOK
  <2> QED
    BY <2>1, <2>3, <2>4, <1>0, Unchanged DEF IInv
<1>10. CASE AddToLoop
  <2>1. /\ acc.pc = "put"
        /\ reg' = IF Open(acc.fd) THEN [reg EXCEPT ![acc.fd] = "armed"] ELSE reg
        /\ acc' = Idle
        /\ UNCHANGED <<client, backlog, sent, input, sock, connections, sessions, expired, jobs,
                       idled, loopPc, toClose, events, pc, job, crossed>>
    BY <1>10 DEF AddToLoop, kernelVars, loopVars, workerVars
  <2>2. acc.fd \in Fds
    BY <1>1, <1>2, <2>1
  <2>3. SocketsOK'
    BY <2>1, <2>2 DEF IInv, SocketsOK, Open
  <2>4. AcceptOK'
    BY <2>1 DEF AcceptOK
  <2> QED
    BY <2>1, <2>3, <2>4, <1>0, Unchanged DEF IInv
<1> QED
  BY <1>4, <1>5, <1>6, <1>7, <1>8, <1>9, <1>10, <1>11 DEF AcceptStep

(* The sweeper, and the passing of time. *)
LEMMA SweeperKeeps ==
    ASSUME IInv, NEW k \in Keys, GoIdle(k) \/ Expire(k)
    PROVE  IInv'
<1>0. Basics'
  BY BasicsStep DEF Next
<1>1. sessions[k] # None => /\ sessions[k] \in UserSessions
                            /\ [sessions[k] EXCEPT !.idle = TRUE] \in UserSessions
                            /\ [fd |-> sessions[k].fd, conn |-> sessions[k].conn] \in Handles
  BY DEF IInv, TablesOK, UserSessions, Handles
<1>2. CASE GoIdle(k)
  <2>1. /\ sessions[k] # None /\ idled < MaxIdle /\ idled' = idled + 1
        /\ sessions' = [sessions EXCEPT ![k] = [sessions[k] EXCEPT !.idle = TRUE]]
        /\ UNCHANGED <<client, backlog, sent, input, sock, reg, connections, expired, jobs, acc,
                       loopPc, toClose, events, pc, job, crossed>>
    BY <1>2 DEF GoIdle, kernelVars, loopVars, workerVars
  <2>2. TablesOK'
    BY <1>1, <2>1 DEF IInv, TablesOK
  <2>3. IdledOK'
    BY <2>1, ConstantsAssumption DEF IInv, IdledOK
  <2> QED
    BY <2>1, <2>2, <2>3, <1>0, Unchanged DEF IInv
<1>3. CASE Expire(k)
  <2> DEFINE h == [fd |-> sessions[k].fd, conn |-> sessions[k].conn]
  <2>1. /\ sessions[k] # None
        /\ expired' = Append(expired, h)
        /\ sessions' = [sessions EXCEPT ![k] = None]
        /\ UNCHANGED <<client, backlog, sent, input, sock, reg, connections, jobs, idled, acc,
                       loopPc, toClose, events, pc, job, crossed>>
    BY <1>3 DEF Expire, IsExpired, OnSessionExpired, kernelVars, loopVars, workerVars
  <2>2. h \in Handles
    BY <1>1, <2>1
  <2> HIDE DEF h
  <2>3. QueuesOK'
    BY <2>1, <2>2, AppendProperties DEF IInv, QueuesOK
  <2>4. TablesOK'
    BY <2>1 DEF IInv, TablesOK
  <2> QED
    BY <2>1, <2>3, <2>4, <1>0, Unchanged DEF IInv
<1> QED
  BY <1>2, <1>3

(* The event loop. *)
LEMMA LoopKeeps ==
    ASSUME IInv, LoopStep
    PROVE  IInv'
<1>0. Basics'
  BY BasicsStep DEF Next
<1>1. CASE SwapExpired
  <2>1. /\ toClose' = expired /\ expired' = <<>> /\ loopPc' = "closing"
        /\ UNCHANGED <<client, backlog, sent, input, sock, reg, connections, sessions, jobs,
                       idled, acc, events, pc, job, crossed>>
    BY <1>1 DEF SwapExpired, kernelVars, workerVars
  <2>2. QueuesOK'
    BY <2>1, EmptySeq DEF IInv, QueuesOK
  <2>3. LoopOK'
    BY <2>1 DEF IInv, LoopOK
  <2> QED
    BY <2>1, <2>2, <2>3, <1>0, Unchanged DEF IInv
<1>2. CASE CloseExpired
  <2>1. /\ toClose # <<>> /\ CloseConnection(Head(toClose)) /\ toClose' = Tail(toClose)
        /\ UNCHANGED <<client, backlog, sent, input, expired, jobs, idled, acc, loopPc, events,
                       pc, job>>
    BY <1>2 DEF CloseExpired, kernelVars, workerVars
  <2>2. Head(toClose) \in Handles /\ Tail(toClose) \in Seq(Handles)
    BY <2>1, HeadTailProperties DEF IInv, QueuesOK
  <2>3. SocketsOK' /\ TablesOK'
    BY <2>1, <2>2, HandleIs, Closed
  <2>4. QueuesOK'
    BY <2>1, <2>2 DEF IInv, QueuesOK
  <2> QED
    BY <2>1, <2>3, <2>4, <1>0, Unchanged DEF IInv
<1>3. CASE Wait
  <2>1. /\ events' = {Entry(f) : f \in {g \in Fds : Ready(g)}}
        /\ reg' = [f \in Fds |-> IF Ready(f) THEN "muted" ELSE reg[f]]
        /\ loopPc' = IF events' = {} THEN "top" ELSE "dispatch"
        /\ UNCHANGED <<client, backlog, sent, input, sock, connections, sessions, expired, jobs,
                       idled, acc, toClose, pc, job, crossed>>
    BY <1>3 DEF Wait, kernelVars, workerVars
  <2>2. \A f \in Fds : Ready(f) => reg[f] = "armed"
    BY DEF Ready
  <2>3. SocketsOK'
    BY <2>1, <2>2 DEF IInv, SocketsOK, Open
  <2>4. \A f \in Fds : Ready(f) => sock[f] \in Clients
    BY <2>2 DEF IInv, SocketsOK, Open
  <2>5. \A f \in Fds : Ready(f) => Entry(f) \in Entries
    BY <2>4 DEF Entry, Entries
  <2>6. LoopOK'
    BY <2>1, <2>5, Zenon DEF LoopOK
  <2> QED
    BY <2>1, <2>3, <2>6, <1>0, Unchanged DEF IInv
<1>4. ASSUME NEW e \in events, EventDone(e)
      PROVE  LoopOK' /\ e \in Entries /\ e.fd \in Fds
  <2>1. e \in Entries
    BY DEF IInv, LoopOK
  <2>2. e.fd \in Fds
    BY <2>1 DEF Entries
  <2>3. LoopOK'
    BY <1>4, Zenon DEF EventDone, IInv, LoopOK
  <2> QED
    BY <2>1, <2>2, <2>3
<1>5. ASSUME NEW e \in events, Dispatch(e)
      PROVE  IInv'
  <2> DEFINE h == [fd |-> e.fd, conn |-> connections[e.fd]]
  <2>1. /\ jobs' = IF connections[e.fd] # None THEN Append(jobs, h) ELSE jobs
        /\ crossed' = (crossed \/ Crosses(e)) /\ EventDone(e)
        /\ UNCHANGED <<client, backlog, sent, input, sock, reg, connections, sessions, expired,
                       idled, acc, toClose, pc, job>>
    BY <1>5 DEF Dispatch, Found, kernelVars, workerVars
  <2>2. LoopOK' /\ e.fd \in Fds
    BY <1>4, <2>1
  <2>3. connections[e.fd] # None => h \in Handles
    BY <2>2 DEF IInv, TablesOK, Handles
  <2> HIDE DEF h
  <2>4. QueuesOK'
    BY <2>1, <2>3, AppendProperties DEF IInv, QueuesOK
  <2>5. TablesOK'
    BY <2>1, Raised
  <2> QED
    BY <2>1, <2>2, <2>4, <2>5, <1>0, Unchanged DEF IInv
<1>6. ASSUME NEW e \in events, DispatchHangUp(e)
      PROVE  IInv'
  <2>1. /\ CloseConnection(e) /\ EventDone(e)
        /\ UNCHANGED <<client, backlog, sent, input, expired, jobs, idled, acc, toClose, pc, job>>
    BY <1>6 DEF DispatchHangUp, kernelVars, workerVars
  <2>2. LoopOK' /\ e.fd \in Fds
    BY <1>4, <2>1
  <2>3. SocketsOK' /\ TablesOK'
    BY <2>1, <2>2, Closed
  <2> QED
    BY <2>1, <2>2, <2>3, <1>0, Unchanged DEF IInv
<1> QED
  BY <1>1, <1>2, <1>3, <1>5, <1>6 DEF LoopStep

(* A worker. *)
LEMMA WorkerKeeps ==
    ASSUME IInv, NEW w \in Workers, WorkerStep(w)
    PROVE  IInv'
<1>0. Basics'
  BY BasicsStep DEF Next
<1>1. ASSUME EndJob(w)
      PROVE  WorkersOK'
  BY <1>1 DEF EndJob, IInv, WorkersOK
<1>2. ASSUME NEW next \in {"reply", "rearm"}, pc[w] # "idle", pc' = [pc EXCEPT ![w] = next],
             UNCHANGED job
      PROVE  WorkersOK'
  BY <1>2 DEF IInv, WorkersOK
<1>3. CASE TakeJob(w)
  <2>1. /\ jobs # <<>> /\ job' = [job EXCEPT ![w] = Head(jobs)] /\ jobs' = Tail(jobs)
        /\ pc' = [pc EXCEPT ![w] = "recv"]
        /\ UNCHANGED <<client, backlog, sent, input, sock, reg, connections, sessions, expired,
                       idled, acc, loopPc, toClose, events, crossed>>
    BY <1>3 DEF TakeJob, kernelVars, loopVars
  <2>2. Head(jobs) \in Handles /\ Tail(jobs) \in Seq(Handles)
    BY <2>1, HeadTailProperties DEF IInv, QueuesOK
  <2>3. QueuesOK'
    BY <2>1, <2>2 DEF IInv, QueuesOK
  <2>4. WorkersOK'
    <3>1. Head(jobs) # None
      BY <2>2, NoneIsNoHandle
    <3> QED
      BY <2>1, <2>2, <3>1 DEF IInv, WorkersOK
  <2> QED
    BY <2>1, <2>3, <2>4, <1>0, Unchanged DEF IInv
<1>4. CASE Recv(w)
  <2> DEFINE d == Source(w)
  <2>1. /\ pc[w] = "recv" /\ d # None /\ input[d] > 0
        /\ input' = [input EXCEPT ![d] = input[d] - 1]
        /\ \E next \in {"reply", "rearm"} : pc' = [pc EXCEPT ![w] = next]
        /\ crossed' = (crossed \/ Crosses(job[w]))
        /\ UNCHANGED <<client, backlog, sent, sock, reg, connections, sessions, expired, jobs,
                       idled, acc, loopPc, toClose, events, job>>
    BY <1>4 DEF Recv, AfterRecv, loopVars
  <2>3. d \in Clients
    BY <2>1, SourceIs
  <2>4. input[d] > 0 /\ input' = [input EXCEPT ![d] = input[d] - 1]
        /\ UNCHANGED <<client, backlog, sent>>
    BY <2>1
  <2> HIDE DEF d
  <2>5. KernelOK'
    BY <2>3, <2>4, ConstantsAssumption DEF IInv, KernelOK
  <2>6. WorkersOK'
    BY <1>2, <2>1
  <2>7. TablesOK'
    BY <2>1, Raised
  <2> QED
    BY <2>1, <2>5, <2>6, <2>7, <1>0, Unchanged DEF IInv
<1>5. CASE RecvWouldBlock(w)
  <2>1. /\ pc[w] = "recv" /\ pc' = [pc EXCEPT ![w] = "rearm"]
        /\ UNCHANGED <<client, backlog, sent, input, sock, reg, connections, sessions, expired,
                       jobs, idled, acc, loopPc, toClose, events, job, crossed>>
    BY <1>5 DEF RecvWouldBlock, kernelVars, loopVars
  <2>2. WorkersOK'
    BY <1>2, <2>1
  <2> QED
    BY <2>1, <2>2, <1>0, Unchanged DEF IInv
<1>9. CASE RecvBlocks(w)
  <2>1. /\ crossed' = (crossed \/ Crosses(job[w]))
        /\ UNCHANGED <<client, backlog, sent, input, sock, reg, connections, sessions, expired,
                       jobs, idled, acc, loopPc, toClose, events, pc, job>>
    BY <1>9 DEF RecvBlocks, kernelVars, loopVars
  <2>2. TablesOK'
    BY <2>1, Raised
  <2> QED
    BY <2>1, <2>2, <1>0, Unchanged DEF IInv
<1>6. CASE RecvClose(w)
  <2> DEFINE d == Source(w)
  <2>1. /\ pc[w] = "recv" /\ CloseConnection(job[w]) /\ EndJob(w)
        /\ input' = IF d # None THEN [input EXCEPT ![d] = 0] ELSE input
        /\ UNCHANGED <<client, backlog, sent, expired, jobs, idled, acc, loopPc, toClose, events>>
    BY <1>6 DEF RecvClose, loopVars
  <2>2. job[w].fd \in Fds
    BY <2>1, JobIs
  <2>3. d # None => d \in Clients
    BY <2>1, SourceIs
  <2> HIDE DEF d
  <2>4. KernelOK'
    BY <2>1, <2>3, ConstantsAssumption DEF IInv, KernelOK
  <2>5. SocketsOK' /\ TablesOK'
    BY <2>1, <2>2, Closed
  <2> QED
    BY <1>1, <2>1, <2>4, <2>5, <1>0, Unchanged DEF IInv
<1>7. CASE Reply(w)
  <2> DEFINE k == peer[job[w].conn]
  <2>1. /\ pc[w] = "reply" /\ pc' = [pc EXCEPT ![w] = "rearm"]
        /\ sessions' = IF sessions[k] = None THEN sessions
                       ELSE [sessions EXCEPT ![k] = [sessions[k] EXCEPT !.idle = FALSE]]
        /\ crossed' = (crossed \/ Crosses(job[w]))
        /\ UNCHANGED <<client, backlog, sent, input, sock, reg, connections, expired, jobs, idled,
                       acc, loopPc, toClose, events, job>>
    BY <1>7 DEF Reply, UpdateActivity, kernelVars, loopVars
  <2>2. k \in Keys
    BY <2>1, JobIs DEF IInv, Basics
  <2> HIDE DEF k
  <2>3. sessions[k] # None => [sessions[k] EXCEPT !.idle = FALSE] \in UserSessions
    BY <2>2 DEF IInv, TablesOK, UserSessions
  <2>4. crossed' \in BOOLEAN
    BY <2>1, Zenon
  <2>5. TablesOK'
    BY <2>1, <2>2, <2>3, <2>4 DEF IInv, TablesOK
  <2>6. WorkersOK'
    BY <1>2, <2>1
  <2> QED
    BY <2>1, <2>5, <2>6, <1>0, Unchanged DEF IInv
<1>8. CASE Rearm(w)
  <2> DEFINE f == job[w].fd
  <2>1. /\ pc[w] = "rearm" /\ EndJob(w)
        /\ UNCHANGED <<client, backlog, sent, input, expired, jobs, idled, acc, loopPc, toClose,
                       events>>
    BY <1>8 DEF Rearm, kernelVars, loopVars
  <2>2. f \in Fds
    BY <2>1, JobIs
  <2>3. CASE reg[f] # "none"
    <3>1. /\ reg' = [reg EXCEPT ![f] = "armed"] /\ crossed' = (crossed \/ Crosses(job[w]))
          /\ UNCHANGED <<sock, connections, sessions>>
      BY <1>8, <2>3 DEF Rearm, Rearmed
    <3> HIDE DEF f
    <3>2. SocketsOK'
      BY <2>2, <2>3, <3>1 DEF IInv, SocketsOK, Open
    <3>3. TablesOK'
      BY <3>1, Raised
    <3> QED
      BY <1>1, <2>1, <3>2, <3>3, <1>0, Unchanged DEF IInv
  <2>4. CASE reg[f] = "none"
    <3>1. CloseConnection(job[w])
      BY <1>8, <2>4 DEF Rearm
    <3>2. SocketsOK' /\ TablesOK'
      BY <2>2, <3>1, Closed
    <3> QED
      BY <1>1, <2>1, <3>2, <1>0, Unchanged DEF IInv
  <2> QED
    BY <2>3, <2>4
<1> QED
  BY <1>3, <1>4, <1>5, <1>6, <1>7, <1>8, <1>9 DEF WorkerStep

(* Every step keeps the invariant. *)
LEMMA IInvStep == IInv /\ [Next]_vars => IInv'
<1> SUFFICES ASSUME IInv, [Next]_vars
             PROVE  IInv'
  OBVIOUS
<1>1. CASE UNCHANGED vars
  <2>1. Basics'
    BY <1>1 DEF vars, IInv, Basics
  <2> QED
    BY <1>1, <2>1, Unchanged DEF vars, IInv
<1> QED
  BY <1>1, ClientKeeps, AcceptKeeps, SweeperKeeps, LoopKeeps, WorkerKeeps DEF Next

-----------------------------------------------------------------------------

(* However accept thread, event loop, workers and sweeper interleave, and    *)
(* though descriptors are used again: every queued job has a Connection,     *)
(* every running handler has a job, and a closed descriptor is not watched.  *)
THEOREM TypeCorrect == Spec => []TypeOK
<1>1. IInv => TypeOK
  BY DEF IInv, TypeOK, KernelOK, SocketsOK, TablesOK, QueuesOK, AcceptOK, LoopOK, IdledOK,
         WorkersOK, Basics
<1> QED
  BY <1>1, IInvInit, IInvStep, PTL DEF Spec

-----------------------------------------------------------------------------
(* No socket is forgotten. The argument follows a connection from the        *)
(* backlog through the accept thread into the map and the sessions; it needs *)
(* that a connection is accepted once, under one descriptor, and that the    *)
(* server keeps nothing of two connections with one key unless reused says   *)
(* so.                                                                       *)

(* What has been accepted is not waiting to be. *)
Fresh ==
    /\ \A c \in backlog : client[c] # "out"
    /\ \A f \in Fds : sock[f] # None => sock[f] \notin backlog /\ client[sock[f]] # "out"
    /\ \A f \in Fds : connections[f] # None =>
         connections[f] \notin backlog /\ client[connections[f]] # "out"
    /\ \A k \in Keys : sessions[k] # None =>
         /\ peer[sessions[k].conn] = k
         /\ sessions[k].conn \notin backlog /\ client[sessions[k].conn] # "out"
    /\ acc.conn # None => acc.conn \notin backlog /\ client[acc.conn] # "out"

(* A connection has one descriptor, in the kernel and in the map. *)
OnePlace ==
    \A f, g \in Fds : sock[g] # None /\ sock[g] \in {sock[f], connections[f]} => f = g

(* The connection the accept thread has in hand. *)
Carried ==
    acc.conn # None =>
        /\ sock[acc.fd] \in {acc.conn, None}
        /\ \A f \in Fds : sock[f] = acc.conn => f = acc.fd
        /\ acc.pc = "limit" /\ sessions[peer[acc.conn]] # None =>
             sessions[peer[acc.conn]].conn # acc.conn

(* The server keeps something of connection c. *)
Kept(c) ==
    \/ acc.conn = c
    \/ \E f \in Fds : sock[f] = c \/ connections[f] = c
    \/ sessions[peer[c]] # None /\ sessions[peer[c]].conn = c

(* It keeps one connection per key, as long as no key was used too early. *)
Sole ==
    \A c, d \in Clients :
        Kept(c) /\ Kept(d) /\ peer[c] = peer[d] /\ peer[c] \notin reused => c = d

(* The loop handles events and closes expired sockets at different times. *)
NothingToClose ==
    /\ loopPc # "closing" => toClose = <<>>
    /\ events # {} => loopPc = "dispatch"

Queued(h) ==
    (\E i \in DOMAIN expired : expired[i] = h) \/ (\E i \in DOMAIN toClose : toClose[i] = h)

HasSession(f, c) ==
    \E b \in BOOLEAN : sessions[peer[c]] = [fd |-> f, conn |-> c, idle |-> b]

AtLimit(f) == acc.fd = f /\ acc.pc = "limit"

Remembered(f) ==
    sock[f] # None =>
        /\ ~AtLimit(f) /\ peer[sock[f]] \notin reused =>
             HasSession(f, sock[f]) \/ Queued([fd |-> f, conn |-> sock[f]])
        /\ ~InHand(f) => connections[f] = sock[f]

Track ==
    /\ Fresh /\ OnePlace /\ Carried /\ Sole /\ NothingToClose
    /\ \A f \in Fds : Remembered(f)

(* Nothing to remember at first. *)
LEMMA TrackInit == Init => Track
<1> SUFFICES ASSUME Init
             PROVE  Track
  OBVIOUS
<1>1. peer \in [Clients -> Keys]
  BY ConstantsAssumption DEF Init
<1>2. Sole
  BY <1>1, ConstantsAssumption DEF Init, Sole, Kept, Idle
<1>3. Fresh /\ OnePlace /\ Carried /\ NothingToClose
  BY DEF Init, Fresh, OnePlace, Carried, NothingToClose, Idle
<1>4. \A f \in Fds : Remembered(f)
  BY DEF Init, Remembered
<1> QED
  BY <1>2, <1>3, <1>4 DEF Track

(* A key stays with one connection while nothing more is kept. *)
LEMMA SoleStays ==
    ASSUME Sole, peer' = peer, reused \subseteq reused', \A c \in Clients : Kept(c)' => Kept(c)
    PROVE  Sole'
BY DEF Sole

(* Every step that leaves the parts alone. *)
LEMMA TrackFrame ==
    ASSUME Track, peer' = peer, reused \subseteq reused',
           UNCHANGED <<client, backlog, sock, connections, sessions, expired, toClose, acc>>,
           NothingToClose'
    PROVE  Track'
<1>1. Fresh' /\ OnePlace' /\ Carried'
  BY DEF Track, Fresh, OnePlace, Carried
<1>2. Sole'
  <2>1. \A c \in Clients : Kept(c)' => Kept(c)
    BY DEF Kept
  <2> QED
    BY <2>1, SoleStays DEF Track
<1>3. \A f \in Fds : Remembered(f)'
  BY DEF Track, Remembered, HasSession, Queued, AtLimit, InHand
<1> QED
  BY <1>1, <1>2, <1>3 DEF Track

(* The invariant after closeConnection: nothing is left of the connection    *)
(* that had the descriptor, and nothing happens to another one.              *)
LEMMA TrackClose ==
    ASSUME IInv, Track, NEW h, h.fd \in Fds, CloseConnection(h),
           peer' = peer, reused \subseteq reused',
           UNCHANGED <<client, backlog, acc>>,
           \A x \in Handles : x.fd # h.fd /\ Queued(x) => Queued(x)',
           NothingToClose'
    PROVE  Track'
<1> DEFINE f == h.fd
<1>1. f \in Fds
  OBVIOUS
<1>2. /\ sessions' = IF connections[f] = None THEN sessions
                     ELSE [sessions EXCEPT ![peer[connections[f]]] = None]
      /\ connections' = [connections EXCEPT ![f] = None]
      /\ sock' = [sock EXCEPT ![f] = None]
  BY DEF CloseConnection, RemoveSession
<1> HIDE DEF f
<1>3. /\ connections'[f] = None /\ sock'[f] = None
      /\ \A g \in Fds : g # f => connections'[g] = connections[g] /\ sock'[g] = sock[g]
      /\ \A g \in Fds : sock'[g] # None => g # f /\ sock'[g] = sock[g]
      /\ \A g \in Fds : connections'[g] # None => connections'[g] = connections[g]
  BY <1>1, <1>2 DEF IInv, SocketsOK, TablesOK
<1>4. \A k \in Keys : sessions'[k] = sessions[k] \/ sessions'[k] = None
  BY <1>1, <1>2 DEF IInv, TablesOK, Basics
<1>5. \A g \in Fds : g # f /\ sock[g] # None /\ peer[sock[g]] \notin reused =>
        sessions'[peer[sock[g]]] = sessions[peer[sock[g]]]
  <2> SUFFICES ASSUME NEW g \in Fds, g # f, sock[g] # None, peer[sock[g]] \notin reused,
                      connections[f] # None
               PROVE  sessions'[peer[sock[g]]] = sessions[peer[sock[g]]]
    BY <1>2
  <2>1. connections[f] # sock[g]
    BY <1>1 DEF Track, OnePlace
  <2>2. connections[f] \in Clients /\ sock[g] \in Clients
    BY <1>1 DEF IInv, SocketsOK, TablesOK
  <2>3. Kept(connections[f]) /\ Kept(sock[g])
    BY <1>1 DEF Kept
  <2>4. peer[connections[f]] # peer[sock[g]] /\ peer[sock[g]] \in Keys
    BY <2>1, <2>2, <2>3 DEF Track, Sole, IInv, Basics
  <2> QED
    BY <1>2, <2>4 DEF IInv, TablesOK
<1>6. Fresh'
  <2>1. /\ \A g \in Fds : sock'[g] # None => sock'[g] \notin backlog' /\ client'[sock'[g]] # "out"
        /\ \A g \in Fds : connections'[g] # None =>
             connections'[g] \notin backlog' /\ client'[connections'[g]] # "out"
    BY <1>3 DEF Track, Fresh
  <2>2. \A k \in Keys : sessions'[k] # None =>
          /\ peer'[sessions'[k].conn] = k
          /\ sessions'[k].conn \notin backlog' /\ client'[sessions'[k].conn] # "out"
    BY <1>4 DEF Track, Fresh
  <2> QED
    BY <2>1, <2>2 DEF Track, Fresh
<1>7. OnePlace'
  <2> SUFFICES ASSUME NEW g \in Fds, NEW e \in Fds, sock'[e] # None,
                      sock'[e] \in {sock'[g], connections'[g]}
               PROVE  g = e
    BY DEF OnePlace
  <2>1. sock'[e] = sock[e]
    BY <1>3
  <2>2. sock[e] = sock[g] \/ sock[e] = connections[g]
    BY <1>3, <2>1
  <2> QED
    BY <2>1, <2>2 DEF Track, OnePlace
<1>8. Carried'
  <2> SUFFICES ASSUME acc.conn # None
               PROVE  /\ sock'[acc.fd] \in {acc.conn, None}
                      /\ \A g \in Fds : sock'[g] = acc.conn => g = acc.fd
                      /\ acc.pc = "limit" /\ sessions'[peer[acc.conn]] # None =>
                           sessions'[peer[acc.conn]].conn # acc.conn
    BY DEF Carried
  <2>1. acc.fd \in Fds /\ acc.conn \in Clients /\ peer[acc.conn] \in Keys
    BY DEF IInv, AcceptOK, Idle, Ended, Basics
  <2> QED
    BY <1>3, <1>4, <2>1 DEF Track, Carried
<1>9. Sole'
  <2>1. ASSUME NEW c \in Clients, Kept(c)'
        PROVE  Kept(c)
    <3>1. peer[c] \in Keys /\ c # None
      BY ConstantsAssumption DEF IInv, Basics
    <3>2. ASSUME NEW g \in Fds, sock'[g] = c \/ connections'[g] = c
          PROVE  sock[g] = c \/ connections[g] = c
      BY <1>3, <3>1, <3>2
    <3>3. sessions'[peer[c]] # None => sessions'[peer[c]] = sessions[peer[c]]
      BY <1>4, <3>1
    <3> QED
      BY <2>1, <3>2, <3>3 DEF Kept
  <2> QED
    BY <2>1, SoleStays DEF Track
<1>10. ASSUME NEW g \in Fds, sock'[g] # None
       PROVE  Remembered(g)'
  <2>1. g # f /\ sock'[g] = sock[g] /\ connections'[g] = connections[g]
        /\ (peer[sock[g]] \notin reused =>
              sessions'[peer[sock[g]]] = sessions[peer[sock[g]]])
    BY <1>3, <1>5, <1>10
  <2>2. [fd |-> g, conn |-> sock[g]] \in Handles /\ [fd |-> g, conn |-> sock[g]].fd # h.fd
    BY <1>10, <2>1 DEF IInv, SocketsOK, Handles, f
  <2>3. Queued([fd |-> g, conn |-> sock[g]]) => Queued([fd |-> g, conn |-> sock[g]])'
    BY <2>1, <2>2
  <2>4. AtLimit(g)' = AtLimit(g) /\ InHand(g)' = InHand(g)
    BY DEF AtLimit, InHand
  <2>5. peer[sock[g]] \notin reused /\ HasSession(g, sock[g]) => HasSession(g, sock[g])'
    BY <2>1 DEF HasSession
  <2> QED
    BY <1>10, <2>1, <2>3, <2>4, <2>5 DEF Track, Remembered
<1>11. \A g \in Fds : Remembered(g)'
  BY <1>10 DEF Remembered
<1> QED
  BY <1>6, <1>7, <1>8, <1>9, <1>11 DEF Track

(* Clients: a new connection is in the backlog and nowhere else. *)
LEMMA TrackClient ==
    ASSUME IInv, Track, NEW c \in Clients, ClientStep(c)
    PROVE  Track'
<1>1. UNCHANGED <<peer, reused, sock, connections, sessions, expired, toClose, acc, loopPc,
                  events>>
  BY DEF ClientStep, Connect, Send, Leave, loopVars, workerVars
<1>2. /\ \A d \in Clients : client[d] # "out" => client'[d] # "out"
      /\ client'[c] # "out"
      /\ backlog' = backlog \/ (client[c] = "out" /\ backlog' = backlog \union {c})
  <2>1. CASE Connect(c)
    BY <2>1 DEF Connect, IInv, KernelOK
  <2>2. CASE Send(c)
    BY <2>2 DEF Send
  <2>3. ASSUME NEW how \in {"hungup", "reset"}, Leave(c, how)
        PROVE  /\ \A d \in Clients : client[d] # "out" => client'[d] # "out"
               /\ client'[c] # "out" /\ backlog' = backlog
    BY <2>3 DEF Leave, IInv, KernelOK
  <2> QED
    BY <2>1, <2>2, <2>3 DEF ClientStep
<1>3. /\ \A f \in Fds : /\ sock[f] # None => sock[f] \in Clients
                        /\ connections[f] # None => connections[f] \in Clients
      /\ \A k \in Keys : sessions[k] # None => sessions[k].conn \in Clients
      /\ acc.conn # None => acc.conn \in Clients
      /\ backlog \subseteq Clients
  BY DEF IInv, KernelOK, SocketsOK, TablesOK, UserSessions, AcceptOK, Idle, Ended
<1>4. Fresh'
  BY <1>1, <1>2, <1>3 DEF Track, Fresh
<1>5. Sole'
  <2>1. \A d \in Clients : Kept(d)' => Kept(d)
    BY <1>1 DEF Kept
  <2> QED
    BY <1>1, <2>1, SoleStays DEF Track
<1> QED
  BY <1>1, <1>4, <1>5 DEF Track, OnePlace, Carried, NothingToClose, Remembered, HasSession, Queued,
     AtLimit, InHand

(* The accept thread hands a connection on without ever dropping it. *)
LEMMA TrackAccept ==
    ASSUME IInv, Track, AcceptStep
    PROVE  Track'
<1>0. peer' = peer /\ reused \subseteq reused'
  BY PeersStay DEF Next
<1>1. acc.pc \in {"limit", "session", "ready", "put"} =>
        /\ acc.conn # None /\ acc.conn \in Clients /\ acc.fd \in Fds /\ peer[acc.conn] \in Keys
  BY ConstantsAssumption DEF IInv, AcceptOK, Idle, Ended, Basics
<1>2. UNCHANGED <<client, expired, toClose, loopPc, events>>
  BY DEF AcceptStep, Accept, AcceptFails, Refuse, AddSession, SetNonBlocking, DropClient,
         RemoveSession, PutConnection, AddToLoop, kernelVars, loopVars
<1>3. NothingToClose'
  BY <1>2 DEF Track, NothingToClose
<1>4. \A c \in Clients : peer[c] \in Keys /\ c # None
  BY ConstantsAssumption DEF IInv, Basics
<1>5. ASSUME NEW c \in Clients, NEW f \in Fds, Accept(c, f)
      PROVE  Track'
  <2>1. /\ acc = Idle /\ c \in backlog /\ sock[f] = None
        /\ backlog' = backlog \ {c} /\ sock' = [sock EXCEPT ![f] = c]
        /\ acc' = [pc |-> "limit", conn |-> c, fd |-> f]
        /\ Lingers(peer[c]) => peer[c] \in reused'
        /\ UNCHANGED <<connections, sessions>>
    BY <1>5 DEF Accept, Open
  <2>2. /\ sock'[f] = c /\ \A g \in Fds : g # f => sock'[g] = sock[g]
        /\ acc'.conn = c /\ acc'.fd = f /\ acc'.pc = "limit"
        /\ acc.conn = None /\ acc.fd = None
    BY <2>1 DEF IInv, SocketsOK, Idle
  <2>3. /\ \A g \in Fds : sock[g] # c /\ connections[g] # c
        /\ sessions[peer[c]] # None => sessions[peer[c]].conn # c
    BY <1>4, <2>1 DEF Track, Fresh
  <2>4. Fresh'
    BY <1>0, <1>2, <2>1, <2>2, <2>3 DEF Track, Fresh
  <2>5. OnePlace'
    <3> SUFFICES ASSUME NEW g \in Fds, NEW e \in Fds, sock'[e] # None,
                        sock'[e] \in {sock'[g], connections[g]}
                 PROVE  g = e
      BY <2>1 DEF OnePlace
    <3>1. CASE e = f
      BY <2>2, <2>3, <3>1
    <3>2. CASE e # f
      <4>1. sock'[e] = sock[e] /\ sock[e] # c
        BY <2>2, <2>3, <3>2
      <4>2. sock[e] = sock[g] \/ sock[e] = connections[g]
        BY <2>2, <4>1
      <4> QED
        BY <4>1, <4>2 DEF Track, OnePlace
    <3> QED
      BY <3>1, <3>2
  <2>6. Carried'
    BY <1>0, <2>1, <2>2, <2>3 DEF Carried
  <2>7. Sole'
    <3>1. ASSUME NEW d \in Clients, d # c, Kept(d)'
          PROVE  Kept(d) /\ (peer[d] = peer[c] => peer[c] \in reused')
      <4>1. CASE sessions[peer[d]] # None /\ sessions[peer[d]].conn = d
        BY <2>1, <4>1 DEF Kept, Lingers
      <4>2. ASSUME NEW g \in Fds, sock'[g] = d \/ connections[g] = d
            PROVE  Kept(d) /\ (peer[d] = peer[c] => peer[c] \in reused')
        <5>1. sock[g] = d \/ connections[g] = d
          BY <2>2, <3>1, <4>2
        <5>2. Kept(d)
          BY <5>1 DEF Kept
        <5>3. peer[d] = peer[c] => Lingers(peer[c])
          BY <1>4, <5>1 DEF Lingers, Open
        <5> QED
          BY <2>1, <5>2, <5>3
      <4> QED
        BY <1>0, <2>1, <2>2, <3>1, <4>1, <4>2 DEF Kept
    <3> SUFFICES ASSUME NEW d \in Clients, NEW e \in Clients, Kept(d)', Kept(e)',
                        peer[d] = peer[e], peer[d] \notin reused'
                 PROVE  d = e
      BY <1>0 DEF Sole
    <3>2. CASE d # c /\ e # c
      BY <1>0, <3>1, <3>2 DEF Track, Sole
    <3> QED
      BY <3>1, <3>2
  <2>8. ASSUME NEW g \in Fds
        PROVE  Remembered(g)'
    <3>1. CASE g = f
      BY <2>2, <3>1 DEF Remembered, AtLimit, InHand
    <3>2. CASE g # f
      <4>1. ~AtLimit(g) /\ ~InHand(g)
        BY <2>1 DEF AtLimit, InHand, Idle
      <4> QED
        BY <1>0, <1>2, <2>1, <2>2, <3>2, <4>1 DEF Track, Remembered, HasSession, Queued
    <3> QED
      BY <3>1, <3>2
  <2> QED
    BY <1>3, <2>4, <2>5, <2>6, <2>7, <2>8 DEF Track
<1>6. ASSUME acc' \in {Idle, Ended}, acc.pc \notin {"limit", "session", "ready"},
             UNCHANGED <<backlog, sock, connections, sessions>>
      PROVE  Track'
  <2>1. acc'.conn = None
    BY <1>6 DEF Idle, Ended
  <2>2. Fresh' /\ OnePlace' /\ Carried'
    BY <1>0, <1>2, <1>6, <2>1 DEF Track, Fresh, OnePlace, Carried
  <2>3. Sole'
    <3>1. \A c \in Clients : Kept(c)' => Kept(c)
      BY <1>0, <1>4, <1>6, <2>1 DEF Kept
    <3> QED
      BY <1>0, <3>1, SoleStays DEF Track
  <2>4. \A g \in Fds : ~AtLimit(g) /\ ~InHand(g)
    BY <1>6 DEF AtLimit, InHand
  <2>5. \A g \in Fds : Remembered(g)'
    BY <1>0, <1>2, <1>6, <2>4 DEF Track, Remembered, HasSession, Queued
  <2> QED
    BY <1>3, <2>2, <2>3, <2>5 DEF Track
<1>7. CASE AcceptFails
  BY <1>6, <1>7 DEF AcceptFails, kernelVars, Idle
<1>8. CASE AddToLoop
  BY <1>6, <1>8 DEF AddToLoop, kernelVars
<1>9. CASE Refuse
  <2>1. /\ acc.pc = "limit" /\ sock' = [sock EXCEPT ![acc.fd] = None] /\ acc' = Idle
        /\ UNCHANGED <<backlog, connections, sessions>>
    BY <1>9 DEF Refuse, kernelVars
  <2>2. /\ acc'.conn = None /\ acc.fd \in Fds /\ acc.conn # None
        /\ sock'[acc.fd] = None /\ \A g \in Fds : g # acc.fd => sock'[g] = sock[g]
    BY <1>1, <2>1 DEF Idle, IInv, SocketsOK
  <2>3. Fresh' /\ OnePlace' /\ Carried'
    BY <1>0, <1>2, <2>1, <2>2 DEF Track, Fresh, OnePlace, Carried
  <2>4. Sole'
    <3>1. \A c \in Clients : Kept(c)' => Kept(c)
      BY <1>0, <1>4, <2>1, <2>2 DEF Kept
    <3> QED
      BY <1>0, <3>1, SoleStays DEF Track
  <2>5. ASSUME NEW g \in Fds, sock'[g] # None
        PROVE  Remembered(g)'
    <3>1. g # acc.fd /\ sock'[g] = sock[g]
      BY <2>2, <2>5
    <3>2. ~AtLimit(g) /\ ~InHand(g)
      BY <3>1 DEF AtLimit, InHand
    <3> QED
      BY <1>0, <1>2, <2>1, <2>5, <3>1, <3>2 DEF Track, Remembered, HasSession, Queued
  <2>6. \A g \in Fds : Remembered(g)'
    BY <2>5 DEF Remembered
  <2> QED
    BY <1>3, <2>3, <2>4, <2>6 DEF Track
<1>10. CASE AddSession
  <2> DEFINE k == peer[acc.conn]
             s == [fd |-> acc.fd, conn |-> acc.conn, idle |-> FALSE]
  <2>1. /\ acc.pc = "limit" /\ acc' = [acc EXCEPT !.pc = "session"]
        /\ sessions' = IF sessions[k] # None THEN sessions ELSE [sessions EXCEPT ![k] = s]
        /\ UNCHANGED <<backlog, sock, connections>>
    BY <1>10 DEF AddSession, kernelVars
  <2>2. acc.conn # None /\ acc.conn \in Clients /\ acc.fd \in Fds /\ k \in Keys
    BY <1>1, <2>1
  <2>3. acc'.conn = acc.conn /\ acc'.fd = acc.fd /\ acc'.pc = "session"
    BY <2>1, <2>2 DEF IInv, AcceptOK, Idle, Ended
  <2>4. s.conn = acc.conn
    OBVIOUS
  <2>5. /\ sessions'[k] = IF sessions[k] # None THEN sessions[k] ELSE s
        /\ \A j \in Keys : j # k => sessions'[j] = sessions[j]
    BY <2>1, <2>2 DEF IInv, TablesOK
  <2>6. k \notin reused => sessions[k] = None
    <3> SUFFICES ASSUME k \notin reused, sessions[k] # None
                 PROVE  FALSE
      OBVIOUS
    <3>1. sessions[k].conn \in Clients /\ peer[sessions[k].conn] = k
      BY <2>2 DEF IInv, TablesOK, UserSessions, Track, Fresh
    <3>2. Kept(sessions[k].conn) /\ Kept(acc.conn)
      BY <3>1 DEF Kept
    <3>3. sessions[k].conn = acc.conn
      BY <2>2, <3>1, <3>2 DEF Track, Sole
    <3> QED
      BY <2>1, <2>2, <3>3 DEF Track, Carried
  <2> HIDE DEF s
  <2>7. Fresh'
    <3>1. \A j \in Keys : sessions'[j] # None =>
            /\ peer[sessions'[j].conn] = j
            /\ sessions'[j].conn \notin backlog /\ client[sessions'[j].conn] # "out"
      BY <2>2, <2>4, <2>5 DEF Track, Fresh
    <3> QED
      BY <1>0, <1>2, <2>1, <2>3, <3>1 DEF Track, Fresh
  <2>8. OnePlace' /\ Carried'
    BY <1>0, <2>1, <2>3 DEF Track, OnePlace, Carried
  <2>9. Sole'
    <3>1. ASSUME NEW c \in Clients, Kept(c)'
          PROVE  Kept(c)
      <4>1. sessions'[peer[c]] # None /\ sessions'[peer[c]].conn = c => Kept(c)
        BY <1>4, <2>4, <2>5 DEF Kept
      <4> QED
        BY <1>0, <2>1, <2>3, <3>1, <4>1 DEF Kept
    <3> QED
      BY <1>0, <3>1, SoleStays DEF Track
  <2>10. ASSUME NEW g \in Fds, sock[g] # None
         PROVE  Remembered(g)'
    <3>0. sock[g] \in Clients /\ peer[sock[g]] \in Keys
      BY <1>4, <2>10 DEF IInv, SocketsOK
    <3>1. CASE sock[g] = acc.conn
      <4>1. g = acc.fd
        BY <2>2, <3>1 DEF Track, Carried
      <4>2. peer[sock[g]] \notin reused => HasSession(g, sock[g])'
        BY <1>0, <2>1, <2>5, <2>6, <3>1, <4>1 DEF HasSession, s
      <4>3. InHand(g)'
        BY <2>3, <4>1 DEF InHand
      <4> QED
        BY <1>0, <2>1, <4>2, <4>3 DEF Remembered
    <3>2. CASE sock[g] # acc.conn
      <4>1. Kept(sock[g]) /\ Kept(acc.conn)
        BY DEF Kept
      <4>2. peer[sock[g]] \notin reused => peer[sock[g]] # k
        BY <2>2, <3>0, <3>2, <4>1 DEF Track, Sole
      <4>3. peer[sock[g]] \notin reused => sessions'[peer[sock[g]]] = sessions[peer[sock[g]]]
        BY <2>5, <3>0, <4>2
      <4>4. g # acc.fd
        BY <2>2, <2>10, <3>2 DEF Track, Carried
      <4>5. ~AtLimit(g) /\ ~InHand(g)
        BY <4>4 DEF AtLimit, InHand
      <4> QED
        BY <1>0, <1>2, <2>1, <2>10, <4>3, <4>5 DEF Track, Remembered, HasSession, Queued
    <3> QED
      BY <3>1, <3>2
  <2>11. \A g \in Fds : Remembered(g)'
    BY <2>1, <2>10 DEF Remembered
  <2> QED
    BY <1>3, <2>7, <2>8, <2>9, <2>11 DEF Track
<1>11. CASE SetNonBlocking
  <2>1. /\ acc.pc = "session" /\ acc' = [acc EXCEPT !.pc = "ready"]
        /\ UNCHANGED <<backlog, sock, connections, sessions>>
    BY <1>11 DEF SetNonBlocking, kernelVars
  <2>2. acc'.conn = acc.conn /\ acc'.fd = acc.fd /\ acc'.pc = "ready"
    BY <1>1, <2>1 DEF IInv, AcceptOK, Idle, Ended
  <2>3. Fresh' /\ OnePlace' /\ Carried'
    BY <1>0, <1>2, <2>1, <2>2 DEF Track, Fresh, OnePlace, Carried
  <2>4. Sole'
    <3>1. \A c \in Clients : Kept(c)' => Kept(c)
      BY <1>0, <2>1, <2>2 DEF Kept
    <3> QED
      BY <1>0, <3>1, SoleStays DEF Track
  <2>5. \A g \in Fds : ~AtLimit(g) /\ (InHand(g) => InHand(g)')
    BY <2>1, <2>2 DEF AtLimit, InHand
  <2>6. \A g \in Fds : Remembered(g)'
    BY <1>0, <1>2, <2>1, <2>5 DEF Track, Remembered, HasSession, Queued
  <2> QED
    BY <1>3, <2>3, <2>4, <2>6 DEF Track
<1>12. CASE DropClient
  <2> DEFINE k == peer[acc.conn]
  <2>1. /\ acc.pc = "session" /\ sock[acc.fd] = None /\ acc' = Idle
        /\ sessions' = [sessions EXCEPT ![k] = None]
        /\ UNCHANGED <<backlog, sock, connections>>
    BY <1>12 DEF DropClient, RemoveSession, kernelVars, Open
  <2>2. /\ acc.conn # None /\ acc.conn \in Clients /\ acc.fd \in Fds /\ k \in Keys
        /\ acc'.conn = None
    BY <1>1, <2>1 DEF Idle
  <2>3. sessions'[k] = None /\ \A j \in Keys : j # k => sessions'[j] = sessions[j]
    BY <2>1, <2>2 DEF IInv, TablesOK
  <2>4. Fresh' /\ OnePlace' /\ Carried'
    BY <1>0, <1>2, <2>1, <2>2, <2>3 DEF Track, Fresh, OnePlace, Carried
  <2>5. Sole'
    <3>1. \A c \in Clients : Kept(c)' => Kept(c)
      BY <1>0, <1>4, <2>1, <2>2, <2>3 DEF Kept
    <3> QED
      BY <1>0, <3>1, SoleStays DEF Track
  <2>6. ASSUME NEW g \in Fds, sock[g] # None
        PROVE  Remembered(g)'
    <3>1. sock[g] # acc.conn /\ sock[g] \in Clients /\ peer[sock[g]] \in Keys
      BY <1>4, <2>1, <2>2, <2>6 DEF Track, Carried, IInv, SocketsOK
    <3>2. Kept(sock[g]) /\ Kept(acc.conn)
      BY DEF Kept
    <3>3. peer[sock[g]] \notin reused => peer[sock[g]] # k
      BY <2>2, <3>1, <3>2 DEF Track, Sole
    <3>4. peer[sock[g]] \notin reused => sessions'[peer[sock[g]]] = sessions[peer[sock[g]]]
      BY <2>3, <3>1, <3>3
    <3>5. ~AtLimit(g) /\ ~InHand(g)
      BY <2>1, <2>6 DEF AtLimit, InHand
    <3> QED
      BY <1>0, <1>2, <2>1, <2>6, <3>4, <3>5 DEF Track, Remembered, HasSession, Queued
  <2>7. \A g \in Fds : Remembered(g)'
    BY <2>1, <2>6 DEF Remembered
  <2> QED
    BY <1>3, <2>4, <2>5, <2>7 DEF Track
<1>13. CASE PutConnection
  <2>1. /\ acc.pc = "ready"
        /\ connections' = [connections EXCEPT ![acc.fd] = acc.conn]
        /\ acc' = [acc EXCEPT !.pc = "put"]
        /\ UNCHANGED <<backlog, sock, sessions>>
    BY <1>13 DEF PutConnection, kernelVars
  <2>2. acc.conn # None /\ acc.conn \in Clients /\ acc.fd \in Fds
    BY <1>1, <2>1
  <2>3. acc'.conn = acc.conn /\ acc'.fd = acc.fd /\ acc'.pc = "put"
    BY <2>1, <2>2 DEF IInv, AcceptOK, Idle, Ended
  <2>4. /\ connections'[acc.fd] = acc.conn
        /\ \A g \in Fds : g # acc.fd => connections'[g] = connections[g]
    BY <2>1, <2>2 DEF IInv, TablesOK
  <2>5. sock[acc.fd] \in {acc.conn, None}
    BY <2>2 DEF Track, Carried
  <2>6. Fresh' /\ Carried'
    BY <1>0, <1>2, <2>1, <2>2, <2>3, <2>4 DEF Track, Fresh, Carried
  <2>7. OnePlace'
    <3> SUFFICES ASSUME NEW g \in Fds, NEW e \in Fds, sock[e] # None,
                        sock[e] \in {sock[g], connections'[g]}
                 PROVE  g = e
      BY <2>1 DEF OnePlace
    <3>1. CASE g = acc.fd
      BY <2>2, <2>4, <3>1 DEF Track, OnePlace, Carried
    <3>2. CASE g # acc.fd
      BY <2>4, <3>2 DEF Track, OnePlace
    <3> QED
      BY <3>1, <3>2
  <2>8. Sole'
    <3>1. ASSUME NEW c \in Clients, Kept(c)'
          PROVE  Kept(c)
      <4>1. ASSUME NEW g \in Fds, connections'[g] = c
            PROVE  Kept(c)
        BY <2>4, <4>1 DEF Kept
      <4> QED
        BY <1>0, <2>1, <2>3, <3>1, <4>1 DEF Kept
    <3> QED
      BY <1>0, <3>1, SoleStays DEF Track
  <2>9. ASSUME NEW g \in Fds, sock[g] # None
        PROVE  Remembered(g)'
    <3>1. ~AtLimit(g) /\ (g # acc.fd => ~InHand(g))
      BY <2>1 DEF AtLimit, InHand
    <3>2. connections'[g] = sock[g]
      BY <2>4, <2>5, <2>9, <3>1 DEF Track, Remembered
    <3> QED
      BY <1>0, <1>2, <2>1, <2>9, <3>1, <3>2 DEF Track, Remembered, HasSession, Queued
  <2>10. \A g \in Fds : Remembered(g)'
    BY <2>1, <2>9 DEF Remembered
  <2> QED
    BY <1>3, <2>6, <2>7, <2>8, <2>10 DEF Track
<1> QED
  BY <1>5, <1>7, <1>8, <1>9, <1>10, <1>11, <1>12, <1>13 DEF AcceptStep

(* A session that is only marked leaves everything where it was. *)
LEMMA TrackMark ==
    ASSUME IInv, Track, NEW k \in Keys, NEW b \in BOOLEAN, sessions[k] # None,
           sessions' = [sessions EXCEPT ![k] = [sessions[k] EXCEPT !.idle = b]],
           UNCHANGED <<peer, reused, client, backlog, sock, connections, expired, toClose, acc, loopPc, events>>
    PROVE  Track'
<1>1. sessions[k] \in UserSessions
  BY DEF IInv, TablesOK
<1>2. /\ sessions'[k] = [fd |-> sessions[k].fd, conn |-> sessions[k].conn, idle |-> b]
      /\ sessions'[k].conn = sessions[k].conn
      /\ \A j \in Keys : j # k => sessions'[j] = sessions[j]
  BY <1>1 DEF IInv, TablesOK, UserSessions
<1>3. Fresh'
  BY <1>2 DEF Track, Fresh
<1>4. OnePlace' /\ Carried' /\ Sole'
  <2>1. acc.conn # None => peer[acc.conn] \in Keys
    BY DEF IInv, AcceptOK, Idle, Ended, Basics
  <2>2. OnePlace' /\ Carried'
    BY <1>2, <2>1 DEF Track, OnePlace, Carried
  <2>3. \A c \in Clients : peer[c] \in Keys
    BY DEF IInv, Basics
  <2>4. \A c \in Clients : Kept(c)' => Kept(c)
    BY <1>2, <2>3 DEF Kept
  <2> QED
    BY <2>2, <2>4, SoleStays DEF Track
<1>5. ASSUME NEW f \in Fds, sock[f] # None, HasSession(f, sock[f])
      PROVE  HasSession(f, sock[f])'
  <2>1. peer[sock[f]] \in Keys
    BY <1>5 DEF IInv, SocketsOK, Basics
  <2>2. CASE peer[sock[f]] = k
    <3>1. sessions[k].fd = f /\ sessions[k].conn = sock[f]
      BY <1>5, <2>2 DEF HasSession
    <3> QED
      BY <1>2, <2>2, <3>1 DEF HasSession
  <2>3. CASE peer[sock[f]] # k
    BY <1>2, <1>5, <2>1, <2>3 DEF HasSession
  <2> QED
    BY <2>2, <2>3
<1>6. \A f \in Fds : Remembered(f)'
  BY <1>5 DEF Track, Remembered, Queued, AtLimit, InHand
<1>7. NothingToClose'
  BY DEF Track, NothingToClose
<1> QED
  BY <1>3, <1>4, <1>6, <1>7 DEF Track

(* A session that expires leaves its socket to the event loop. *)
LEMMA TrackSweeper ==
    ASSUME IInv, Track, NEW k \in Keys, GoIdle(k) \/ Expire(k)
    PROVE  Track'
<1>1. CASE GoIdle(k)
  BY <1>1, TrackMark DEF GoIdle, kernelVars, loopVars
<1>2. CASE Expire(k)
  <2>0. PICK h : h = [fd |-> sessions[k].fd, conn |-> sessions[k].conn]
    OBVIOUS
  <2>1. /\ sessions[k] # None /\ expired' = Append(expired, h)
        /\ sessions' = [sessions EXCEPT ![k] = None]
        /\ UNCHANGED <<peer, reused, client, backlog, sock, connections, toClose, acc, loopPc,
                       events>>
    BY <1>2, <2>0 DEF Expire, IsExpired, OnSessionExpired, kernelVars, loopVars
  <2>2. h \in Handles /\ expired \in Seq(Handles)
    BY <2>0, <2>1 DEF IInv, TablesOK, QueuesOK, UserSessions, Handles
  <2>3. sessions'[k] = None /\ \A j \in Keys : j # k => sessions'[j] = sessions[j]
    BY <2>1 DEF IInv, TablesOK
  <2>4. Fresh'
    BY <2>1, <2>3 DEF Track, Fresh
  <2>5. OnePlace' /\ Carried' /\ Sole'
    <3>1. acc.conn # None => peer[acc.conn] \in Keys
      BY DEF IInv, AcceptOK, Idle, Ended, Basics
    <3>2. OnePlace' /\ Carried'
      BY <2>1, <2>3, <3>1 DEF Track, OnePlace, Carried
    <3>3. \A c \in Clients : peer[c] \in Keys
      BY DEF IInv, Basics
    <3>4. \A c \in Clients : Kept(c)' => Kept(c)
      BY <2>1, <2>3, <3>3 DEF Kept
    <3> QED
      BY <2>1, <3>2, <3>4, SoleStays DEF Track
  <2>6. NothingToClose'
    BY <2>1 DEF Track, NothingToClose
  <2>7. /\ \A x : Queued(x) => Queued(x)'
        /\ Queued(h)'
    <3>1. /\ expired' \in Seq(Handles) /\ Len(expired') = Len(expired) + 1
          /\ \A i \in 1 .. Len(expired) : expired'[i] = expired[i]
          /\ expired'[Len(expired) + 1] = h
      BY <2>1, <2>2, AppendProperties
    <3>2. /\ Len(expired) \in Nat /\ DOMAIN expired = 1 .. Len(expired)
          /\ DOMAIN expired' = 1 .. Len(expired')
      BY <2>2, <3>1, LenProperties
    <3>3. \A i \in DOMAIN expired : i \in DOMAIN expired' /\ expired'[i] = expired[i]
      BY <3>1, <3>2
    <3>4. Len(expired) + 1 \in DOMAIN expired'
      BY <3>1, <3>2
    <3> QED
      BY <2>1, <3>1, <3>3, <3>4 DEF Queued
  <2>8. ASSUME NEW f \in Fds, sock[f] # None, HasSession(f, sock[f])
        PROVE  HasSession(f, sock[f])' \/ Queued([fd |-> f, conn |-> sock[f]])'
    <3>1. peer[sock[f]] \in Keys
      BY <2>8 DEF IInv, SocketsOK, Basics
    <3>2. CASE peer[sock[f]] = k
      <4>1. h = [fd |-> f, conn |-> sock[f]]
        BY <2>0, <2>8, <3>2 DEF HasSession
      <4>2. sock' = sock
        BY <2>1
      <4> QED
        BY <2>7, <4>1, <4>2
    <3>3. CASE peer[sock[f]] # k
      BY <2>1, <2>3, <2>8, <3>1, <3>3 DEF HasSession
    <3> QED
      BY <3>2, <3>3
  <2>9. \A f \in Fds : Queued([fd |-> f, conn |-> sock[f]]) => Queued([fd |-> f, conn |-> sock[f]])'
    <3>1. sock' = sock
      BY <2>1
    <3> QED
      BY <2>7, <3>1
  <2>10. \A f \in Fds : Remembered(f)'
    BY <2>1, <2>8, <2>9 DEF Track, Remembered, AtLimit, InHand
  <2> QED
    BY <2>4, <2>5, <2>6, <2>10 DEF Track
<1> QED
  BY <1>1, <1>2

(* The event loop: what it takes over it keeps until it closes it. *)
LEMMA TrackLoop ==
    ASSUME IInv, Track, LoopStep
    PROVE  Track'
<1>0. peer' = peer /\ reused \subseteq reused'
  BY PeersStay DEF Next
<1>1. CASE SwapExpired
  <2>1. /\ loopPc = "top" /\ toClose' = expired /\ expired' = <<>> /\ loopPc' = "closing"
        /\ UNCHANGED <<client, backlog, sock, connections, sessions, acc, events>>
    BY <1>1 DEF SwapExpired, kernelVars
  <2>2. toClose = <<>> /\ events = {}
    BY <2>1 DEF Track, NothingToClose
  <2>3. \A x : Queued(x) => Queued(x)'
    BY <2>1, <2>2 DEF Queued
  <2>4. NothingToClose'
    BY <2>1, <2>2 DEF NothingToClose
  <2>5. \A f \in Fds : Queued([fd |-> f, conn |-> sock[f]]) => Queued([fd |-> f, conn |-> sock[f]])'
    BY <2>1, <2>3
  <2>6. \A f \in Fds : Remembered(f)'
    BY <1>0, <2>1, <2>5 DEF Track, Remembered, HasSession, AtLimit, InHand
  <2>7. Fresh' /\ OnePlace' /\ Carried'
    BY <1>0, <2>1 DEF Track, Fresh, OnePlace, Carried
  <2>8. \A c \in Clients : Kept(c)' => Kept(c)
    BY <1>0, <2>1 DEF Kept
  <2> QED
    BY <1>0, <2>4, <2>6, <2>7, <2>8, SoleStays DEF Track
<1>2. CASE CloseExpired
  <2>1. /\ loopPc = "closing" /\ toClose # <<>> /\ CloseConnection(Head(toClose))
        /\ toClose' = Tail(toClose)
        /\ UNCHANGED <<client, backlog, expired, acc, loopPc, events>>
    BY <1>2 DEF CloseExpired, kernelVars
  <2>2. toClose \in Seq(Handles) /\ Head(toClose) = toClose[1]
    BY DEF IInv, QueuesOK
  <2>3. /\ Head(toClose) \in Handles /\ Tail(toClose) \in Seq(Handles)
        /\ Len(Tail(toClose)) = Len(toClose) - 1
        /\ \A i \in 1 .. Len(Tail(toClose)) : Tail(toClose)[i] = toClose[i + 1]
    BY <2>1, <2>2, HeadTailProperties
  <2>4. /\ Len(toClose) \in Nat /\ DOMAIN toClose = 1 .. Len(toClose)
        /\ DOMAIN Tail(toClose) = 1 .. Len(Tail(toClose))
    BY <2>2, <2>3, LenProperties
  <2>5. ASSUME NEW x \in Handles, x.fd # Head(toClose).fd, Queued(x)
        PROVE  Queued(x)'
    <3>1. CASE \E i \in DOMAIN expired : expired[i] = x
      BY <2>1, <3>1 DEF Queued
    <3>2. ASSUME NEW i \in DOMAIN toClose, toClose[i] = x
          PROVE  Queued(x)'
      <4>1. i # 1
        BY <2>2, <2>5, <3>2
      <4>2. i - 1 \in 1 .. Len(Tail(toClose)) /\ (i - 1) + 1 = i
        BY <2>3, <2>4, <4>1
      <4>3. i - 1 \in DOMAIN Tail(toClose) /\ Tail(toClose)[i - 1] = x
        BY <2>3, <2>4, <3>2, <4>2
      <4> QED
        BY <2>1, <4>3 DEF Queued
    <3> QED
      BY <2>5, <3>1, <3>2 DEF Queued
  <2>6. NothingToClose'
    BY <2>1 DEF Track, NothingToClose
  <2>7. Head(toClose).fd \in Fds
    BY <2>3, HandleIs
  <2> QED
    BY <2>1, <2>5, <2>6, <2>7, <1>0, TrackClose
<1>3. CASE Wait
  <2>1. /\ loopPc = "closing" /\ toClose = <<>>
        /\ loopPc' = IF events' = {} THEN "top" ELSE "dispatch"
        /\ UNCHANGED <<client, backlog, sock, connections, sessions, expired, toClose, acc>>
    BY <1>3 DEF Wait, kernelVars
  <2>2. NothingToClose'
    BY <2>1 DEF NothingToClose
  <2> QED
    BY <1>0, <2>1, <2>2, TrackFrame
<1>4. ASSUME NEW e \in events, EventDone(e), UNCHANGED toClose
      PROVE  NothingToClose'
  <2>1. toClose = <<>>
    BY DEF Track, NothingToClose
  <2> QED
    BY <1>4, <2>1 DEF EventDone, NothingToClose
<1>5. ASSUME NEW e \in events, Dispatch(e)
      PROVE  Track'
  <2>1. /\ EventDone(e)
        /\ UNCHANGED <<client, backlog, sock, connections, sessions, expired, toClose, acc>>
    BY <1>5 DEF Dispatch, kernelVars
  <2> QED
    BY <1>0, <1>4, <2>1, TrackFrame
<1>6. ASSUME NEW e \in events, DispatchHangUp(e)
      PROVE  Track'
  <2>1. /\ CloseConnection(e) /\ EventDone(e)
        /\ UNCHANGED <<client, backlog, expired, acc, toClose>>
    BY <1>6 DEF DispatchHangUp, kernelVars
  <2>2. e.fd \in Fds
    BY DEF IInv, LoopOK, Entries
  <2>3. \A x \in Handles : Queued(x) => Queued(x)'
    BY <2>1 DEF Queued
  <2> QED
    BY <1>4, <2>1, <2>2, <2>3, <1>0, TrackClose
<1> QED
  BY <1>1, <1>2, <1>3, <1>5, <1>6 DEF LoopStep

(* A worker closes a connection, marks its session or leaves both alone. *)
LEMMA TrackWorker ==
    ASSUME IInv, Track, NEW w \in Workers, WorkerStep(w)
    PROVE  Track'
<1>0. peer' = peer /\ reused \subseteq reused'
  BY PeersStay DEF Next
<1>1. UNCHANGED <<client, backlog, expired, toClose, acc, loopPc, events>>
  BY DEF WorkerStep, TakeJob, Recv, RecvWouldBlock, RecvBlocks, RecvClose, Reply, UpdateActivity,
         Rearm, kernelVars, loopVars
<1>2. NothingToClose'
  BY <1>1 DEF Track, NothingToClose
<1>3. \A x \in Handles : Queued(x) => Queued(x)'
  BY <1>1 DEF Queued
<1>4. CASE UNCHANGED <<sock, connections, sessions>>
  BY <1>0, <1>1, <1>2, <1>4, TrackFrame
<1>5. ASSUME pc[w] # "idle", CloseConnection(job[w])
      PROVE  Track'
  BY <1>1, <1>2, <1>3, <1>5, <1>0, JobIs, TrackClose
<1>6. CASE TakeJob(w) \/ Recv(w) \/ RecvWouldBlock(w) \/ RecvBlocks(w)
  BY <1>4, <1>6 DEF TakeJob, Recv, RecvWouldBlock, RecvBlocks
<1>7. CASE RecvClose(w)
  BY <1>5, <1>7 DEF RecvClose
<1>8. CASE Reply(w)
  <2> DEFINE k == peer[job[w].conn]
  <2>1. /\ pc[w] # "idle" /\ UNCHANGED <<sock, connections, reused>>
        /\ sessions' = IF sessions[k] = None THEN sessions
                       ELSE [sessions EXCEPT ![k] = [sessions[k] EXCEPT !.idle = FALSE]]
    BY <1>8 DEF Reply, UpdateActivity
  <2>2. k \in Keys
    BY <2>1, JobIs DEF IInv, Basics
  <2> QED
    BY <1>0, <1>1, <1>4, <2>1, <2>2, TrackMark
<1>9. CASE Rearm(w)
  BY <1>4, <1>5, <1>9 DEF Rearm
<1> QED
  BY <1>6, <1>7, <1>8, <1>9 DEF WorkerStep

(* Whatever descriptors and addresses are used again, every open socket the  *)
(* accept thread is done with is in the map, and has a session that can      *)
(* expire or waits to be closed, unless its address came back while the      *)
(* server still kept something of the connection before.                     *)
THEOREM NoSocketForgottenCorrect == Spec => []NoSocketForgotten
<1>1. Track => NoSocketForgotten
  <2> SUFFICES ASSUME Track, NEW f \in Fds, sock[f] # None, ~InHand(f)
               PROVE  /\ connections[f] = sock[f]
                      /\ peer[sock[f]] \notin reused => WillExpire(f)
    BY DEF NoSocketForgotten, Open
  <2>1. ~AtLimit(f)
    BY DEF AtLimit, InHand
  <2>2. HasSession(f, sock[f]) \/ Queued([fd |-> f, conn |-> sock[f]]) => WillExpire(f)
    BY DEF HasSession, Queued, WillExpire
  <2> QED
    BY <2>1, <2>2 DEF Track, Remembered
<1>2. Track /\ IInv /\ [Next]_vars => Track'
  <2> SUFFICES ASSUME Track, IInv, [Next]_vars
               PROVE  Track'
    OBVIOUS
  <2>1. CASE UNCHANGED vars
    <3>1. NothingToClose'
      BY <2>1 DEF vars, Track, NothingToClose
    <3> QED
      BY <2>1, <3>1, TrackFrame DEF vars
  <2> QED
    BY <2>1, TrackClient, TrackAccept, TrackSweeper, TrackLoop, TrackWorker DEF Next
<1> QED
  BY <1>1, <1>2, IInvInit, IInvStep, TrackInit, PTL DEF Spec

-----------------------------------------------------------------------------
(* One handler while muted. A handler is an event, then a job, then a worker *)
(* for a descriptor and the connection behind it. The argument needs neither *)
(* the sessions nor their keys.                                              *)

Handle(f) == [fd |-> f, conn |-> sock[f]]

EventsOf(f) == {e \in events : e.fd = f /\ e.conn = sock[f]}

JobsOf(f) == {n \in DOMAIN jobs : jobs[n] = Handle(f)}

WorkersOf(f) == {w \in Workers : pc[w] # "idle" /\ job[w] = Handle(f)}

NoHandler(f) == EventsOf(f) = {} /\ JobsOf(f) = {} /\ WorkersOf(f) = {}

OneHandler(f) ==
    \/ (\E e : EventsOf(f) = {e}) /\ JobsOf(f) = {} /\ WorkersOf(f) = {}
    \/ EventsOf(f) = {} /\ (\E n : JobsOf(f) = {n}) /\ WorkersOf(f) = {}
    \/ EventsOf(f) = {} /\ JobsOf(f) = {} /\ (\E w : WorkersOf(f) = {w})

(* An open socket that is not muted has no handler, a muted one has one. *)
Handled(f) ==
    Open(f) => IF reg[f] = "muted" THEN OneHandler(f) ELSE NoHandler(f)

(* A connection that has been accepted is one nobody waits to accept. *)
Accepted(c) == c \notin backlog /\ client[c] # "out"

(* Whatever names a connection names one that has been accepted. *)
NamesAccepted ==
    /\ \A c \in backlog : client[c] # "out"
    /\ \A e \in events : Accepted(e.conn)
    /\ \A n \in DOMAIN jobs : Accepted(jobs[n].conn)
    /\ \A w \in Workers : pc[w] # "idle" => Accepted(job[w].conn)
    /\ \A f \in Fds : sock[f] # None => Accepted(sock[f])
    /\ \A f \in Fds : connections[f] # None => Accepted(connections[f])
    /\ acc.conn # None => Accepted(acc.conn)

(* The socket the accept thread has in hand is not watched yet. *)
NotYetWatched ==
    acc.conn # None =>
        /\ sock[acc.fd] \in {acc.conn, None}
        /\ reg[acc.fd] = "none"
        /\ acc.pc = "put" /\ Open(acc.fd) => connections[acc.fd] = acc.conn

(* A watched socket has its Connection in the map. *)
WatchedIsMapped == \A f \in Fds : reg[f] # "none" => connections[f] = sock[f]

(* The loop waits when it has handled all events. *)
EventsInDispatch == events # {} => loopPc = "dispatch"

HandlerInv ==
    /\ NamesAccepted /\ NotYetWatched /\ WatchedIsMapped /\ EventsInDispatch
    /\ ~crossed => \A f \in Fds : Handled(f)

(* Nothing is watched at first. *)
LEMMA HandlerInit == Init => HandlerInv
BY DEF Init, HandlerInv, NamesAccepted, NotYetWatched, WatchedIsMapped, EventsInDispatch, Handled,
       Open, Idle

(* What a handler of g depends on. *)
LEMMA HandledFrame ==
    ASSUME NEW g \in Fds, Handled(g), sock'[g] = sock[g], reg'[g] = reg[g],
           EventsOf(g)' = EventsOf(g), JobsOf(g)' = JobsOf(g), WorkersOf(g)' = WorkersOf(g)
    PROVE  Handled(g)'
BY DEF Handled, Open, OneHandler, NoHandler

(* The accept thread's record. *)
LEMMA AccIs ==
    ASSUME IInv
    PROVE  /\ acc.conn # None <=> acc.pc \in {"limit", "session", "ready", "put"}
           /\ acc.conn # None => /\ acc.conn \in Clients /\ acc.fd \in Fds
                                 /\ acc \in [pc : {"limit", "session", "ready", "put"},
                                             conn : Clients, fd : Fds]
BY ConstantsAssumption DEF IInv, AcceptOK, Idle, Ended

(* A client's step: a connection that enters the backlog is named by nobody. *)
LEMMA HandlerClient ==
    ASSUME IInv, HandlerInv, NEW c \in Clients, ClientStep(c)
    PROVE  HandlerInv'
<1>1. UNCHANGED <<sock, reg, connections, jobs, acc, loopPc, events, pc, job, crossed>>
  BY DEF ClientStep, Connect, Send, Leave, loopVars, workerVars
<1>2. /\ \A d \in Clients : client[d] # "out" => client'[d] # "out"
      /\ client'[c] # "out"
      /\ backlog' = backlog \/ (client[c] = "out" /\ backlog' = backlog \union {c})
  <2>1. client \in [Clients -> {"out", "in", "hungup", "reset"}]
    BY DEF IInv, KernelOK
  <2> QED
    BY <2>1 DEF ClientStep, Connect, Send, Leave
<1>3. \A d \in Clients : Accepted(d) => Accepted(d)'
  BY <1>2 DEF Accepted
<1>4. NamesAccepted'
  <2>1. \A d \in backlog' : client'[d] # "out"
    BY <1>2 DEF HandlerInv, NamesAccepted, IInv, KernelOK
  <2>2. \A e \in events : e.conn \in Clients
    BY DEF IInv, LoopOK, Entries
  <2>3. \A n \in DOMAIN jobs : jobs[n].conn \in Clients
    <3>1. \A n \in DOMAIN jobs : jobs[n] \in Handles
      BY DEF IInv, QueuesOK
    <3> QED
      BY <3>1, HandleIs
  <2>4. \A w \in Workers : pc[w] # "idle" => job[w].conn \in Clients
    BY JobIs
  <2>5. /\ \A f \in Fds : sock[f] # None => sock[f] \in Clients
        /\ \A f \in Fds : connections[f] # None => connections[f] \in Clients
    BY DEF IInv, SocketsOK, TablesOK
  <2>6. acc.conn # None => acc.conn \in Clients
    BY AccIs
  <2>7. \A e \in events' : Accepted(e.conn)'
    BY <1>1, <1>3, <2>2 DEF HandlerInv, NamesAccepted
  <2>8. \A n \in DOMAIN jobs' : Accepted(jobs[n].conn)'
    BY <1>1, <1>3, <2>3 DEF HandlerInv, NamesAccepted, Accepted
  <2>9. \A w \in Workers : pc'[w] # "idle" => Accepted(job[w].conn)'
    BY <1>1, <1>3, <2>4 DEF HandlerInv, NamesAccepted, Accepted
  <2>10. /\ \A f \in Fds : sock'[f] # None => Accepted(sock[f])'
         /\ \A f \in Fds : connections'[f] # None => Accepted(connections[f])'
         /\ acc'.conn # None => Accepted(acc.conn)'
    BY <1>1, <1>3, <2>5, <2>6 DEF HandlerInv, NamesAccepted, Accepted
  <2> QED
    BY <2>1, <2>7, <2>8, <2>9, <2>10 DEF NamesAccepted
<1>5. NotYetWatched' /\ WatchedIsMapped' /\ EventsInDispatch'
  BY <1>1 DEF HandlerInv, NotYetWatched, WatchedIsMapped, EventsInDispatch, Open
<1>6. \A f \in Fds : Handled(f) => Handled(f)'
  BY <1>1 DEF Handled, Open, OneHandler, NoHandler, EventsOf, JobsOf, WorkersOf, Handle
<1> QED
  BY <1>1, <1>4, <1>5, <1>6 DEF HandlerInv

(* After closeConnection the descriptor is neither open nor watched, and the *)
(* handlers of the other descriptors are where they were.                    *)
LEMMA HandlerClose ==
    ASSUME IInv, HandlerInv, NEW h, h.fd \in Fds, CloseConnection(h),
           UNCHANGED <<client, backlog, acc, jobs>>,
           events' \subseteq events, \A e \in events : e.fd # h.fd => e \in events',
           EventsInDispatch',
           \A w \in Workers : \/ pc'[w] = pc[w] /\ job'[w] = job[w]
                              \/ pc[w] # "idle" /\ job[w].fd = h.fd /\ pc'[w] = "idle"
    PROVE  HandlerInv'
<1> DEFINE f == h.fd
<1>1. /\ reg' = [reg EXCEPT ![f] = "none"]
      /\ connections' = [connections EXCEPT ![f] = None]
      /\ sock' = [sock EXCEPT ![f] = None]
      /\ crossed' = (crossed \/ Crosses(h))
  BY DEF CloseConnection
<1> HIDE DEF f
<1>2. /\ f \in Fds /\ reg'[f] = "none" /\ connections'[f] = None /\ sock'[f] = None
      /\ \A g \in Fds : g # f => /\ reg'[g] = reg[g] /\ connections'[g] = connections[g]
                                 /\ sock'[g] = sock[g]
  BY <1>1 DEF IInv, SocketsOK, TablesOK, f
<1>3. NamesAccepted'
  BY <1>2 DEF HandlerInv, NamesAccepted, Accepted
<1>4. NotYetWatched'
  <2>1. acc.conn # None => acc.fd \in Fds
    BY AccIs
  <2> QED
    BY <1>2, <2>1 DEF HandlerInv, NotYetWatched, Open
<1>5. WatchedIsMapped'
  BY <1>2 DEF HandlerInv, WatchedIsMapped
<1>6. ASSUME NEW g \in Fds, Handled(g)
      PROVE  Handled(g)'
  <2>1. CASE g = f
    BY <2>1, <1>2 DEF Handled, Open
  <2>2. CASE g # f
    <3>1. sock'[g] = sock[g] /\ reg'[g] = reg[g] /\ Handle(g)' = Handle(g)
      BY <1>2, <2>2 DEF Handle
    <3>2. EventsOf(g)' = EventsOf(g)
      BY <2>2, <3>1 DEF EventsOf, f
    <3>3. JobsOf(g)' = JobsOf(g)
      BY <3>1 DEF JobsOf
    <3>4. WorkersOf(g)' = WorkersOf(g)
      BY <2>2, <3>1 DEF WorkersOf, Handle, f
    <3> QED
      BY <1>6, <3>1, <3>2, <3>3, <3>4, HandledFrame
  <2> QED
    BY <2>1, <2>2
<1>7. ~crossed' => ~crossed
  BY <1>1, Zenon
<1> QED
  BY <1>3, <1>4, <1>5, <1>6, <1>7 DEF HandlerInv

(* Steps that touch nothing a handler depends on. *)
LEMMA HandlerFrame ==
    ASSUME HandlerInv, EventsInDispatch', ~crossed' => ~crossed,
           UNCHANGED <<client, backlog, sock, reg, connections, jobs, acc, events>>,
           \A w \in Workers : \/ pc'[w] = pc[w] /\ job'[w] = job[w]
                              \/ pc[w] # "idle" /\ pc'[w] # "idle" /\ job'[w] = job[w]
    PROVE  HandlerInv'
<1>1. NamesAccepted' /\ NotYetWatched' /\ WatchedIsMapped'
  BY DEF HandlerInv, NamesAccepted, Accepted, NotYetWatched, WatchedIsMapped, Open
<1>2. \A f \in Fds : WorkersOf(f)' = WorkersOf(f)
  BY DEF WorkersOf, Handle
<1>3. \A f \in Fds : EventsOf(f)' = EventsOf(f) /\ JobsOf(f)' = JobsOf(f)
  BY DEF EventsOf, JobsOf, Handle
<1>4. \A f \in Fds : Handled(f) => Handled(f)'
  BY <1>2, <1>3, HandledFrame
<1> QED
  BY <1>1, <1>4 DEF HandlerInv

(* The accept thread: nobody has a handler for the connection it accepts. *)
LEMMA HandlerAccept ==
    ASSUME IInv, HandlerInv, AcceptStep
    PROVE  HandlerInv'
<1>1. UNCHANGED <<client, jobs, events, loopPc, pc, job>>
  BY DEF AcceptStep, Accept, AcceptFails, Refuse, AddSession, SetNonBlocking, DropClient,
         PutConnection, AddToLoop, kernelVars, loopVars, workerVars
<1>2. EventsInDispatch'
  BY <1>1 DEF HandlerInv, EventsInDispatch
<1>3. /\ sock \in [Fds -> Clients \union {None}] /\ reg \in [Fds -> {"none", "armed", "muted"}]
      /\ connections \in [Fds -> Clients \union {None}]
      /\ \A f \in Fds : reg[f] # "none" => Open(f)
  BY DEF IInv, SocketsOK, TablesOK
<1>4. ASSUME NEW c \in Clients, NEW f \in Fds, Accept(c, f)
      PROVE  HandlerInv'
  <2>1. /\ acc = Idle /\ c \in backlog /\ ~Open(f) /\ backlog' = backlog \ {c}
        /\ sock' = [sock EXCEPT ![f] = c]
        /\ acc' = [pc |-> "limit", conn |-> c, fd |-> f]
        /\ UNCHANGED <<reg, connections, crossed>>
    BY <1>4 DEF Accept
  <2>2. /\ sock'[f] = c /\ c # None /\ \A g \in Fds : g # f => sock'[g] = sock[g]
        /\ acc'.conn = c /\ acc'.fd = f /\ acc'.pc = "limit" /\ reg[f] = "none"
    BY <1>3, <2>1, ConstantsAssumption
  <2>3. client[c] # "out" /\ Accepted(c)'
    BY <1>1, <2>1 DEF HandlerInv, NamesAccepted, Accepted
  <2>4. NamesAccepted'
    BY <1>1, <2>1, <2>2, <2>3 DEF HandlerInv, NamesAccepted, Accepted
  <2>5. NotYetWatched'
    BY <2>1, <2>2 DEF NotYetWatched
  <2>6. WatchedIsMapped'
    BY <2>1, <2>2 DEF HandlerInv, WatchedIsMapped
  <2>7. NoHandler(f)'
    <3>1. EventsOf(f)' = {}
      BY <1>1, <2>1, <2>2 DEF EventsOf, HandlerInv, NamesAccepted, Accepted
    <3>2. JobsOf(f)' = {}
      <4>1. \A n \in DOMAIN jobs : jobs[n].conn # c
        BY <2>1 DEF HandlerInv, NamesAccepted, Accepted
      <4> QED
        BY <1>1, <2>2, <4>1 DEF JobsOf, Handle
    <3>3. WorkersOf(f)' = {}
      <4>1. \A w \in Workers : pc[w] # "idle" => job[w].conn # c
        BY <2>1 DEF HandlerInv, NamesAccepted, Accepted
      <4> QED
        BY <1>1, <2>2, <4>1 DEF WorkersOf, Handle
    <3> QED
      BY <3>1, <3>2, <3>3 DEF NoHandler
  <2>8. ASSUME NEW g \in Fds, Handled(g)
        PROVE  Handled(g)'
    <3>1. CASE g = f
      BY <2>1, <2>2, <2>7, <3>1 DEF Handled
    <3>2. CASE g # f
      BY <1>1, <2>1, <2>2, <2>8, <3>2, HandledFrame DEF EventsOf, JobsOf, WorkersOf, Handle
    <3> QED
      BY <3>1, <3>2
  <2> QED
    BY <1>2, <2>1, <2>4, <2>5, <2>6, <2>8 DEF HandlerInv
<1>5. CASE AcceptFails
  <2>1. /\ acc' = Ended /\ UNCHANGED <<backlog, sock, reg, connections, crossed>>
    BY <1>5 DEF AcceptFails, kernelVars
  <2>2. acc'.conn = None
    BY <2>1 DEF Ended
  <2>3. NamesAccepted' /\ NotYetWatched' /\ WatchedIsMapped'
    BY <1>1, <2>1, <2>2 DEF HandlerInv, NamesAccepted, Accepted, NotYetWatched, WatchedIsMapped
  <2>4. \A g \in Fds : Handled(g) => Handled(g)'
    BY <1>1, <2>1, HandledFrame DEF EventsOf, JobsOf, WorkersOf, Handle
  <2> QED
    BY <1>2, <2>1, <2>3, <2>4 DEF HandlerInv
<1>6. CASE Refuse
  <2> DEFINE f == acc.fd
  <2>1. /\ acc.pc = "limit" /\ acc' = Idle
        /\ crossed' = (crossed \/ Crosses([fd |-> acc.fd, conn |-> acc.conn]))
        /\ sock' = [sock EXCEPT ![f] = None]
        /\ reg' = [reg EXCEPT ![f] = "none"]
        /\ UNCHANGED <<backlog, connections>>
    BY <1>6 DEF Refuse, kernelVars
  <2>2. f \in Fds /\ acc'.conn = None
    BY <2>1, AccIs DEF Idle
  <2> HIDE DEF f
  <2>3. /\ sock'[f] = None /\ reg'[f] = "none"
        /\ \A g \in Fds : g # f => sock'[g] = sock[g] /\ reg'[g] = reg[g]
    BY <1>3, <2>1, <2>2
  <2>4. NamesAccepted' /\ NotYetWatched' /\ WatchedIsMapped'
    BY <1>1, <2>1, <2>2, <2>3 DEF HandlerInv, NamesAccepted, Accepted, NotYetWatched,
       WatchedIsMapped
  <2>5. ASSUME NEW g \in Fds, Handled(g)
        PROVE  Handled(g)'
    <3>1. CASE g = f
      BY <2>3, <3>1 DEF Handled, Open
    <3>2. CASE g # f
      BY <1>1, <2>3, <2>5, <3>2, HandledFrame DEF EventsOf, JobsOf, WorkersOf, Handle
    <3> QED
      BY <3>1, <3>2
  <2>6. ~crossed' => ~crossed
    BY <2>1, Zenon
  <2> QED
    BY <1>2, <2>4, <2>5, <2>6 DEF HandlerInv
<1>7. CASE AddSession \/ SetNonBlocking
  <2>1. /\ acc.pc \in {"limit", "session"}
        /\ \E to \in {"session", "ready"} : acc' = [acc EXCEPT !.pc = to]
        /\ UNCHANGED <<backlog, sock, reg, connections, crossed>>
    BY <1>7 DEF AddSession, SetNonBlocking, kernelVars
  <2>2. acc'.conn = acc.conn /\ acc'.fd = acc.fd /\ acc'.pc # "put"
    BY <2>1, AccIs
  <2>3. NamesAccepted' /\ NotYetWatched' /\ WatchedIsMapped'
    BY <1>1, <2>1, <2>2 DEF HandlerInv, NamesAccepted, Accepted, NotYetWatched, WatchedIsMapped
  <2>4. \A g \in Fds : Handled(g) => Handled(g)'
    BY <1>1, <2>1, HandledFrame DEF EventsOf, JobsOf, WorkersOf, Handle
  <2> QED
    BY <1>2, <2>1, <2>3, <2>4 DEF HandlerInv
<1>8. CASE DropClient
  <2>1. /\ acc' = Idle /\ UNCHANGED <<backlog, sock, reg, connections, crossed>>
    BY <1>8 DEF DropClient, kernelVars
  <2>2. acc'.conn = None
    BY <2>1 DEF Idle
  <2>3. NamesAccepted' /\ NotYetWatched' /\ WatchedIsMapped'
    BY <1>1, <2>1, <2>2 DEF HandlerInv, NamesAccepted, Accepted, NotYetWatched, WatchedIsMapped
  <2>4. \A g \in Fds : Handled(g) => Handled(g)'
    BY <1>1, <2>1, HandledFrame DEF EventsOf, JobsOf, WorkersOf, Handle
  <2> QED
    BY <1>2, <2>1, <2>3, <2>4 DEF HandlerInv
<1>9. CASE PutConnection
  <2>1. /\ acc.pc = "ready" /\ acc' = [acc EXCEPT !.pc = "put"]
        /\ connections' = [connections EXCEPT ![acc.fd] = acc.conn]
        /\ UNCHANGED <<backlog, sock, reg, crossed>>
    BY <1>9 DEF PutConnection, kernelVars
  <2>2. /\ acc'.conn = acc.conn /\ acc'.fd = acc.fd /\ acc'.pc = "put"
        /\ acc.conn # None /\ acc.fd \in Fds
    BY <2>1, AccIs
  <2>3. /\ connections'[acc.fd] = acc.conn /\ reg[acc.fd] = "none"
        /\ \A g \in Fds : g # acc.fd => connections'[g] = connections[g]
    BY <1>3, <2>1, <2>2 DEF HandlerInv, NotYetWatched
  <2>4. NamesAccepted' /\ NotYetWatched' /\ WatchedIsMapped'
    BY <1>1, <2>1, <2>2, <2>3 DEF HandlerInv, NamesAccepted, Accepted, NotYetWatched,
       WatchedIsMapped
  <2>5. \A g \in Fds : Handled(g) => Handled(g)'
    BY <1>1, <2>1, HandledFrame DEF EventsOf, JobsOf, WorkersOf, Handle
  <2> QED
    BY <1>2, <2>1, <2>4, <2>5 DEF HandlerInv
<1>10. CASE AddToLoop
  <2> DEFINE f == acc.fd
  <2>1. /\ acc.pc = "put" /\ acc' = Idle
        /\ reg' = IF Open(f) THEN [reg EXCEPT ![f] = "armed"] ELSE reg
        /\ UNCHANGED <<backlog, sock, connections, crossed>>
    BY <1>10 DEF AddToLoop, kernelVars
  <2>2. f \in Fds /\ acc'.conn = None /\ acc.conn # None /\ reg[f] = "none"
    BY <2>1, AccIs DEF Idle, HandlerInv, NotYetWatched
  <2>3. Open(f) => connections[f] = sock[f]
    BY <2>1, <2>2 DEF HandlerInv, NotYetWatched, Open
  <2> HIDE DEF f
  <2>4. /\ reg'[f] # "muted" /\ (~Open(f) => reg'[f] = "none")
        /\ \A g \in Fds : g # f => reg'[g] = reg[g]
    BY <1>3, <2>1, <2>2
  <2>5. NamesAccepted' /\ NotYetWatched'
    BY <1>1, <2>1, <2>2 DEF HandlerInv, NamesAccepted, Accepted, NotYetWatched
  <2>6. WatchedIsMapped'
    BY <2>1, <2>3, <2>4 DEF HandlerInv, WatchedIsMapped
  <2>7. ASSUME NEW g \in Fds, Handled(g)
        PROVE  Handled(g)'
    <3>1. /\ EventsOf(g)' = EventsOf(g) /\ JobsOf(g)' = JobsOf(g) /\ WorkersOf(g)' = WorkersOf(g)
          /\ sock'[g] = sock[g]
      BY <1>1, <2>1 DEF EventsOf, JobsOf, WorkersOf, Handle
    <3>2. CASE g = f
      BY <2>2, <2>4, <2>7, <3>1, <3>2 DEF Handled, Open, NoHandler
    <3>3. CASE g # f
      BY <2>4, <2>7, <3>1, <3>3, HandledFrame
    <3> QED
      BY <3>2, <3>3
  <2> QED
    BY <1>2, <2>1, <2>5, <2>6, <2>7 DEF HandlerInv
<1> QED
  BY <1>4, <1>5, <1>6, <1>7, <1>8, <1>9, <1>10 DEF AcceptStep

(* The sweeper and the passing of time: sessions name no handler. *)
LEMMA HandlerSweeper ==
    ASSUME HandlerInv, NEW k \in Keys, GoIdle(k) \/ Expire(k)
    PROVE  HandlerInv'
<1>1. UNCHANGED <<client, backlog, sock, reg, connections, jobs, acc, loopPc, events, pc, job,
                  crossed>>
  BY DEF GoIdle, Expire, kernelVars, loopVars, workerVars
<1>2. EventsInDispatch'
  BY <1>1 DEF HandlerInv, EventsInDispatch
<1> QED
  BY <1>1, <1>2, HandlerFrame

(* epoll_wait reports and mutes sockets nobody has a handler for. *)
LEMMA HandlerWait ==
    ASSUME IInv, HandlerInv, Wait
    PROVE  HandlerInv'
<1>1. /\ loopPc = "closing"
      /\ events' = {Entry(f) : f \in {g \in Fds : Ready(g)}}
      /\ reg' = [f \in Fds |-> IF Ready(f) THEN "muted" ELSE reg[f]]
      /\ loopPc' = IF events' = {} THEN "top" ELSE "dispatch"
      /\ UNCHANGED <<client, backlog, sock, connections, jobs, acc, pc, job, crossed>>
  BY DEF Wait, kernelVars, workerVars
<1>2. events = {}
  BY <1>1 DEF HandlerInv, EventsInDispatch
<1>3. \A f \in Fds : Ready(f) => reg[f] = "armed" /\ Open(f)
  BY DEF Ready, IInv, SocketsOK
<1>4. \A f \in Fds : Entry(f).fd = f /\ Entry(f).conn = sock[f]
  BY DEF Entry
<1>5. EventsInDispatch'
  BY <1>1 DEF EventsInDispatch
<1>6. NamesAccepted'
  <2>1. \A e \in events' : Accepted(e.conn)
    BY <1>1, <1>3, <1>4 DEF HandlerInv, NamesAccepted, Open
  <2> QED
    BY <1>1, <2>1 DEF HandlerInv, NamesAccepted, Accepted
<1>7. NotYetWatched'
  <2>1. acc.conn # None => acc.fd \in Fds
    BY AccIs
  <2> QED
    BY <1>1, <1>3, <2>1 DEF HandlerInv, NotYetWatched, Open
<1>8. WatchedIsMapped'
  BY <1>1, <1>3 DEF HandlerInv, WatchedIsMapped
<1>9. ASSUME NEW f \in Fds, Handled(f)
      PROVE  Handled(f)'
  <2>1. JobsOf(f)' = JobsOf(f) /\ WorkersOf(f)' = WorkersOf(f) /\ Open(f)' = Open(f)
    BY <1>1 DEF JobsOf, WorkersOf, Handle, Open
  <2>2. EventsOf(f) = {}
    BY <1>2 DEF EventsOf
  <2>3. CASE Ready(f)
    <3>1. NoHandler(f)
      BY <1>3, <1>9, <2>3 DEF Handled
    <3>2. EventsOf(f)' = {Entry(f)}
      BY <1>1, <1>4, <2>3 DEF EventsOf
    <3>3. reg'[f] = "muted"
      BY <1>1, <2>3
    <3>4. OneHandler(f)'
      BY <2>1, <3>1, <3>2 DEF OneHandler, NoHandler
    <3> QED
      BY <3>3, <3>4 DEF Handled
  <2>4. CASE ~Ready(f)
    <3>1. EventsOf(f)' = {}
      BY <1>1, <1>4, <2>4 DEF EventsOf
    <3>2. reg'[f] = reg[f] /\ sock'[f] = sock[f]
      BY <1>1, <2>4
    <3> QED
      BY <1>9, <2>1, <2>2, <3>1, <3>2, HandledFrame
  <2> QED
    BY <2>3, <2>4
<1> QED
  BY <1>1, <1>5, <1>6, <1>7, <1>8, <1>9 DEF HandlerInv

(* The loop hands an event on to the pool: one handler in another place. *)
LEMMA HandlerDispatch ==
    ASSUME IInv, HandlerInv, NEW e \in events, Dispatch(e)
    PROVE  HandlerInv'
<1> DEFINE f == e.fd
           h == [fd |-> f, conn |-> connections[f]]
<1>1. /\ jobs' = IF connections[f] # None THEN Append(jobs, h) ELSE jobs
      /\ crossed' = (crossed \/ Crosses(e))
      /\ events' = events \ {e}
      /\ loopPc' = IF events' = {} THEN "top" ELSE "dispatch"
      /\ UNCHANGED <<client, backlog, sock, reg, connections, acc, pc, job>>
  BY DEF Dispatch, Found, EventDone, kernelVars, workerVars
<1>2. f \in Fds
  BY DEF IInv, LoopOK, Entries
<1>3. jobs \in Seq(Handles) /\ Len(jobs) \in Nat /\ DOMAIN jobs = 1 .. Len(jobs)
  BY LenProperties DEF IInv, QueuesOK
<1>4. h.fd = f /\ h.conn = connections[f] /\ (connections[f] # None => h \in Handles)
  BY <1>2 DEF IInv, TablesOK, Handles
<1> HIDE DEF h
<1>5. connections[f] # None => /\ DOMAIN jobs' = 1 .. Len(jobs) + 1
                               /\ \A n \in 1 .. Len(jobs) : jobs'[n] = jobs[n]
                               /\ jobs'[Len(jobs) + 1] = h
  BY <1>1, <1>3, <1>4, AppendProperties
<1>6. EventsInDispatch'
  BY <1>1 DEF EventsInDispatch
<1>7. NamesAccepted'
  <2>1. \A n \in DOMAIN jobs' : Accepted(jobs'[n].conn)
    <3>1. CASE connections[f] = None
      BY <1>1, <3>1 DEF HandlerInv, NamesAccepted
    <3>2. CASE connections[f] # None
      <4>1. Accepted(h.conn)
        BY <1>2, <1>4, <3>2 DEF HandlerInv, NamesAccepted
      <4>2. \A n \in 1 .. Len(jobs) : Accepted(jobs[n].conn)
        BY <1>3 DEF HandlerInv, NamesAccepted
      <4> QED
        BY <1>3, <1>5, <3>2, <4>1, <4>2
    <3> QED
      BY <3>1, <3>2
  <2> QED
    BY <1>1, <2>1 DEF HandlerInv, NamesAccepted, Accepted
<1>8. NotYetWatched' /\ WatchedIsMapped'
  BY <1>1 DEF HandlerInv, NotYetWatched, WatchedIsMapped, Open
<1>9. ASSUME NEW g \in Fds, g # f, Handled(g)
      PROVE  Handled(g)'
  <2>1. EventsOf(g)' = EventsOf(g) /\ WorkersOf(g)' = WorkersOf(g)
    BY <1>1, <1>9 DEF EventsOf, WorkersOf, Handle
  <2>2. Handle(g)' = Handle(g) /\ h # Handle(g)
    BY <1>1, <1>4, <1>9 DEF Handle
  <2>3. JobsOf(g)' = JobsOf(g)
    BY <1>1, <1>3, <1>5, <2>2 DEF JobsOf
  <2> QED
    BY <1>1, <1>9, <2>1, <2>3, HandledFrame
<1>10. ASSUME Handled(f), ~Crosses(e), Open(f)
       PROVE  Handled(f)'
  <2>1. e.conn = sock[f] /\ e \in EventsOf(f)
    BY <1>10 DEF Crosses, Open, EventsOf
  <2>2. reg[f] = "muted" /\ EventsOf(f) = {e} /\ JobsOf(f) = {} /\ WorkersOf(f) = {}
    BY <1>10, <2>1 DEF Handled, OneHandler, NoHandler
  <2>3. connections[f] = sock[f] /\ connections[f] # None
    BY <1>2, <1>10, <2>2 DEF HandlerInv, WatchedIsMapped, Open
  <2>4. h = Handle(f) /\ Handle(f)' = Handle(f)
    BY <1>1, <2>3 DEF Handle, h
  <2>5. JobsOf(f)' = {Len(jobs) + 1}
    <3>1. \A n \in 1 .. Len(jobs) : jobs[n] # Handle(f)
      BY <1>3, <2>2 DEF JobsOf
    <3> QED
      BY <1>3, <1>5, <2>3, <2>4, <3>1 DEF JobsOf
  <2>6. EventsOf(f)' = {} /\ WorkersOf(f)' = {}
    BY <1>1, <2>2 DEF EventsOf, WorkersOf, Handle
  <2> QED
    BY <1>1, <2>2, <2>5, <2>6 DEF Handled, OneHandler
<1>11. ASSUME ~Open(f)
       PROVE  Handled(f)'
  BY <1>1, <1>11 DEF Handled, Open
<1>12. ~crossed' => ~crossed /\ ~Crosses(e)
  BY <1>1, Zenon
<1> QED
  BY <1>2, <1>6, <1>7, <1>8, <1>9, <1>10, <1>11, <1>12 DEF HandlerInv

(* The event loop. *)
LEMMA HandlerLoop ==
    ASSUME IInv, HandlerInv, LoopStep
    PROVE  HandlerInv'
<1>1. CASE SwapExpired
  <2>1. /\ loopPc = "top"
        /\ UNCHANGED <<client, backlog, sock, reg, connections, jobs, acc, events, pc, job,
                       crossed>>
    BY <1>1 DEF SwapExpired, kernelVars, workerVars
  <2>2. EventsInDispatch'
    BY <2>1 DEF HandlerInv, EventsInDispatch
  <2> QED
    BY <2>1, <2>2, HandlerFrame
<1>2. CASE CloseExpired
  <2>1. /\ toClose # <<>> /\ CloseConnection(Head(toClose))
        /\ UNCHANGED <<client, backlog, jobs, acc, loopPc, events, pc, job>>
    BY <1>2 DEF CloseExpired, kernelVars, workerVars
  <2>2. Head(toClose).fd \in Fds
    BY <2>1, HeadTailProperties, HandleIs DEF IInv, QueuesOK
  <2>3. EventsInDispatch'
    BY <2>1 DEF HandlerInv, EventsInDispatch
  <2> QED
    BY <2>1, <2>2, <2>3, HandlerClose
<1>3. ASSUME NEW e \in events, DispatchHangUp(e)
      PROVE  HandlerInv'
  <2>1. /\ CloseConnection(e) /\ events' = events \ {e}
        /\ loopPc' = IF events' = {} THEN "top" ELSE "dispatch"
        /\ UNCHANGED <<client, backlog, jobs, acc, pc, job>>
    BY <1>3 DEF DispatchHangUp, EventDone, kernelVars, workerVars
  <2>2. e.fd \in Fds
    BY DEF IInv, LoopOK, Entries
  <2>3. EventsInDispatch'
    BY <2>1 DEF EventsInDispatch
  <2>4. events' \subseteq events /\ \A x \in events : x.fd # e.fd => x \in events'
    BY <2>1
  <2> QED
    BY <2>1, <2>2, <2>3, <2>4, HandlerClose
<1> QED
  BY <1>1, <1>2, <1>3, HandlerWait, HandlerDispatch DEF LoopStep

(* A worker takes a job: the handler moves from the queue to the thread. *)
LEMMA HandlerTake ==
    ASSUME IInv, HandlerInv, NEW w \in Workers, TakeJob(w)
    PROVE  HandlerInv'
<1>1. /\ pc[w] = "idle" /\ jobs # <<>> /\ job' = [job EXCEPT ![w] = Head(jobs)]
      /\ jobs' = Tail(jobs) /\ pc' = [pc EXCEPT ![w] = "recv"]
      /\ UNCHANGED <<client, backlog, sock, reg, connections, acc, loopPc, events, crossed>>
  BY DEF TakeJob, kernelVars, loopVars
<1>2. /\ jobs \in Seq(Handles) /\ Len(jobs) \in Nat \ {0} /\ DOMAIN jobs = 1 .. Len(jobs)
      /\ Head(jobs) = jobs[1]
  BY <1>1, LenProperties, EmptySeq DEF IInv, QueuesOK
<1>3. /\ DOMAIN jobs' = 1 .. Len(jobs) - 1
      /\ \A n \in 1 .. Len(jobs) - 1 : jobs'[n] = jobs[n + 1]
  <2>1. /\ Tail(jobs) \in Seq(Handles) /\ Len(Tail(jobs)) = Len(jobs) - 1
        /\ \A n \in 1 .. Len(Tail(jobs)) : Tail(jobs)[n] = jobs[n + 1]
    BY <1>1, <1>2, HeadTailProperties
  <2> QED
    BY <1>1, <2>1, LenProperties
<1>4. /\ pc'[w] = "recv" /\ job'[w] = jobs[1]
      /\ \A x \in Workers : x # w => pc'[x] = pc[x] /\ job'[x] = job[x]
  BY <1>1, <1>2 DEF IInv, WorkersOK
<1>5. EventsInDispatch'
  BY <1>1 DEF HandlerInv, EventsInDispatch
<1>6. NamesAccepted'
  <2>1. \A n \in 1 .. Len(jobs) : Accepted(jobs[n].conn)
    BY <1>2 DEF HandlerInv, NamesAccepted
  <2>2. \A n \in DOMAIN jobs' : Accepted(jobs'[n].conn)
    BY <1>2, <1>3, <2>1
  <2>3. \A x \in Workers : pc'[x] # "idle" => Accepted(job'[x].conn)
    <3>1. Accepted(job'[w].conn)
      BY <1>2, <1>4, <2>1
    <3> QED
      BY <1>4, <3>1 DEF HandlerInv, NamesAccepted
  <2> QED
    BY <1>1, <2>2, <2>3 DEF HandlerInv, NamesAccepted, Accepted
<1>7. NotYetWatched' /\ WatchedIsMapped'
  BY <1>1 DEF HandlerInv, NotYetWatched, WatchedIsMapped, Open
<1>8. ASSUME NEW g \in Fds, Handled(g)
      PROVE  Handled(g)'
  <2>1. /\ EventsOf(g)' = EventsOf(g) /\ Handle(g)' = Handle(g) /\ Open(g)' = Open(g)
        /\ reg'[g] = reg[g]
    BY <1>1 DEF EventsOf, Handle, Open
  <2>2. JobsOf(g)' = {n \in 1 .. Len(jobs) - 1 : n + 1 \in JobsOf(g)}
    BY <1>2, <1>3, <2>1 DEF JobsOf
  <2>3. w \notin WorkersOf(g)
    BY <1>1 DEF WorkersOf
  <2>4. WorkersOf(g)' = IF jobs[1] = Handle(g) THEN WorkersOf(g) \union {w} ELSE WorkersOf(g)
    BY <1>4, <2>1, <2>3 DEF WorkersOf
  <2>5. jobs[1] = Handle(g) <=> 1 \in JobsOf(g)
    BY <1>2 DEF JobsOf
  <2>6. JobsOf(g) \subseteq 1 .. Len(jobs)
    BY <1>2 DEF JobsOf
  <2>7. CASE JobsOf(g) = {}
    <3>1. JobsOf(g)' = {} /\ WorkersOf(g)' = WorkersOf(g)
      BY <2>2, <2>4, <2>5, <2>7
    <3> QED
      BY <1>8, <2>1, <2>7, <3>1 DEF Handled, OneHandler, NoHandler
  <2>8. CASE JobsOf(g) # {}
    <3>1. CASE ~Open(g)
      BY <2>1, <3>1 DEF Handled
    <3>2. CASE Open(g)
      <4>1. /\ reg[g] = "muted" /\ EventsOf(g) = {} /\ WorkersOf(g) = {}
            /\ \E n : JobsOf(g) = {n}
        BY <1>8, <2>8, <3>2 DEF Handled, OneHandler, NoHandler
      <4>2. PICK n : JobsOf(g) = {n}
        BY <4>1
      <4>3. n \in 1 .. Len(jobs)
        BY <2>6, <4>2
      <4>4. CASE n = 1
        <5>1. JobsOf(g)' = {}
          BY <1>2, <2>2, <4>2, <4>4
        <5>2. WorkersOf(g)' = {w}
          BY <2>4, <2>5, <4>1, <4>2, <4>4
        <5> QED
          BY <2>1, <4>1, <5>1, <5>2 DEF Handled, OneHandler
      <4>5. CASE n # 1
        <5>1. JobsOf(g)' = {n - 1}
          BY <1>2, <2>2, <4>2, <4>3, <4>5
        <5>2. WorkersOf(g)' = {}
          BY <2>4, <2>5, <4>1, <4>2, <4>5
        <5> QED
          BY <2>1, <4>1, <5>1, <5>2 DEF Handled, OneHandler
      <4> QED
        BY <4>4, <4>5
    <3> QED
      BY <3>1, <3>2
  <2> QED
    BY <2>7, <2>8
<1> QED
  BY <1>1, <1>5, <1>6, <1>7, <1>8 DEF HandlerInv

(* The handler arms its socket again as it ends. *)
LEMMA HandlerRearm ==
    ASSUME IInv, HandlerInv, NEW w \in Workers, Rearm(w), reg[job[w].fd] # "none"
    PROVE  HandlerInv'
<1>0. PICK f : f = job[w].fd
  OBVIOUS
<1>1. /\ pc[w] = "rearm" /\ reg' = [reg EXCEPT ![f] = "armed"]
      /\ crossed' = (crossed \/ Crosses(job[w]))
      /\ pc' = [pc EXCEPT ![w] = "idle"] /\ job' = [job EXCEPT ![w] = None]
      /\ UNCHANGED <<client, backlog, sock, connections, jobs, acc, loopPc, events>>
  BY <1>0 DEF Rearm, Rearmed, EndJob, kernelVars, loopVars
<1>2. f \in Fds /\ job[w] \in Handles
  BY <1>0, <1>1, JobIs
<1>3. /\ pc'[w] = "idle" /\ \A x \in Workers : x # w => pc'[x] = pc[x] /\ job'[x] = job[x]
  BY <1>1 DEF IInv, WorkersOK
<1>4. reg'[f] = "armed" /\ \A g \in Fds : g # f => reg'[g] = reg[g]
  BY <1>1, <1>2 DEF IInv, SocketsOK
<1>5. NamesAccepted' /\ EventsInDispatch'
  BY <1>1, <1>3 DEF HandlerInv, NamesAccepted, Accepted, EventsInDispatch
<1>6. NotYetWatched'
  <2>1. acc.conn # None => acc.fd \in Fds /\ acc.fd # f
    BY <1>0, AccIs DEF HandlerInv, NotYetWatched
  <2> QED
    BY <1>1, <1>4, <2>1 DEF HandlerInv, NotYetWatched, Open
<1>7. WatchedIsMapped'
  BY <1>0, <1>1, <1>4 DEF HandlerInv, WatchedIsMapped
<1>8. ASSUME NEW g \in Fds, g # f, Handled(g)
      PROVE  Handled(g)'
  <2>1. EventsOf(g)' = EventsOf(g) /\ JobsOf(g)' = JobsOf(g) /\ Handle(g)' = Handle(g)
    BY <1>1 DEF EventsOf, JobsOf, Handle
  <2>2. job[w] # Handle(g)
    BY <1>0, <1>8 DEF Handle
  <2>3. WorkersOf(g)' = WorkersOf(g)
    BY <1>3, <2>1, <2>2 DEF WorkersOf
  <2> QED
    BY <1>1, <1>4, <1>8, <2>1, <2>3, HandledFrame
<1>9. ASSUME Handled(f), ~Crosses(job[w])
      PROVE  Handled(f)'
  <2>1. Open(f)
    BY <1>0, <1>2 DEF IInv, SocketsOK
  <2>2. job[w] = Handle(f)
    <3>1. job[w].conn = sock[f]
      BY <1>0, <1>9, <2>1 DEF Crosses, Open
    <3> QED
      BY <1>0, <1>2, <3>1 DEF Handle, Handles
  <2>3. w \in WorkersOf(f)
    BY <1>1, <2>2 DEF WorkersOf
  <2>4. EventsOf(f) = {} /\ JobsOf(f) = {} /\ WorkersOf(f) = {w}
    BY <1>9, <2>1, <2>3 DEF Handled, OneHandler, NoHandler
  <2>5. EventsOf(f)' = {} /\ JobsOf(f)' = {}
    BY <1>1, <2>4 DEF EventsOf, JobsOf, Handle
  <2>6. WorkersOf(f)' = {}
    <3>1. Handle(f)' = Handle(f)
      BY <1>1 DEF Handle
    <3> QED
      BY <1>3, <2>4, <3>1 DEF WorkersOf
  <2> QED
    BY <1>4, <2>5, <2>6 DEF Handled, NoHandler
<1>10. ~crossed' => ~crossed /\ ~Crosses(job[w])
  BY <1>1, Zenon
<1> QED
  BY <1>2, <1>5, <1>6, <1>7, <1>8, <1>9, <1>10 DEF HandlerInv

(* A worker. *)
LEMMA HandlerWorker ==
    ASSUME IInv, HandlerInv, NEW w \in Workers, WorkerStep(w)
    PROVE  HandlerInv'
<1>1. pc \in [Workers -> {"idle", "recv", "reply", "rearm"}]
      /\ job \in [Workers -> Handles \union {None}]
  BY DEF IInv, WorkersOK
<1>2. ASSUME UNCHANGED <<loopPc, events>>
      PROVE  EventsInDispatch'
  BY <1>2 DEF HandlerInv, EventsInDispatch
<1>3. CASE Recv(w)
  <2>1. /\ pc[w] = "recv" /\ \E next \in {"reply", "rearm"} : pc' = [pc EXCEPT ![w] = next]
        /\ crossed' = (crossed \/ Crosses(job[w]))
        /\ UNCHANGED <<client, backlog, sock, reg, connections, jobs, acc, loopPc, events, job>>
    BY <1>3 DEF Recv, AfterRecv, loopVars
  <2>2. \A x \in Workers : \/ pc'[x] = pc[x] /\ job'[x] = job[x]
                           \/ pc[x] # "idle" /\ pc'[x] # "idle" /\ job'[x] = job[x]
    BY <1>1, <2>1
  <2>3. ~crossed' => ~crossed
    BY <2>1, Zenon
  <2> QED
    BY <1>2, <2>1, <2>2, <2>3, HandlerFrame
<1>4. CASE RecvWouldBlock(w)
  <2>1. /\ pc[w] = "recv" /\ pc' = [pc EXCEPT ![w] = "rearm"]
        /\ UNCHANGED <<client, backlog, sock, reg, connections, jobs, acc, loopPc, events, job,
                       crossed>>
    BY <1>4 DEF RecvWouldBlock, kernelVars, loopVars
  <2>2. \A x \in Workers : \/ pc'[x] = pc[x] /\ job'[x] = job[x]
                           \/ pc[x] # "idle" /\ pc'[x] # "idle" /\ job'[x] = job[x]
    BY <1>1, <2>1
  <2> QED
    BY <1>2, <2>1, <2>2, HandlerFrame
<1>9. CASE RecvBlocks(w)
  <2>1. /\ crossed' = (crossed \/ Crosses(job[w]))
        /\ UNCHANGED <<client, backlog, sock, reg, connections, jobs, acc, loopPc, events, pc, job>>
    BY <1>9 DEF RecvBlocks, kernelVars, loopVars
  <2>2. ~crossed' => ~crossed
    BY <2>1, Zenon
  <2> QED
    BY <1>2, <2>1, <2>2, HandlerFrame
<1>5. CASE Reply(w)
  <2>1. /\ pc[w] = "reply" /\ pc' = [pc EXCEPT ![w] = "rearm"]
        /\ crossed' = (crossed \/ Crosses(job[w]))
        /\ UNCHANGED <<client, backlog, sock, reg, connections, jobs, acc, loopPc, events, job>>
    BY <1>5 DEF Reply, kernelVars, loopVars
  <2>2. \A x \in Workers : \/ pc'[x] = pc[x] /\ job'[x] = job[x]
                           \/ pc[x] # "idle" /\ pc'[x] # "idle" /\ job'[x] = job[x]
    BY <1>1, <2>1
  <2>3. ~crossed' => ~crossed
    BY <2>1, Zenon
  <2> QED
    BY <1>2, <2>1, <2>2, <2>3, HandlerFrame
<1>6. ASSUME pc[w] # "idle", CloseConnection(job[w]), EndJob(w),
             UNCHANGED <<client, backlog, acc, jobs, loopPc, events>>
      PROVE  HandlerInv'
  <2>1. job[w].fd \in Fds
    BY <1>6, JobIs
  <2>2. \A x \in Workers : \/ pc'[x] = pc[x] /\ job'[x] = job[x]
                           \/ pc[x] # "idle" /\ job[x].fd = job[w].fd /\ pc'[x] = "idle"
    BY <1>1, <1>6 DEF EndJob
  <2> QED
    BY <1>2, <1>6, <2>1, <2>2, HandlerClose
<1>7. CASE RecvClose(w)
  BY <1>6, <1>7 DEF RecvClose, loopVars
<1>8. CASE Rearm(w)
  <2>1. CASE reg[job[w].fd] = "none"
    BY <1>6, <1>8, <2>1 DEF Rearm, kernelVars, loopVars
  <2> QED
    BY <1>8, <2>1, HandlerRearm
<1> QED
  BY <1>3, <1>4, <1>5, <1>7, <1>8, <1>9, HandlerTake DEF WorkerStep

(* Every step keeps the invariant. *)
LEMMA HandlerStep == IInv /\ HandlerInv /\ [Next]_vars => HandlerInv'
<1> SUFFICES ASSUME IInv, HandlerInv, [Next]_vars
             PROVE  HandlerInv'
  OBVIOUS
<1>1. CASE UNCHANGED vars
  <2>1. EventsInDispatch'
    BY <1>1 DEF vars, HandlerInv, EventsInDispatch
  <2> QED
    BY <1>1, <2>1, HandlerFrame DEF vars
<1> QED
  BY <1>1, HandlerClient, HandlerAccept, HandlerSweeper, HandlerLoop, HandlerWorker DEF Next

(* The handlers of a watched socket, counted as the property counts them. *)
LEMMA HandlersCounted ==
    ASSUME NEW f \in Fds
    PROVE  /\ NoHandler(f) => Handlers(f) = {}
           /\ OneHandler(f) => Cardinality(Handlers(f)) = 1
<1>1. Handlers(f) = {<<"event", e>> : e \in EventsOf(f)} \union
                    {<<"job", n>> : n \in JobsOf(f)} \union
                    {<<"worker", w>> : w \in WorkersOf(f)}
  BY DEF Handlers, EventsOf, JobsOf, WorkersOf, Handle
<1>2. NoHandler(f) => Handlers(f) = {}
  BY <1>1 DEF NoHandler
<1>3. OneHandler(f) => \E x : Handlers(f) = {x}
  <2>1. ASSUME NEW e, EventsOf(f) = {e}, JobsOf(f) = {}, WorkersOf(f) = {}
        PROVE  Handlers(f) = {<<"event", e>>}
    BY <1>1, <2>1
  <2>2. ASSUME NEW n, EventsOf(f) = {}, JobsOf(f) = {n}, WorkersOf(f) = {}
        PROVE  Handlers(f) = {<<"job", n>>}
    BY <1>1, <2>2
  <2>3. ASSUME NEW w, EventsOf(f) = {}, JobsOf(f) = {}, WorkersOf(f) = {w}
        PROVE  Handlers(f) = {<<"worker", w>>}
    BY <1>1, <2>3
  <2> QED
    BY <2>1, <2>2, <2>3 DEF OneHandler
<1> QED
  BY <1>2, <1>3, FS_Singleton

(* The one-shot discipline of runEventLoop, messageHandler and rearmSocket:  *)
(* for any clients, descriptors and workers, and whatever addresses they     *)
(* connect from, while no descriptor was confused with another a watched     *)
(* socket is muted exactly while one handler has it.                         *)
THEOREM OneHandlerCorrect == Spec => []OneHandlerWhileMuted
<1>1. IInv /\ HandlerInv => OneHandlerWhileMuted
  <2> SUFFICES ASSUME IInv, HandlerInv, ~crossed, NEW f \in Fds
               PROVE  /\ reg[f] = "armed" => Handlers(f) = {}
                      /\ reg[f] = "muted" => Cardinality(Handlers(f)) = 1
    BY DEF OneHandlerWhileMuted
  <2>1. reg[f] # "none" => Open(f)
    BY DEF IInv, SocketsOK
  <2>2. Handled(f)
    BY DEF HandlerInv
  <2> QED
    BY <2>1, <2>2, HandlersCounted DEF Handled
<1> QED
  BY <1>1, IInvInit, IInvStep, HandlerInit, HandlerStep, PTL DEF Spec

=============================================================================
