-------------------------- MODULE ThreadPoolProofs --------------------------
(***************************************************************************)
(* Proofs about ThreadPool for any number of threads and jobs: no job is   *)
(* lost or run twice, no worker pops an empty queue, and the destructor    *)
(* returns only when every job has run. Each follows from IInv.            *)
(***************************************************************************)
EXTENDS ThreadPool, TLAPS

(* m excludes: whoever is inside the critical section owns it. *)
OwnerInside ==
    \A t \in Threads : pc[t] \in {"check", "blocking", "ready"} => owner = t

(* The destructor's progress, and what a thread that left had seen: the     *)
(* pool shut down with an empty queue, to which nobody adds any more.       *)
ClosingOrder ==
    /\ active <=> closing = "no"
    /\ \A t \in Threads : pc[t] = "gone" => ~active /\ jobs = <<>>
    /\ closing = "joined" => \A t \in Threads : pc[t] = "gone"

IInv ==
    /\ TypeOK
    /\ OwnerInside
    /\ ClosingOrder
    /\ NoPopFromEmpty
    /\ JobsRunOnce

-----------------------------------------------------------------------------

(* Pushing at the back adds one job to the queue and keeps the others' places. *)
LEMMA PushQueue ==
    ASSUME TypeOK, NEW j \in Jobs, jobs' = Append(jobs, j)
    PROVE  /\ jobs' \in Seq(Jobs) /\ jobs' # <<>>
           /\ DOMAIN jobs' = 1 .. Len(jobs) + 1
           /\ jobs'[Len(jobs) + 1] = j
           /\ \A i \in 1 .. Len(jobs) : jobs'[i] = jobs[i]
           /\ \A x \in Jobs : Queued(x)' <=> Queued(x) \/ x = j
<1>1. /\ jobs' \in Seq(Jobs)
      /\ Len(jobs) \in Nat /\ DOMAIN jobs = 1 .. Len(jobs)
      /\ DOMAIN jobs' = 1 .. Len(jobs) + 1
      /\ jobs'[Len(jobs) + 1] = j
      /\ \A i \in 1 .. Len(jobs) : jobs'[i] = jobs[i]
  BY DEF TypeOK
<1>2. jobs' # <<>>
  BY <1>1
<1> QED
  BY <1>1, <1>2 DEF Queued

(* Popping the front removes one place of the front's job and no other. *)
LEMMA PopQueue ==
    ASSUME TypeOK, jobs # <<>>, jobs' = Tail(jobs)
    PROVE  /\ jobs' \in Seq(Jobs)
           /\ Head(jobs) \in Jobs /\ Head(jobs) = jobs[1]
           /\ Len(jobs) \in Nat /\ 1 \in DOMAIN jobs /\ DOMAIN jobs = 1 .. Len(jobs)
           /\ DOMAIN jobs' = 1 .. Len(jobs) - 1
           /\ \A i \in DOMAIN jobs' : i + 1 \in DOMAIN jobs /\ jobs'[i] = jobs[i + 1]
           /\ \A i \in DOMAIN jobs : i # 1 => i - 1 \in DOMAIN jobs' /\ jobs'[i - 1] = jobs[i]
BY DEF TypeOK

(* The invariant holds of a new pool: no job, no thread inside the lock. *)
LEMMA IInvInit == Init => IInv
BY ConstantsAssumption
DEF Init, IInv, TypeOK, OwnerInside, ClosingOrder, NoPopFromEmpty, JobsRunOnce, Queued, Held

(* Steps that leave the queue, the workers' jobs and the counts alone. *)
LEMMA JobsUntouched ==
    ASSUME JobsRunOnce, UNCHANGED <<jobs, job, sent, ran>>
    PROVE  JobsRunOnce'
<1>1. \A j \in Jobs : (Queued(j)' <=> Queued(j)) /\ (Held(j)' <=> Held(j))
  BY DEF Queued, Held
<1> QED
  BY <1>1 DEF JobsRunOnce

(* acceptJob queues a job that is in the pool nowhere else. *)
LEMMA IInvAccept ==
    ASSUME IInv, NEW j \in Jobs, Submit(j)
    PROVE  IInv'
<1> USE DEF IInv
<1>1. /\ jobs' = Append(jobs, j) /\ sent' = sent \union {j} /\ j \notin sent
      /\ closing = "no" /\ owner = NoOne
      /\ UNCHANGED <<active, owner, job, closing, ran>>
  BY DEF Submit, AcceptJob, NotifyOne
<1>2. /\ pc' \in [Threads -> {"start", "check", "blocking", "waiting", "woken", "ready",
                              "running", "gone"}]
      /\ \A t \in Threads : pc'[t] = pc[t] \/ (pc[t] = "waiting" /\ pc'[t] = "woken")
  BY DEF Submit, AcceptJob, NotifyOne, TypeOK
<1>3. TypeOK'
  BY <1>1, <1>2, PushQueue DEF TypeOK
<1>4. OwnerInside' /\ ClosingOrder' /\ NoPopFromEmpty'
  BY <1>1, <1>2, PushQueue DEF OwnerInside, ClosingOrder, NoPopFromEmpty
<1>5. JobsRunOnce'
  <2>1. \A x \in Jobs : Held(x)' <=> Held(x)
    BY <1>1 DEF Held
  <2>2. ~Queued(j) /\ ~Held(j) /\ ran[j] = 0
    BY <1>1 DEF JobsRunOnce
  <2>3. \A i, n \in DOMAIN jobs' : jobs'[i] = jobs'[n] => i = n
    <3>1. \A i \in 1 .. Len(jobs) : jobs'[i] # j
      BY <1>1, <2>2, PushQueue DEF Queued, TypeOK
    <3> QED
      BY <1>1, <3>1, PushQueue DEF JobsRunOnce, TypeOK
  <2>4. \A x \in Jobs : Queued(x)' <=> Queued(x) \/ x = j
    BY <1>1, PushQueue
  <2> QED
    BY <1>1, <2>1, <2>2, <2>3, <2>4 DEF JobsRunOnce
<1> QED
  BY <1>3, <1>4, <1>5

(* A worker that pops the front moves that one job from queue to hand. *)
LEMMA IInvTake ==
    ASSUME IInv, NEW t \in Threads, TakeJob(t)
    PROVE  IInv'
<1> USE DEF IInv
<1>1. /\ pc[t] = "ready" /\ jobs # <<>> /\ jobs' = Tail(jobs)
      /\ job' = [job EXCEPT ![t] = Head(jobs)]
      /\ owner' = NoOne /\ pc' = [pc EXCEPT ![t] = "running"]
      /\ UNCHANGED <<active, closing, sent, ran>>
  BY DEF TakeJob, Popped, NoPopFromEmpty
<1>2. PICK h \in Jobs : h = Head(jobs) /\ h = jobs[1]
  BY <1>1, PopQueue
<1>3. Queued(h)
  BY <1>1, <1>2, PopQueue DEF Queued
<1>4. TypeOK'
  BY <1>1, <1>2, PopQueue, ConstantsAssumption DEF TypeOK
<1>5. \A u \in Threads : pc[u] \in {"check", "blocking", "ready"} => u = t
  BY <1>1 DEF OwnerInside
<1>6. OwnerInside' /\ NoPopFromEmpty'
  BY <1>1, <1>5 DEF OwnerInside, NoPopFromEmpty, TypeOK
<1>7. ClosingOrder'
  BY <1>1 DEF ClosingOrder, TypeOK
<1>8. JobsRunOnce'
  <2>1. \A x \in Jobs : Queued(x)' <=> Queued(x) /\ x # h
    <3>1. ASSUME NEW x \in Jobs, Queued(x)'
          PROVE  Queued(x) /\ x # h
      BY <1>1, <1>2, <3>1, PopQueue DEF Queued, JobsRunOnce
    <3>2. ASSUME NEW x \in Jobs, Queued(x), x # h
          PROVE  Queued(x)'
      BY <1>1, <1>2, <3>2, PopQueue DEF Queued
    <3> QED
      BY <3>1, <3>2
  <2>2. \A x \in Jobs : Held(x)' <=> Held(x) \/ x = h
    <3>1. job[t] = NoJob
      BY <1>1 DEF TypeOK
    <3> QED
      BY <1>1, <1>2, <3>1, ConstantsAssumption DEF Held, TypeOK
  <2>3. ~Held(h) /\ ran[h] = 0
    BY <1>3 DEF JobsRunOnce
  <2>4. \A u, v \in Threads : job'[u] = job'[v] /\ job'[u] # NoJob => u = v
    BY <1>1, <1>2, <2>3 DEF JobsRunOnce, Held, TypeOK
  <2>5. \A i, n \in DOMAIN jobs' : jobs'[i] = jobs'[n] => i = n
    BY <1>1, PopQueue DEF JobsRunOnce
  <2> QED
    BY <1>1, <1>3, <2>1, <2>2, <2>3, <2>4, <2>5 DEF JobsRunOnce
<1> QED
  BY <1>4, <1>6, <1>7, <1>8

(* A job that has run leaves the hand of its worker, and only its. *)
LEMMA IInvRun ==
    ASSUME IInv, NEW t \in Threads, RunJob(t)
    PROVE  IInv'
<1> USE DEF IInv
<1>1. PICK h \in Jobs : h = job[t]
  BY DEF RunJob, AfterJob, TypeOK
<1>2. /\ pc[t] = "running" /\ ran' = [ran EXCEPT ![h] = ran[h] + 1]
      /\ job' = [job EXCEPT ![t] = NoJob] /\ pc' = [pc EXCEPT ![t] = "start"]
      /\ UNCHANGED <<jobs, active, owner, closing, sent>>
  BY <1>1 DEF RunJob, AfterJob
<1>3. TypeOK'
  BY <1>2 DEF TypeOK
<1>4. OwnerInside' /\ ClosingOrder' /\ NoPopFromEmpty'
  BY <1>2 DEF OwnerInside, ClosingOrder, NoPopFromEmpty, TypeOK
<1>5. JobsRunOnce'
  <2>1. Held(h) /\ ran[h] = 0 /\ ~Queued(h)
    BY <1>1 DEF Held, JobsRunOnce
  <2>2. \A x \in Jobs : Queued(x)' <=> Queued(x)
    BY <1>2 DEF Queued
  <2>3. \A x \in Jobs : Held(x)' <=> Held(x) /\ x # h
    BY <1>1, <1>2, ConstantsAssumption DEF Held, JobsRunOnce, TypeOK
  <2>4. \A x \in Jobs : ran'[x] = IF x = h THEN 1 ELSE ran[x]
    BY <1>2, <2>1 DEF TypeOK
  <2>5. \A u, v \in Threads : job'[u] = job'[v] /\ job'[u] # NoJob => u = v
    BY <1>2 DEF JobsRunOnce, TypeOK
  <2>6. h \in sent
    BY <2>1 DEF JobsRunOnce
  <2> QED
    BY <1>2, <2>1, <2>2, <2>3, <2>4, <2>5, <2>6 DEF JobsRunOnce
<1> QED
  BY <1>3, <1>4, <1>5

(* Every step of the pool keeps the invariant. *)
LEMMA IInvStep == IInv /\ [Next]_vars => IInv'
<1> SUFFICES ASSUME IInv, [Next]_vars
             PROVE  IInv'
  OBVIOUS
<1> USE DEF IInv
<1>1. ASSUME NEW t \in Threads, Lock(t)
      PROVE  IInv'
  <2>1. TypeOK' /\ OwnerInside' /\ ClosingOrder' /\ NoPopFromEmpty'
    BY <1>1, ConstantsAssumption DEF Lock, Inside, TypeOK, OwnerInside, ClosingOrder, NoPopFromEmpty
  <2> QED
    BY <1>1, <2>1, JobsUntouched DEF Lock, Inside
<1>2. ASSUME NEW t \in Threads, CheckPredicate(t)
      PROVE  IInv'
  <2>1. TypeOK' /\ OwnerInside' /\ ClosingOrder' /\ NoPopFromEmpty'
    BY <1>2 DEF CheckPredicate, TypeOK, OwnerInside, ClosingOrder, NoPopFromEmpty
  <2> QED
    BY <1>2, <2>1, JobsUntouched DEF CheckPredicate
<1>3. ASSUME NEW t \in Threads, Block(t)
      PROVE  IInv'
  <2>1. TypeOK' /\ OwnerInside' /\ ClosingOrder' /\ NoPopFromEmpty'
    BY <1>3 DEF Block, TypeOK, OwnerInside, ClosingOrder, NoPopFromEmpty
  <2> QED
    BY <1>3, <2>1, JobsUntouched DEF Block
<1>4. ASSUME NEW t \in Threads, SpuriousWakeup(t)
      PROVE  IInv'
  <2>1. TypeOK' /\ OwnerInside' /\ ClosingOrder' /\ NoPopFromEmpty'
    BY <1>4 DEF SpuriousWakeup, TypeOK, OwnerInside, ClosingOrder, NoPopFromEmpty
  <2> QED
    BY <1>4, <2>1, JobsUntouched DEF SpuriousWakeup
<1>5. ASSUME NEW t \in Threads, Return(t)
      PROVE  IInv'
  <2>1. TypeOK' /\ OwnerInside' /\ ClosingOrder' /\ NoPopFromEmpty'
    BY <1>5 DEF Return, MayLeave, TypeOK, OwnerInside, ClosingOrder, NoPopFromEmpty
  <2> QED
    BY <1>5, <2>1, JobsUntouched DEF Return, MayLeave
<1>6. CASE ClearActive
  <2>1. TypeOK' /\ OwnerInside' /\ ClosingOrder' /\ NoPopFromEmpty'
    BY <1>6 DEF ClearActive, TypeOK, OwnerInside, ClosingOrder, NoPopFromEmpty
  <2> QED
    BY <1>6, <2>1, JobsUntouched DEF ClearActive
<1>7. CASE NotifyAll
  <2>1. TypeOK' /\ OwnerInside' /\ ClosingOrder' /\ NoPopFromEmpty'
    BY <1>7 DEF NotifyAll, TypeOK, OwnerInside, ClosingOrder, NoPopFromEmpty
  <2> QED
    BY <1>7, <2>1, JobsUntouched DEF NotifyAll
<1>8. CASE Join
  <2>1. TypeOK' /\ OwnerInside' /\ ClosingOrder' /\ NoPopFromEmpty'
    BY <1>8 DEF Join, Joinable, TypeOK, OwnerInside, ClosingOrder, NoPopFromEmpty
  <2> QED
    BY <1>8, <2>1, JobsUntouched DEF Join
<1>9. CASE UNCHANGED vars
  <2>1. TypeOK' /\ OwnerInside' /\ ClosingOrder' /\ NoPopFromEmpty'
    BY <1>9 DEF vars, TypeOK, OwnerInside, ClosingOrder, NoPopFromEmpty
  <2> QED
    BY <1>9, <2>1, JobsUntouched DEF vars
<1> HIDE DEF IInv
<1> QED
  BY <1>1, <1>2, <1>3, <1>4, <1>5, <1>6, <1>7, <1>8, <1>9, IInvAccept, IInvTake, IInvRun
  DEF Next, Work

(* When every thread is gone and the queue is empty, only "has run" is left. *)
LEMMA GoneIsDrained == IInv => DrainedBeforeJoin
<1> SUFFICES ASSUME IInv, closing = "joined", NEW j \in sent
             PROVE  ran[j] = 1
  BY DEF DrainedBeforeJoin
<1>1. jobs = <<>> /\ \A t \in Threads : pc[t] = "gone"
  BY ConstantsAssumption DEF IInv, ClosingOrder
<1>2. j \in Jobs /\ ~Queued(j)
  BY <1>1 DEF IInv, TypeOK, Queued
<1>3. ~Held(j)
  BY <1>1, <1>2, ConstantsAssumption DEF IInv, TypeOK, Held
<1> QED
  BY <1>2, <1>3 DEF IInv, JobsRunOnce

(* Every variable keeps its type, and a worker has a job exactly when it runs. *)
THEOREM TypeCorrect == Spec => []TypeOK
<1>1. IInv => TypeOK
  BY DEF IInv
<1> QED
  BY <1>1, IInvInit, IInvStep, PTL DEF Spec

(* Whatever the interleaving of workers, event loop and destructor: a        *)
(* submitted job is in one place and runs once.                              *)
THEOREM OnceCorrect == Spec => []JobsRunOnce
<1>1. IInv => JobsRunOnce
  BY DEF IInv
<1> QED
  BY <1>1, IInvInit, IInvStep, PTL DEF Spec

(* No worker calls front() or pop() on an empty queue. *)
THEOREM PopCorrect == Spec => []NoPopFromEmpty
<1>1. IInv => NoPopFromEmpty
  BY DEF IInv
<1> QED
  BY <1>1, IInvInit, IInvStep, PTL DEF Spec

(* A destructor that returns leaves no submitted job behind. *)
THEOREM DrainCorrect == Spec => []DrainedBeforeJoin
BY IInvInit, IInvStep, GoneIsDrained, PTL DEF Spec

=============================================================================
