----------------------------- MODULE ThreadPool -----------------------------
(***************************************************************************)
(* ThreadPool: worker threads that sleep on cv until there is a job or the *)
(* pool is shut down, the event loop that submits jobs (acceptJob), and    *)
(* the destructor, which clears active, notifies and joins. The queue is   *)
(* used under m; active is an atomic that the destructor writes without m. *)
(* Each action is what a thread does between two points where another      *)
(* thread can act.                                                         *)
(***************************************************************************)
EXTENDS Naturals, Sequences

CONSTANTS
    Threads,    \* the worker threads
    Jobs,       \* the jobs the event loop may submit, each once
    NoJob,      \* the worker's local variable job is empty
    NoOne       \* m is free

ASSUME ConstantsAssumption ==
    /\ Threads # {}
    /\ NoJob \notin Jobs
    /\ NoOne \notin Threads

VARIABLES
    jobs,       \* the queue
    active,     \* cleared by the destructor
    owner,      \* the thread that holds m
    pc,         \* pc[t]: where worker t is, see TypeOK
    job,        \* job[t]: the job worker t runs
    closing,    \* the destructor: "no", "flagged", "notified", "joined"
    sent,       \* history: the jobs submitted so far
    ran         \* history: how often each job ran

vars == <<jobs, active, owner, pc, job, closing, sent, ran>>

Init ==
    /\ jobs = <<>>
    /\ active = TRUE
    /\ owner = NoOne
    /\ pc = [t \in Threads |-> "start"]
    /\ job = [t \in Threads |-> NoJob]
    /\ closing = "no"
    /\ sent = {}
    /\ ran = [j \in Jobs |-> 0]

-----------------------------------------------------------------------------
(* The event loop. *)

(* Mutant: acceptJob forgets to notify. *)
NotifyNone == pc' = pc

(* One waiting worker, if there is any, is woken. *)
NotifyOne ==
    \/ \E t \in Threads : pc[t] = "waiting" /\ pc' = [pc EXCEPT ![t] = "woken"]
    \/ (\A t \in Threads : pc[t] # "waiting") /\ pc' = pc

(* acceptJob: push and notify_one under m. *)
AcceptJob(j) ==
    /\ j \notin sent
    /\ owner = NoOne
    /\ jobs' = Append(jobs, j)
    /\ sent' = sent \union {j}
    /\ NotifyOne
    /\ UNCHANGED <<active, owner, job, closing, ran>>

(* The pool's owner calls it, and has to see to it that nobody does once the *)
(* destructor has begun: acceptJob does not look. Lifecycle shows that the   *)
(* server does.                                                              *)
Submit(j) == closing = "no" /\ AcceptJob(j)

-----------------------------------------------------------------------------
(* A worker's loop. *)

(* Mutant: cv.wait without a predicate; a woken worker does not look again. *)
InsideUnchecked(t) == IF pc[t] = "woken" THEN "ready" ELSE "check"

Inside(t) == "check"

(* Take m at the top of the loop, or again inside cv.wait after a wake-up. *)
Lock(t) ==
    /\ pc[t] \in {"start", "woken"}
    /\ owner = NoOne
    /\ owner' = t
    /\ pc' = [pc EXCEPT ![t] = Inside(t)]
    /\ UNCHANGED <<jobs, active, job, closing, sent, ran>>

(* cv.wait evaluates its predicate. *)
CheckPredicate(t) ==
    /\ pc[t] = "check"
    /\ pc' = [pc EXCEPT ![t] = IF jobs # <<>> \/ ~active THEN "ready" ELSE "blocking"]
    /\ UNCHANGED <<jobs, active, owner, job, closing, sent, ran>>

(* cv.wait releases m and blocks, in one step. *)
Block(t) ==
    /\ pc[t] = "blocking"
    /\ owner' = NoOne
    /\ pc' = [pc EXCEPT ![t] = "waiting"]
    /\ UNCHANGED <<jobs, active, job, closing, sent, ran>>

SpuriousWakeup(t) ==
    /\ pc[t] = "waiting"
    /\ pc' = [pc EXCEPT ![t] = "woken"]
    /\ UNCHANGED <<jobs, active, owner, job, closing, sent, ran>>

(* Mutant: a worker leaves at once when the pool is shut down. *)
MayLeaveUndrained == ~active

MayLeave == ~active /\ jobs = <<>>

(* Shutting down and no jobs left: the thread returns and m is released. *)
Return(t) ==
    /\ pc[t] = "ready"
    /\ MayLeave
    /\ owner' = NoOne
    /\ pc' = [pc EXCEPT ![t] = "gone"]
    /\ UNCHANGED <<jobs, active, job, closing, sent, ran>>

(* Mutant: the front is copied but not popped. *)
PoppedNot == jobs

Popped == Tail(jobs)

(* Otherwise it takes the front of the queue and releases m. *)
TakeJob(t) ==
    /\ pc[t] = "ready"
    /\ active \/ jobs # <<>>
    /\ job' = [job EXCEPT ![t] = Head(jobs)]
    /\ jobs' = Popped
    /\ owner' = NoOne
    /\ pc' = [pc EXCEPT ![t] = "running"]
    /\ UNCHANGED <<active, closing, sent, ran>>

(* Mutant: the worker keeps the job it has run. *)
AfterJobKept(t) == job[t]

AfterJob(t) == NoJob

(* The job runs to its end; what it throws is caught. *)
RunJob(t) ==
    /\ pc[t] = "running"
    /\ ran' = [ran EXCEPT ![job[t]] = ran[job[t]] + 1]
    /\ job' = [job EXCEPT ![t] = AfterJob(t)]
    /\ pc' = [pc EXCEPT ![t] = "start"]
    /\ UNCHANGED <<jobs, active, owner, closing, sent>>

-----------------------------------------------------------------------------
(* ~ThreadPool. *)

ClearActive ==
    /\ closing = "no"
    /\ active' = FALSE
    /\ closing' = "flagged"
    /\ UNCHANGED <<jobs, owner, pc, job, sent, ran>>

NotifyAll ==
    /\ closing = "flagged"
    /\ pc' = [t \in Threads |-> IF pc[t] = "waiting" THEN "woken" ELSE pc[t]]
    /\ closing' = "notified"
    /\ UNCHANGED <<jobs, active, owner, job, sent, ran>>

(* Mutant: the threads are detached. *)
JoinableAtOnce == TRUE

Joinable == \A t \in Threads : pc[t] = "gone"

Join ==
    /\ closing = "notified"
    /\ Joinable
    /\ closing' = "joined"
    /\ UNCHANGED <<jobs, active, owner, pc, job, sent, ran>>

-----------------------------------------------------------------------------

Work(t) ==
    \/ Lock(t)
    \/ CheckPredicate(t)
    \/ Block(t)
    \/ Return(t)
    \/ TakeJob(t)
    \/ RunJob(t)

Next ==
    \/ \E j \in Jobs : Submit(j)
    \/ \E t \in Threads : Work(t) \/ SpuriousWakeup(t)
    \/ ClearActive
    \/ NotifyAll
    \/ Join

Spec == Init /\ [][Next]_vars

(* Threads that can run do run, and m is granted in the end. Submitting a    *)
(* job, shutting down and waking up for no reason need not happen.           *)
Fairness ==
    /\ \A t \in Threads : WF_vars(Work(t))
    /\ WF_vars(NotifyAll)
    /\ WF_vars(Join)

FairSpec == Spec /\ Fairness

-----------------------------------------------------------------------------

Queued(j) == \E i \in DOMAIN jobs : jobs[i] = j

Held(j) == \E t \in Threads : job[t] = j

(* "check", "blocking" and "ready" hold m; "waiting" is blocked on cv;       *)
(* "woken" has left cv and wants m. A worker has a job exactly when it runs. *)
TypeOK ==
    /\ jobs \in Seq(Jobs)
    /\ active \in BOOLEAN
    /\ owner \in Threads \union {NoOne}
    /\ pc \in [Threads -> {"start", "check", "blocking", "waiting", "woken", "ready",
                           "running", "gone"}]
    /\ job \in [Threads -> Jobs \union {NoJob}]
    /\ \A t \in Threads : pc[t] = "running" <=> job[t] # NoJob
    /\ closing \in {"no", "flagged", "notified", "joined"}
    /\ sent \in SUBSET Jobs
    /\ ran \in [Jobs -> Nat]

(* A submitted job is in the queue once, or held by one worker, or has run   *)
(* once, and never two of these: none is lost and none runs twice, though    *)
(* all workers pop from one queue and a shutdown may come at any time.       *)
JobsRunOnce ==
    /\ \A i, n \in DOMAIN jobs : jobs[i] = jobs[n] => i = n
    /\ \A t, u \in Threads : job[t] = job[u] /\ job[t] # NoJob => t = u
    /\ \A j \in Jobs :
         /\ ran[j] \in {0, 1}
         /\ Queued(j) => ~Held(j)
         /\ Queued(j) \/ Held(j) => ran[j] = 0
         /\ j \in sent <=> Queued(j) \/ Held(j) \/ ran[j] = 1

(* jobs.front() and jobs.pop() are never called on an empty queue: the       *)
(* predicate cv.wait tested still holds where the worker relies on it.       *)
NoPopFromEmpty ==
    \A t \in Threads : pc[t] = "ready" /\ active => jobs # <<>>

(* When the destructor returns, every job ever submitted has run: the workers *)
(* drain the queue before they leave.                                         *)
DrainedBeforeJoin ==
    closing = "joined" => \A j \in sent : ran[j] = 1

(* A submitted job runs in the end, also when the pool is being shut down:    *)
(* no wake-up for a job is lost.                                              *)
JobsRun == \A j \in Jobs : j \in sent ~> ran[j] = 1

=============================================================================
