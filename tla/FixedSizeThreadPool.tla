------------------------- MODULE FixedSizeThreadPool -------------------------
(***************************************************************************)
(* stx::thread::FixedSizeThreadPool: nthreads_ workers that pop jobs from  *)
(* a ThreadQueue until running_ is false, run(), start() and stop().       *)
(* Every step that touches the queue is a step of ThreadQueue together     *)
(* with a change of the thread's own program counter.                      *)
(***************************************************************************)
EXTENDS ThreadQueue

CONSTANTS
    Workers, Clients, Stopper, \* the threads: the pool's own, the callers of
                               \*   run(), and the one that calls stop()
    Uses                       \* the ways in which programs use the pool, see Use

\* How a program uses the pool: whether it calls the constructor that takes a
\* handler, with which block argument, whether the handler returns
\* (CatchAndLog) or aborts, and whether jobs call run() themselves.
Use == [withHandler : BOOLEAN, block : BOOLEAN, handlerReturns : BOOLEAN,
        jobsCallRun : BOOLEAN]

\* With a handler: blocking and throwing pools, and jobs of both kinds; and
\* the constructor without one, which drops maxqueuelen.
Used(handler, block, returns, jobs) ==
    [withHandler |-> handler, block |-> block, handlerReturns |-> returns,
     jobsCallRun |-> jobs]

SomeUses ==
    {Used(TRUE, TRUE, TRUE, FALSE), Used(TRUE, TRUE, TRUE, TRUE),
     Used(TRUE, FALSE, FALSE, TRUE), Used(FALSE, TRUE, FALSE, FALSE)}

ASSUME PoolAssumption ==
    /\ Procs = Workers \cup Clients \cup {Stopper}
    /\ Workers \cap Clients = {}
    /\ IsFiniteSet(Workers)
    /\ Stopper \notin Workers \cup Clients
    /\ Uses \subseteq Use

VARIABLES
    use,         \* a member of Uses, the same in all of a behaviour
    running_,    \* running_
    at,          \* where each worker is in its loop, and Stopper in stop()
    done,        \* history: jobs that have returned or thrown
    beforeStop,  \* history: jobs that were in when stop() was called
    alive        \* FALSE once the handler has called abort()

pvars == <<use, running_, at, done, beforeStop, alive>>
vars  == <<qvars, pvars>>

\* Types.  A worker that executes holds a job: it never calls the empty result
\* of interruptiblePop().
TypeOK ==
    /\ QueueTypeOK
    /\ use \in Uses
    /\ running_ \in BOOLEAN
    /\ \A w \in Workers : at[w] \in {"new", "loop", "pop", "popping", "job", "exit"}
    /\ at[Stopper] \in {"idle", "waitUntilEmpty", "wakeup", "join", "stopped"}
    /\ \A w \in Workers : at[w] = "job" => got[w] \in Jobs
    /\ done \subseteq Jobs /\ beforeStop \subseteq Jobs
    /\ alive \in BOOLEAN

\* The constructor without a handler delegates without maxqueuelen and block.
QueueMax(u) == IF u.withHandler THEN MaxSize ELSE Unbounded
block_      == ~use.withHandler \/ use.block

\* error_handler_->onException(); the other constructor's handler aborts.
OnException == alive' = (use.withHandler /\ use.handlerReturns)

Init ==
    /\ use \in Uses
    /\ QueueInit(QueueMax(use))
    /\ running_ = FALSE
    /\ at = [p \in Procs |-> IF p \in Workers THEN "new" ELSE "idle"]
    /\ done = {}
    /\ beforeStop = {}
    /\ alive = TRUE

Goto(p, l) == at' = [at EXCEPT ![p] = l]

-----------------------------------------------------------------------------
\* start(): running_ = true, then the threads.
Start ==
    /\ alive
    /\ \A w \in Workers : at[w] = "new"
    /\ running_' = TRUE
    /\ at' = [p \in Procs |-> IF p \in Workers THEN "loop" ELSE at[p]]
    /\ UNCHANGED <<qvars, use, done, beforeStop, alive>>

\* run(task): called by a client, or from within a job.
MayRun(p) == p \in Clients \/ (use.jobsCallRun /\ p \in Workers /\ at[p] = "job")

Run(p, j) ==
    /\ alive /\ MayRun(p)
    /\ Insert(p, j, block_) \/ (~block_ /\ InsertRaises(p, j))
    /\ UNCHANGED pvars

\* while (running_.load())
WorkerLoop(w) ==
    /\ alive
    /\ at[w] = "loop"
    /\ Goto(w, IF running_ THEN "pop" ELSE "exit")
    /\ UNCHANGED <<qvars, use, running_, done, beforeStop, alive>>

WorkerPop(w) ==
    /\ alive
    /\ at[w] = "pop"
    /\ InterruptiblePop(w)
    /\ Goto(w, "popping")
    /\ UNCHANGED <<use, running_, done, beforeStop, alive>>

\* interruptiblePop() returns: job.isEmpty() or not.
WorkerGotJob(w) ==
    /\ alive
    /\ at[w] = "popping" /\ Outside(w)
    /\ Goto(w, IF got[w] = NoJob THEN "loop" ELSE "job")
    /\ UNCHANGED <<qvars, use, running_, done, beforeStop, alive>>

\* job.get()() returns.
JobReturns(w) ==
    /\ alive
    /\ at[w] = "job" /\ Outside(w)
    /\ done' = done \cup {got[w]}
    /\ Goto(w, "loop")
    /\ UNCHANGED <<qvars, use, running_, beforeStop, alive>>

\* job.get()() throws: the handler aborts the process, or returns.
JobThrows(w) ==
    /\ alive
    /\ at[w] = "job" /\ Outside(w)
    /\ done' = done \cup {got[w]}
    /\ OnException
    /\ Goto(w, "loop")
    /\ UNCHANGED <<qvars, use, running_, beforeStop>>

\* stop(): queue_.waitUntilEmpty() ...
Stop ==
    /\ alive
    /\ at[Stopper] = "idle" /\ \A w \in Workers : at[w] # "new"
    /\ WaitUntilEmpty(Stopper)
    /\ beforeStop' = {inserted[i] : i \in 1..Len(inserted)}
    /\ Goto(Stopper, "waitUntilEmpty")
    /\ UNCHANGED <<use, running_, done, alive>>

\* ... running_ = false ...
StopSetFlag ==
    /\ alive
    /\ at[Stopper] = "waitUntilEmpty" /\ Outside(Stopper)
    /\ running_' = FALSE
    /\ Goto(Stopper, "wakeup")
    /\ UNCHANGED <<qvars, use, done, beforeStop, alive>>

\* Mutant of StopWakeup: the workers are not woken.
StopNoWakeup ==
    /\ alive
    /\ at[Stopper] = "wakeup"
    /\ Goto(Stopper, "join")
    /\ UNCHANGED <<qvars, use, running_, done, beforeStop, alive>>

\* ... queue_.wakeup() ...
StopWakeup ==
    /\ alive
    /\ at[Stopper] = "wakeup"
    /\ Wakeup(Stopper)
    /\ Goto(Stopper, "join")
    /\ UNCHANGED <<use, running_, done, beforeStop, alive>>

\* Mutant of StopJoin: stop() does not join the threads.
StopNoJoin ==
    /\ alive
    /\ at[Stopper] = "join"
    /\ Goto(Stopper, "stopped")
    /\ UNCHANGED <<qvars, use, running_, done, beforeStop, alive>>

\* ... and the joins.
StopJoin ==
    /\ alive
    /\ at[Stopper] = "join"
    /\ \A w \in Workers : at[w] = "exit"
    /\ Goto(Stopper, "stopped")
    /\ UNCHANGED <<qvars, use, running_, done, beforeStop, alive>>

\* What the queue does on its own for a thread inside one of its calls.
QueueStep(p) ==
    /\ alive
    /\ Resumes(p) \/ NotifyAll(p)
    /\ UNCHANGED pvars

QueueSpurious(p) == alive /\ SpuriousWakeup(p) /\ UNCHANGED pvars

WorkerStep(w) == WorkerLoop(w) \/ WorkerPop(w) \/ WorkerGotJob(w)

StopperStep == StopSetFlag \/ StopWakeup \/ StopJoin

Next ==
    \/ Start \/ Stop \/ StopSetFlag \/ StopWakeup \/ StopJoin
    \/ \E p \in Procs, j \in Jobs : Run(p, j)
    \/ \E w \in Workers : \/ WorkerLoop(w) \/ WorkerPop(w) \/ WorkerGotJob(w)
                          \/ JobReturns(w) \/ JobThrows(w)
    \/ \E p \in Procs : QueueStep(p) \/ QueueSpurious(p)

Spec == Init /\ [][Next]_vars

\* Runnable threads run, and jobs come to an end.  Nothing makes a sleeping
\* thread wake up but a notification.
Fairness ==
    /\ \A p \in Procs : WF_vars(QueueStep(p))
    /\ \A w \in Workers : /\ WF_vars(WorkerStep(w))
                          /\ WF_vars(JobReturns(w) \/ JobThrows(w))
    /\ WF_vars(StopperStep)

FairSpec == Spec /\ Fairness
-----------------------------------------------------------------------------
\* The job that a worker has taken and not finished: from the pop_front() of
\* interruptiblePop() until the job returns or throws.
Holds(w) == at[w] = "job" \/ (at[w] = "popping" /\ op[w] = "none" /\ got[w] # NoJob)

Executor == INSTANCE JobExecutor WITH
    capacity <- max_size,
    waiting  <- queue,
    running  <- {got[w] : w \in {x \in Workers : Holds(x)}},
    finished <- done,
    promised <- beforeStop,
    stopped  <- (at[Stopper] = "stopped")

\* The pool is an executor: whatever its workers, callers and stop() do in
\* which order, jobs start once each and in order, no more of them wait than
\* the queue may hold, and when stop() returns every job that had been
\* accepted before its call is done and nothing runs: waitUntilEmpty() covers
\* the queue, join() the jobs that workers still hold.
PoolIsExecutor == Executor!ExecutorSpec

\* Every worker has tested running_ and gone to sleep or beyond: none is
\* between the test and wakeup_.wait().
NoneBeforeWait == \A w \in Workers : at[w] # "pop"

\* stop() terminates if its wakeup() finds no worker between the test of
\* running_ and the wait: the other ones see the flag, or are woken.  (A
\* worker in that gap misses the only notification, and a job that calls run()
\* may wait for ever for a place.)
StopTerminates ==
    (at[Stopper] = "wakeup" /\ NoneBeforeWait /\ ~use.jobsCallRun)
        ~> (at[Stopper] = "stopped" \/ ~alive)
=============================================================================
