----------------------------- MODULE ThreadPool -----------------------------
(***************************************************************************)
(* stx::thread::ThreadPool (alias CachedThreadPool): a run queue, a        *)
(* condition variable and detached worker threads that are started when    *)
(* the queue is longer than the number of free threads.                    *)
(*                                                                         *)
(* A step of the model is one critical section of runq_mutex_, one         *)
(* notification, or one event of a task.  The condition variable wakeup_   *)
(* is the set of threads with pc = "waiting"; a notified thread is "woken" *)
(* until it has got the mutex back.                                        *)
(***************************************************************************)
EXTENDS Integers, Sequences, FiniteSets

CONSTANTS
    Tasks,            \* the closures handed to the pool, each of them once
    Parking,          \* the tasks of runOnReadable/-Writable/-Wakeup: they
                      \*   block their thread until an event comes
    Selecting,        \* those of runOnReadable and runOnWritable
    Threads,          \* identities for the threads the pool may start
    Clients,          \* threads outside of the pool that call run()
    HandlerReturns,   \* what a call of error_handler_ may do: TRUE if it may return
                      \*   (CatchAndLog), FALSE if it may abort (the default)
    MaxStartFailures, \* bound on failing std::thread constructors
    NoTask

ASSUME PoolAssumption ==
    /\ Parking \subseteq Tasks
    /\ Selecting \subseteq Parking
    /\ IsFiniteSet(Threads) /\ IsFiniteSet(Clients)
    /\ Threads \cap Clients = {}
    /\ HandlerReturns \subseteq BOOLEAN
    /\ MaxStartFailures \in Nat
    /\ NoTask \notin Tasks

VARIABLES
    runq,          \* runq_
    free_threads,  \* free_threads_
    pc,            \* what each thread of the pool is doing
    cur,           \* the task a thread has popped
    notifying,     \* callers of run() between unlock() and notify_one()
    happened,      \* parking tasks whose event has come
    submitted,     \* history: the order of the push_backs
    started,       \* history: the order in which tasks were popped
    startFailures, \* history: std::thread constructors that threw
    alive          \* FALSE once the handler has called abort()

vars == <<runq, free_threads, pc, cur, notifying, happened, submitted,
          started, startFailures, alive>>

PCs == {"none", "start", "waiting", "woken", "parked", "running"}

At(s) == {w \in Threads : pc[w] = s}

\* How many threads are in state s, when f says what each is doing.
Count(f, s) == Cardinality({w \in Threads : f[w] = s})

\* Who may be inside run(): any client, and a thread whose task calls it.
Callers == Clients \cup Threads

\* Types.  free_threads_ is unsigned in the code: it never passes zero.
TypeOK ==
    /\ runq \in Seq(Tasks)
    /\ free_threads \in Nat
    /\ pc \in [Threads -> PCs]
    /\ cur \in [Threads -> Tasks \cup {NoTask}]
    /\ notifying \subseteq Callers
    /\ happened \subseteq Parking
    /\ submitted \in Seq(Tasks)
    /\ started \in Seq(Tasks)
    /\ startFailures \in Nat
    /\ alive \in BOOLEAN

Init ==
    /\ runq = << >>
    /\ free_threads = 0
    /\ pc = [w \in Threads |-> "none"]
    /\ cur = [w \in Threads |-> NoTask]
    /\ notifying = {}
    /\ happened = {}
    /\ submitted = << >>
    /\ started = << >>
    /\ startFailures = 0
    /\ alive = TRUE

CanCall(c) ==
    /\ c \notin notifying
    /\ c \in Clients \/ (c \in Threads /\ pc[c] = "running")

\* error_handler_->onException: the default handler aborts the process, a
\* CatchAndLog handler returns to its caller.
OnException == alive' \in HandlerReturns

-----------------------------------------------------------------------------
\* startThread(): std::thread is created ...
StartThread ==
    \E w \in At("none") :
        /\ pc' = [pc EXCEPT ![w] = "start"]
        /\ UNCHANGED <<startFailures, alive>>

\* ... or its constructor throws and the handler is called.
StartThreadFails ==
    /\ startFailures < MaxStartFailures
    /\ startFailures' = startFailures + 1
    /\ OnException
    /\ UNCHANGED pc

\* Mutant of NeedsThread: the comparison of run() is off by one.
NeedsThreadOffByOne(q) == Len(q) > free_threads + 1

NeedsThread(q) == Len(q) > free_threads

\* run(task), up to l.unlock().
Run(c, t) ==
    /\ alive
    /\ CanCall(c)
    /\ \A i \in 1..Len(submitted) : submitted[i] # t
    /\ runq' = Append(runq, t)
    /\ submitted' = Append(submitted, t)
    /\ notifying' = notifying \cup {c}
    /\ \/ NeedsThread(runq') /\ (StartThread \/ StartThreadFails)
       \/ ~NeedsThread(runq') /\ UNCHANGED <<pc, startFailures, alive>>
    /\ UNCHANGED <<free_threads, cur, happened, started>>

\* Mutant of NotifyOne: the notification is skipped.
NotifyNone(c) ==
    /\ alive
    /\ c \in notifying
    /\ notifying' = notifying \ {c}
    /\ UNCHANGED <<runq, free_threads, pc, cur, happened, submitted, started,
                   startFailures, alive>>

\* wakeup_.notify_one(): one waiting thread, if there is any.
NotifyOne(c) ==
    /\ alive
    /\ c \in notifying
    /\ notifying' = notifying \ {c}
    /\ \/ \E w \in At("waiting") : pc' = [pc EXCEPT ![w] = "woken"]
       \/ At("waiting") = {} /\ UNCHANGED pc
    /\ UNCHANGED <<runq, free_threads, cur, happened, submitted, started,
                   startFailures, alive>>

\* A condition variable may return without having been notified.
SpuriousWakeup(w) ==
    /\ alive
    /\ pc[w] = "waiting"
    /\ pc' = [pc EXCEPT ![w] = "woken"]
    /\ UNCHANGED <<runq, free_threads, cur, notifying, happened, submitted,
                   started, startFailures, alive>>

\* The rest of the worker's critical section: wait while the queue is empty,
\* otherwise pop the front and leave.  free is free_threads_ at this point.
WaitOrPop(w, free) ==
    \/ /\ runq = << >>
       /\ pc' = [pc EXCEPT ![w] = "waiting"]
       /\ free_threads' = free
       /\ UNCHANGED <<runq, cur, started>>
    \/ /\ runq # << >>
       /\ runq' = Tail(runq)
       /\ cur' = [cur EXCEPT ![w] = Head(runq)]
       /\ started' = Append(started, Head(runq))
       /\ free_threads' = free - 1
       /\ pc' = [pc EXCEPT
                   ![w] = IF Head(runq) \in Parking THEN "parked" ELSE "running"]

\* The top of the for(;;) loop: a new thread, or one whose task is over.
Enter(w) ==
    /\ alive
    /\ pc[w] = "start"
    /\ WaitOrPop(w, free_threads + 1)
    /\ UNCHANGED <<notifying, happened, submitted, startFailures, alive>>

\* wakeup_.wait(lk) returns and the while condition is evaluated again.
Resume(w) ==
    /\ alive
    /\ pc[w] = "woken"
    /\ WaitOrPop(w, free_threads)
    /\ UNCHANGED <<notifying, happened, submitted, startFailures, alive>>

\* External: the fd becomes ready, or the Wakeup passes the generation.
Event(t) ==
    /\ alive
    /\ t \in Parking \ happened
    /\ happened' = happened \cup {t}
    /\ UNCHANGED <<runq, free_threads, pc, cur, notifying, submitted, started,
                   startFailures, alive>>

\* select() or waitForWakeup() returns and the wrapped task is called.
Unpark(w) ==
    /\ alive
    /\ pc[w] = "parked"
    /\ cur[w] \in happened
    /\ pc' = [pc EXCEPT ![w] = "running"]
    /\ UNCHANGED <<runq, free_threads, cur, notifying, happened, submitted,
                   started, startFailures, alive>>

\* task() returns; run() calls of the task have returned before.
Finish(w) ==
    /\ alive
    /\ pc[w] = "running"
    /\ w \notin notifying
    /\ pc' = [pc EXCEPT ![w] = "start"]
    /\ cur' = [cur EXCEPT ![w] = NoTask]
    /\ UNCHANGED <<runq, free_threads, notifying, happened, submitted, started,
                   startFailures, alive>>

\* task() throws, or select() fails and raises: the handler is called and
\* the loop goes on.
Throw(w) ==
    /\ alive
    /\ pc[w] = "running" \/ (pc[w] = "parked" /\ cur[w] \in Selecting)
    /\ w \notin notifying
    /\ pc' = [pc EXCEPT ![w] = "start"]
    /\ cur' = [cur EXCEPT ![w] = NoTask]
    /\ OnException
    /\ UNCHANGED <<runq, free_threads, notifying, happened, submitted, started,
                   startFailures>>

Next ==
    \/ \E c \in Callers, t \in Tasks : Run(c, t)
    \/ \E c \in Callers : NotifyOne(c)
    \/ \E w \in Threads : \/ SpuriousWakeup(w) \/ Enter(w) \/ Resume(w)
                          \/ Unpark(w) \/ Finish(w) \/ Throw(w)
    \/ \E t \in Parking : Event(t)

Spec == Init /\ [][Next]_vars

\* Threads that are ready to run do run.  No fairness for Event, Unpark,
\* Finish and Throw: a task may hold its thread for ever.
Fairness ==
    /\ \A c \in Callers : WF_vars(NotifyOne(c))
    /\ \A w \in Threads : WF_vars(Enter(w)) /\ WF_vars(Resume(w))

FairSpec == Spec /\ Fairness
-----------------------------------------------------------------------------
Queued(t) == \E i \in 1..Len(runq) : runq[i] = t

\* free_threads_ is exactly the number of threads in, or returning from,
\* wakeup_.wait(): the counter survives empty wakeups, exceptions thrown by
\* tasks and failed thread starts (run() trusts it to decide on a new thread).
FreeThreadsExact ==
    free_threads = Count(pc, "waiting") + Count(pc, "woken")

\* Every queued task has a thread that is not busy with another task, apart
\* from thread starts that failed: threads blocked in select() or in
\* waitForWakeup() never make the queue wait (run(), runq_.size() > free_threads_).
QueueHasThreads ==
    Len(runq) <= free_threads + Count(pc, "start") + startFailures

\* No lost wakeup: a queued task has a thread that is about to look at the
\* queue, or a notify_one() that is still to come.
NoLostWakeup ==
    Len(runq) <= Count(pc, "start") + Count(pc, "woken")
                   + Cardinality(notifying) + startFailures

\* Each task is popped exactly once, in the order of the push_backs.
StartedInOrder == submitted = started \o runq

\* A queued task starts even if no running task ever returns (or the process
\* is aborted, or the thread it needed could not be started).
EveryTaskStarts ==
    \A t \in Tasks : Queued(t) ~> (~Queued(t) \/ ~alive \/ startFailures > 0)
=============================================================================
