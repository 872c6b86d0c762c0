----------------------------- MODULE ThreadQueue -----------------------------
(***************************************************************************)
(* stx::thread::Queue: a FIFO with an optional maximum length, used by     *)
(* threads that insert, pop, poll or wait until it is empty.  All of them  *)
(* wait on one condition variable, wakeup_, and every change of the queue  *)
(* is followed by a notify_all() after the mutex has been released.        *)
(*                                                                         *)
(* A step is one critical section of mutex_ or one notify_all().  A thread *)
(* inside a blocking call has op # "none"; cv tells if it sleeps.  A       *)
(* thread in notifying has released the mutex and owes its notify_all();   *)
(* its call returns after that.  length_ always moves together with        *)
(* queue_ under the mutex, and is Len(queue) here.                         *)
(***************************************************************************)
EXTENDS Integers, Sequences, FiniteSets

CONSTANTS
    Procs,     \* the threads that use the queue
    Jobs,      \* the elements, each of them inserted once
    NoJob,     \* None<T>()
    Unbounded, \* size_t(-1)
    MaxSize    \* the max_size argument: a number, or Unbounded

ASSUME QueueAssumption ==
    /\ NoJob \notin Jobs
    /\ Unbounded \notin Nat
    /\ MaxSize \in Nat \cup {Unbounded}

VARIABLES
    max_size,  \* max_size_
    queue,     \* queue_
    op,        \* the call a thread is blocked in
    cv,        \* is the thread asleep in wakeup_.wait()?
    arg,       \* the job of a blocked insert()
    got,       \* what the thread's last pop returned
    notifying, \* threads between unlock() and notify_all()
    inserted,  \* history: jobs in the order of emplace_back
    taken      \* history: jobs in the order of pop_front

qvars == <<max_size, queue, op, cv, arg, got, notifying, inserted, taken>>

QueueTypeOK ==
    /\ max_size \in Nat \cup {Unbounded}
    /\ queue \in Seq(Jobs)
    /\ op \in [Procs -> {"none", "insert", "pop", "interruptiblePop",
                         "waitUntilEmpty"}]
    /\ cv \in [Procs -> {"awake", "asleep"}]
    /\ arg \in [Procs -> Jobs \cup {NoJob}]
    /\ got \in [Procs -> Jobs \cup {NoJob}]
    /\ notifying \subseteq Procs
    /\ inserted \in Seq(Jobs)
    /\ taken \in Seq(Jobs)

QueueInit(max) ==
    /\ max_size = max
    /\ queue = << >>
    /\ op = [p \in Procs |-> "none"]
    /\ cv = [p \in Procs |-> "awake"]
    /\ arg = [p \in Procs |-> NoJob]
    /\ got = [p \in Procs |-> NoJob]
    /\ notifying = {}
    /\ inserted = << >>
    /\ taken = << >>

\* The thread is outside of every call of the queue.
Outside(p) == op[p] = "none" /\ p \notin notifying

\* The wait returned and the thread has the mutex again.
Awake(p, call) == op[p] = call /\ cv[p] = "awake"

\* No thread has handed in j before.
IsNew(j) == /\ \A i \in 1..Len(inserted) : inserted[i] # j
            /\ \A p \in Procs : arg[p] # j

-----------------------------------------------------------------------------
Sleep(p, call) ==
    /\ op' = [op EXCEPT ![p] = call]
    /\ cv' = [cv EXCEPT ![p] = "asleep"]
    /\ UNCHANGED <<max_size, queue, got, notifying, inserted, taken>>

\* emplace_back and unlock().
Put(p, j) ==
    /\ queue' = Append(queue, j)
    /\ inserted' = Append(inserted, j)
    /\ op' = [op EXCEPT ![p] = "none"]
    /\ arg' = [arg EXCEPT ![p] = NoJob]
    /\ notifying' = notifying \cup {p}
    /\ UNCHANGED <<max_size, cv, got, taken>>

\* pop_front and unlock().
Take(p) ==
    /\ queue' = Tail(queue)
    /\ taken' = Append(taken, Head(queue))
    /\ got' = [got EXCEPT ![p] = Head(queue)]
    /\ op' = [op EXCEPT ![p] = "none"]
    /\ notifying' = notifying \cup {p}
    /\ UNCHANGED <<max_size, cv, arg, inserted>>

\* A pop that finds nothing returns None: no change, and no notification.
TakeNothing(p) ==
    /\ got' = [got EXCEPT ![p] = NoJob]
    /\ op' = [op EXCEPT ![p] = "none"]
    /\ UNCHANGED <<max_size, queue, cv, arg, notifying, inserted, taken>>

Full == max_size # Unbounded /\ Len(queue) >= max_size

\* insert(job, block): a full queue raises or blocks.
InsertRaises(p, j) ==
    /\ Outside(p) /\ IsNew(j)
    /\ Full
    /\ UNCHANGED qvars

Insert(p, j, block) ==
    /\ Outside(p) /\ IsNew(j)
    /\ \/ Full /\ block /\ Sleep(p, "insert") /\ arg' = [arg EXCEPT ![p] = j]
       \/ ~Full /\ Put(p, j)

InsertResumes(p) ==
    /\ Awake(p, "insert")
    /\ \/ Full /\ Sleep(p, "insert") /\ UNCHANGED arg
       \/ ~Full /\ Put(p, arg[p])

\* pop(): waits in a loop.
PopStep(p) ==
    \/ queue = << >> /\ Sleep(p, "pop") /\ UNCHANGED arg
    \/ queue # << >> /\ Take(p)

Pop(p)        == Outside(p) /\ PopStep(p)
PopResumes(p) == Awake(p, "pop") /\ PopStep(p)

\* interruptiblePop(): waits once, and may come back with nothing.
InterruptiblePop(p) ==
    /\ Outside(p)
    /\ \/ queue = << >> /\ Sleep(p, "interruptiblePop") /\ UNCHANGED arg
       \/ queue # << >> /\ Take(p)

InterruptiblePopResumes(p) ==
    /\ Awake(p, "interruptiblePop")
    /\ \/ queue = << >> /\ TakeNothing(p)
       \/ queue # << >> /\ Take(p)

\* poll(): never waits.
Poll(p) ==
    /\ Outside(p)
    /\ \/ queue = << >> /\ TakeNothing(p)
       \/ queue # << >> /\ Take(p)

\* waitUntilEmpty().
WaitStep(p) ==
    \/ queue # << >> /\ Sleep(p, "waitUntilEmpty") /\ UNCHANGED arg
    \/ /\ queue = << >>
       /\ op' = [op EXCEPT ![p] = "none"]
       /\ UNCHANGED <<max_size, queue, cv, arg, got, notifying, inserted, taken>>

WaitUntilEmpty(p)        == Outside(p) /\ WaitStep(p)
WaitUntilEmptyResumes(p) == Awake(p, "waitUntilEmpty") /\ WaitStep(p)

\* Mutant of WakeAll: notify_one() instead of notify_all().
WakeOne ==
    IF \E p \in Procs : cv[p] = "asleep"
    THEN cv' = [cv EXCEPT ![CHOOSE p \in Procs : cv[p] = "asleep"] = "awake"]
    ELSE cv' = cv

WakeAll == cv' = [p \in Procs |-> "awake"]

NotifyAll(p) ==
    /\ p \in notifying
    /\ notifying' = notifying \ {p}
    /\ WakeAll
    /\ UNCHANGED <<max_size, queue, op, arg, got, inserted, taken>>

\* wakeup().
Wakeup(p) ==
    /\ Outside(p)
    /\ WakeAll
    /\ UNCHANGED <<max_size, queue, op, arg, got, notifying, inserted, taken>>

\* A wait may return without a notification.
SpuriousWakeup(p) ==
    /\ cv[p] = "asleep"
    /\ cv' = [cv EXCEPT ![p] = "awake"]
    /\ UNCHANGED <<max_size, queue, op, arg, got, notifying, inserted, taken>>

Resumes(p) ==
    \/ InsertResumes(p) \/ PopResumes(p)
    \/ InterruptiblePopResumes(p) \/ WaitUntilEmptyResumes(p)

QueueNext ==
    \E p \in Procs :
        \/ \E j \in Jobs, block \in BOOLEAN : Insert(p, j, block)
        \/ \E j \in Jobs : InsertRaises(p, j)
        \/ Pop(p) \/ InterruptiblePop(p) \/ Poll(p) \/ WaitUntilEmpty(p)
        \/ Wakeup(p) \/ NotifyAll(p) \/ SpuriousWakeup(p) \/ Resumes(p)


\* A thread that holds, or can get, the mutex goes on.
QueueFairness ==
    \A p \in Procs : WF_qvars(NotifyAll(p)) /\ WF_qvars(Resumes(p))

-----------------------------------------------------------------------------
\* Every job comes out once, in the order in which the jobs went in.
FirstInFirstOut == inserted = taken \o queue

\* A blocked pop() that is awake, with a job in the queue that no one else
\* takes, gets it: the queue cannot stay non-empty with a pop() blocked.
PopsProceed ==
    \A p \in Procs : (op[p] = "pop" /\ queue # << >>) ~> (op[p] = "none" \/ queue = << >>)
=============================================================================
