---------------------------- MODULE DelayedQueue ----------------------------
(***************************************************************************)
(* stx::thread::DelayedQueue and CoalescingDelayedQueue: jobs come out in  *)
(* the order of their times, and not before.  The coalescing queue keeps   *)
(* one entry per job, at the earliest of the times it was inserted with.   *)
(* One condition variable serves consumers and blocked producers; the      *)
(* wait of a consumer ends at the time of the first entry that it saw,     *)
(* and it comes back with nothing.  A step is one critical section of      *)
(* mutex_, one notify_all(), or a tick of the clock.                       *)
(***************************************************************************)
EXTENDS Integers, Sequences, FiniteSetsExt

CONSTANTS
    Producers, Consumers,  \* the threads; consumers call interruptiblePop() for ever
    Jobs,
    MaxTime,               \* bound on the clock and on the times of jobs
    MaxSize,               \* max_size
    MaxInserts             \* bound on the calls of insert()

VARIABLES
    coalescing,  \* which of the two queues
    queue,       \* queue_, as the sequence of [when, job] in its order
    length,      \* length_
    map,         \* map_: the time of a job that has an entry, else Never
    now,         \* the clock
    pc,          \* where each thread is
    arg,         \* the entry that a blocked insert() is for
    until,       \* when the wait_for() of a consumer ends
    inserts,     \* history: the calls of insert() so far
    due,         \* history: the earliest time a job that is to come out was
                 \*   inserted with, else Never
    struck       \* history: an erase() of one job has removed another one

vars == <<coalescing, queue, length, map, now, pc, arg, until, inserts, due, struck>>

Never == MaxTime + 1

Init ==
    /\ coalescing \in BOOLEAN
    /\ queue = << >> /\ length = 0
    /\ map = [j \in Jobs |-> Never]
    /\ now = 0
    /\ pc = [t \in Producers \cup Consumers |-> "idle"]
    /\ arg = [p \in Producers |-> << >>]
    /\ until = [c \in Consumers |-> 0]
    /\ inserts = 0
    /\ due = [j \in Jobs |-> Never]
    /\ struck = FALSE

Goto(t, l) == pc' = [pc EXCEPT ![t] = l]

-----------------------------------------------------------------------------
\* The first entry of the multiset that is not before a time, and that is behind it.
LowerBound(q, when) == Min({k \in 1..Len(q) + 1 : k <= Len(q) => q[k].when >= when})
UpperBound(q, when) == Min({k \in 1..Len(q) + 1 : k <= Len(q) => q[k].when > when})

\* std::multiset::emplace(): behind the entries with the same time.
Emplace(q, e) ==
    SubSeq(q, 1, UpperBound(q, e.when) - 1) \o <<e>> \o SubSeq(q, UpperBound(q, e.when), Len(q))

\* queue_.erase(key): the comparator looks at the time only, so every entry
\* of that time is equivalent to the key.
EraseTime(q, when) ==
    SubSeq(q, 1, LowerBound(q, when) - 1) \o SubSeq(q, UpperBound(q, when), Len(q))

Earlier(s, t) == IF s < t THEN s ELSE t

\* What insert() does once there is room.  A job that is in the coalescing
\* queue already is moved if the new time is earlier, else left alone.
Moves(e) == coalescing /\ map[e.job] # Never
Enter(p, e) ==
    /\ arg' = [arg EXCEPT ![p] = << >>]
    /\ due' = [due EXCEPT ![e.job] = Earlier(@, e.when)]
    /\ \/ /\ Moves(e) /\ map[e.job] <= e.when
          /\ Goto(p, "idle")
          /\ UNCHANGED <<queue, length, map, struck>>
       \/ /\ Moves(e) => map[e.job] > e.when
          /\ LET rest == IF Moves(e) THEN EraseTime(queue, map[e.job]) ELSE queue
             IN /\ queue' = Emplace(rest, e)
                /\ struck' = (struck \/ (Moves(e) /\ Len(rest) # Len(queue) - 1))
          /\ length' = length + 1
          /\ map' = IF coalescing THEN [map EXCEPT ![e.job] = e.when] ELSE map
          /\ Goto(p, "notify")
    /\ UNCHANGED <<coalescing, now, until>>

Full == length >= MaxSize

\* A producer that waits for room has the job.
Waiting(j) == \E p \in Producers : arg[p] # << >> /\ arg[p][1].job = j

\* insert(job, when, block).  A job is inserted again while it is queued, or
\* while another producer waits with it, into the coalescing queue only.
Insert(p, e, block) ==
    /\ pc[p] = "idle" /\ inserts < MaxInserts
    /\ coalescing \/ (due[e.job] = Never /\ ~Waiting(e.job))
    /\ inserts' = inserts + 1
    /\ \/ ~Full /\ Enter(p, e)
       \/ /\ Full /\ block
          /\ arg' = [arg EXCEPT ![p] = <<e>>]
          /\ Goto(p, "asleep")
          /\ UNCHANGED <<coalescing, queue, length, map, now, until, due, struck>>
       \/ /\ Full /\ ~block                          \* "queue is full"
          /\ UNCHANGED <<coalescing, queue, length, map, now, pc, arg, until, due, struck>>

\* The loop in insert() tests the length again.
InsertResumes(p) ==
    /\ pc[p] = "awake"
    /\ \/ ~Full /\ Enter(p, arg[p][1])
       \/ /\ Full
          /\ Goto(p, "asleep")
          /\ UNCHANGED <<coalescing, queue, length, map, now, arg, until, due, struck>>
    /\ UNCHANGED inserts

-----------------------------------------------------------------------------
\* The second half of interruptiblePop(), with the mutex.
Take(c) ==
    \/ /\ queue = << >>
       /\ Goto(c, "idle")
       /\ UNCHANGED <<queue, length, map, until, due>>
    \/ /\ queue # << >> /\ now < queue[1].when
       /\ until' = [until EXCEPT ![c] = queue[1].when]
       /\ Goto(c, "timed")
       /\ UNCHANGED <<queue, length, map, due>>
    \/ /\ queue # << >> /\ now >= queue[1].when
       /\ queue' = Tail(queue)
       /\ length' = length - 1
       /\ map' = [map EXCEPT ![queue[1].job] = Never]
       /\ due' = [due EXCEPT ![queue[1].job] = Never]
       /\ Goto(c, "notify")
       /\ UNCHANGED until

\* interruptiblePop(): waits once while there is nothing.
Pop(c) ==
    /\ pc[c] = "idle"
    /\ \/ /\ queue = << >>
          /\ Goto(c, "asleep")
          /\ UNCHANGED <<queue, length, map, until, due>>
       \/ queue # << >> /\ Take(c)
    /\ UNCHANGED <<coalescing, now, arg, inserts, struck>>

PopResumes(c) ==
    /\ pc[c] = "awake"
    /\ Take(c)
    /\ UNCHANGED <<coalescing, now, arg, inserts, struck>>

\* wait_for() is over: interruptiblePop() returns None.
TimedOut(c) ==
    /\ pc[c] = "timed" /\ now >= until[c]
    /\ Goto(c, "idle")
    /\ UNCHANGED <<coalescing, queue, length, map, now, arg, until, inserts, due, struck>>

-----------------------------------------------------------------------------
\* What a thread that waits does when it wakes up.
Woken(l) == CASE l = "asleep" -> "awake" [] l = "timed" -> "idle" [] OTHER -> l

\* Mutant of NotifyAll: nobody is notified.
NotifyNone(t) ==
    /\ pc[t] = "notify"
    /\ Goto(t, "idle")
    /\ UNCHANGED <<coalescing, queue, length, map, now, arg, until, inserts, due, struck>>

\* wakeup_.notify_all(), at the end of insert() and of interruptiblePop().
NotifyAll(t) ==
    /\ pc[t] = "notify"
    /\ pc' = [u \in Producers \cup Consumers |-> IF u = t THEN "idle" ELSE Woken(pc[u])]
    /\ UNCHANGED <<coalescing, queue, length, map, now, arg, until, inserts, due, struck>>

\* wakeup(), by any thread.
WakeupQueue ==
    /\ \E t \in Producers \cup Consumers : pc[t] \in {"asleep", "timed"}
    /\ pc' = [u \in Producers \cup Consumers |-> Woken(pc[u])]
    /\ UNCHANGED <<coalescing, queue, length, map, now, arg, until, inserts, due, struck>>

Spurious(t) ==
    /\ pc[t] \in {"asleep", "timed"}
    /\ Goto(t, Woken(pc[t]))
    /\ UNCHANGED <<coalescing, queue, length, map, now, arg, until, inserts, due, struck>>

Tick ==
    /\ now < MaxTime
    /\ now' = now + 1
    /\ UNCHANGED <<coalescing, queue, length, map, pc, arg, until, inserts, due, struck>>

ConsumerStep(c) == Pop(c) \/ PopResumes(c) \/ TimedOut(c)

Next ==
    \/ \E p \in Producers, j \in Jobs, w \in 0..MaxTime, block \in BOOLEAN :
          Insert(p, [when |-> w, job |-> j], block)
    \/ \E p \in Producers : InsertResumes(p)
    \/ \E c \in Consumers : Pop(c) \/ PopResumes(c) \/ TimedOut(c)
    \/ \E t \in Producers \cup Consumers : NotifyAll(t) \/ Spurious(t)
    \/ WakeupQueue \/ Tick

\* Time passes, threads inside a call go on, and consumers call again.
\* Nothing wakes a sleeper but a notification or the end of its wait.
Fairness ==
    /\ \A t \in Producers \cup Consumers : WF_vars(NotifyAll(t))
    /\ \A p \in Producers : WF_vars(InsertResumes(p))
    /\ \A c \in Consumers : WF_vars(ConsumerStep(c))
    /\ WF_vars(Tick)

Spec == Init /\ [][Next]_vars
FairSpec == Spec /\ Fairness
-----------------------------------------------------------------------------
\* A job never comes out before the earliest time it was inserted with
\* (interruptiblePop() reads the clock and the first entry in one section).
NoneBeforeDue == [][\A j \in Jobs : due[j] # Never /\ due'[j] = Never => now >= due[j]]_vars

\* Besides, every job does come out, although the wait of each consumer is for
\* the entry that was first when it began; unless a move of another job has
\* erased it together with all the entries of that job's old time.
DueJobsComeOut ==
    /\ NoneBeforeDue
    /\ \A j \in Jobs : (due[j] # Never) ~> (due[j] = Never \/ struck)
=============================================================================
