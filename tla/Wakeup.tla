------------------------------- MODULE Wakeup -------------------------------
(***************************************************************************)
(* stx::Wakeup: a counter of wakeups that threads wait on and callbacks    *)
(* are attached to.  A caller first reads the generation and later, in     *)
(* another critical section, asks for the next wakeup after it; wakeups    *)
(* may happen in between.  wakeup() takes the list of callbacks under the  *)
(* mutex, notifies after the unlock and runs the callbacks last.           *)
(***************************************************************************)
EXTENDS Naturals, Sequences

CONSTANTS
    Threads,    \* threads that use the object
    Callbacks,  \* callbacks, each handed to onWakeup() at most once
    MaxGen      \* bound on the wakeups of a behaviour

VARIABLES
    gen,        \* gen_
    callbacks,  \* callbacks_
    pc,         \* where each thread is
    oldgen,     \* the generation a thread has read, its argument
    batch,      \* the callbacks a thread has still to run
    asked,      \* history: per callback, the generation it was handed over
                \*   with, plus one; 0 before
    ran         \* history: how often each callback has run

vars == <<gen, callbacks, pc, oldgen, batch, asked, ran>>

Init ==
    /\ gen = 0
    /\ callbacks = << >>
    /\ pc = [t \in Threads |-> "idle"]
    /\ oldgen = [t \in Threads |-> 0]
    /\ batch = [t \in Threads |-> << >>]
    /\ asked = [c \in Callbacks |-> 0]
    /\ ran = [c \in Callbacks |-> 0]

Goto(t, l) == pc' = [pc EXCEPT ![t] = l]

\* generation(), or the 0 of waitForFirstWakeup() and runOnFirstWakeup().
Generation(t) ==
    /\ pc[t] = "idle"
    /\ \E g \in {gen, 0} : oldgen' = [oldgen EXCEPT ![t] = g]
    /\ Goto(t, "read")
    /\ UNCHANGED <<gen, callbacks, batch, asked, ran>>

\* waitForWakeup(oldgen): the predicate is tested under the mutex, before the
\* first wait and after every return from it.
WaitForWakeup(t) ==
    /\ pc[t] = "read"
    /\ Goto(t, IF gen > oldgen[t] THEN "idle" ELSE "asleep")
    /\ UNCHANGED <<gen, callbacks, oldgen, batch, asked, ran>>

\* The wait returns without a notification.
SpuriousWakeup(t) ==
    /\ pc[t] = "asleep"
    /\ Goto(t, "read")
    /\ UNCHANGED <<gen, callbacks, oldgen, batch, asked, ran>>

\* onWakeup(oldgen, c): run c after the unlock if the wakeup has been, else
\* remember it.
OnWakeup(t) ==
    /\ pc[t] = "read"
    /\ \E c \in Callbacks :
          /\ asked[c] = 0
          /\ asked' = [asked EXCEPT ![c] = oldgen[t] + 1]
          /\ \/ /\ gen > oldgen[t]
                /\ batch' = [batch EXCEPT ![t] = <<c>>]
                /\ Goto(t, "run")
                /\ UNCHANGED callbacks
             \/ /\ gen <= oldgen[t]
                /\ callbacks' = Append(callbacks, c)
                /\ Goto(t, "idle")
                /\ UNCHANGED batch
    /\ UNCHANGED <<gen, oldgen, ran>>

\* Mutant of DoWakeup: the list is emptied before it is copied.
DoWakeupClearsFirst(t) ==
    /\ pc[t] = "idle" /\ gen < MaxGen
    /\ gen' = gen + 1
    /\ callbacks' = << >>
    /\ batch' = [batch EXCEPT ![t] = callbacks']
    /\ Goto(t, "notify")
    /\ UNCHANGED <<oldgen, asked, ran>>

\* wakeup(), up to the unlock.
DoWakeup(t) ==
    /\ pc[t] = "idle" /\ gen < MaxGen
    /\ gen' = gen + 1
    /\ batch' = [batch EXCEPT ![t] = callbacks]
    /\ callbacks' = << >>
    /\ Goto(t, "notify")
    /\ UNCHANGED <<oldgen, asked, ran>>

\* condvar_.notify_all()
NotifyAll(t) ==
    /\ pc[t] = "notify"
    /\ pc' = [u \in Threads |-> CASE u = t -> "run"
                                  [] pc[u] = "asleep" -> "read"
                                  [] OTHER -> pc[u]]
    /\ UNCHANGED <<gen, callbacks, oldgen, batch, asked, ran>>

\* The next callback of wakeup() or of onWakeup(), with the mutex free.
RunCallback(t) ==
    /\ pc[t] = "run" /\ batch[t] # << >>
    /\ ran' = [ran EXCEPT ![Head(batch[t])] = @ + 1]
    /\ batch' = [batch EXCEPT ![t] = Tail(@)]
    /\ UNCHANGED <<gen, callbacks, pc, oldgen, asked>>

Return(t) ==
    /\ pc[t] = "run" /\ batch[t] = << >>
    /\ Goto(t, "idle")
    /\ UNCHANGED <<gen, callbacks, oldgen, batch, asked, ran>>

Next ==
    \E t \in Threads :
        \/ Generation(t) \/ WaitForWakeup(t) \/ SpuriousWakeup(t) \/ OnWakeup(t)
        \/ DoWakeup(t) \/ NotifyAll(t) \/ RunCallback(t) \/ Return(t)

Spec == Init /\ [][Next]_vars

\* A thread inside a call goes on, and callbacks return.  Nobody has to call.
Fairness ==
    \A t \in Threads :
        WF_vars(WaitForWakeup(t) \/ NotifyAll(t) \/ RunCallback(t) \/ Return(t))

FairSpec == Spec /\ Fairness
-----------------------------------------------------------------------------
\* A callback runs at most once, and never before the wakeup it waits for,
\* although several threads run callbacks at the same time.
OnceAndNotEarly ==
    \A c \in Callbacks : ran[c] <= 1 /\ (ran[c] = 1 => gen >= asked[c])

\* A callback whose wakeup has come is run by onWakeup() or by a wakeup().
CallbacksRun ==
    \A c \in Callbacks : (asked[c] > 0 /\ gen >= asked[c]) ~> (ran[c] = 1)

\* waitForWakeup() of a generation that has passed returns.
WaitersReturn ==
    \A t \in Threads : (pc[t] = "asleep" /\ gen > oldgen[t]) ~> (pc[t] # "asleep")
=============================================================================
