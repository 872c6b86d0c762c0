----------------------------- MODULE JobExecutor -----------------------------
(***************************************************************************)
(* What stx::thread::FixedSizeThreadPool promises to its callers, without  *)
(* threads that sleep, notifications and locks: jobs are accepted while    *)
(* there is room, start in the order of their acceptance, each once and on *)
(* one of the workers; stop() does not return before all that was accepted *)
(* when it was called is finished, and then nothing runs or starts.        *)
(***************************************************************************)
EXTENDS Naturals, Sequences, FiniteSets

CONSTANTS Jobs, Workers, Unbounded

VARIABLES
    capacity,  \* how many jobs may wait: a number, or Unbounded
    waiting,   \* the accepted jobs that have not started, in their order
    running,   \* the jobs on the workers
    finished,  \* the jobs that have returned or thrown
    promised,  \* the jobs that had been accepted when stop() was called
    stopped    \* stop() has returned

evars == <<capacity, waiting, running, finished, promised, stopped>>

ExecutorInit ==
    /\ capacity \in Nat \cup {Unbounded}
    /\ waiting = << >> /\ running = {} /\ finished = {}
    /\ promised = {} /\ stopped = FALSE

Accepted == {waiting[i] : i \in 1..Len(waiting)} \cup running \cup finished

Accept(j) ==
    /\ j \notin Accepted
    /\ capacity = Unbounded \/ Len(waiting) < capacity
    /\ waiting' = Append(waiting, j)
    /\ UNCHANGED <<capacity, running, finished, promised, stopped>>

Start ==
    /\ ~stopped
    /\ waiting # << >> /\ Cardinality(running) < Cardinality(Workers)
    /\ running' = running \cup {Head(waiting)}
    /\ waiting' = Tail(waiting)
    /\ UNCHANGED <<capacity, finished, promised, stopped>>

Finish(j) ==
    /\ j \in running
    /\ running' = running \ {j}
    /\ finished' = finished \cup {j}
    /\ UNCHANGED <<capacity, waiting, promised, stopped>>

CallStop ==
    /\ ~stopped
    /\ promised' = Accepted
    /\ UNCHANGED <<capacity, waiting, running, finished, stopped>>

StopReturns ==
    /\ ~stopped /\ running = {} /\ promised \subseteq finished
    /\ stopped' = TRUE
    /\ UNCHANGED <<capacity, waiting, running, finished, promised>>

ExecutorNext == Start \/ CallStop \/ StopReturns \/ \E j \in Jobs : Accept(j) \/ Finish(j)

ExecutorSpec == ExecutorInit /\ [][ExecutorNext]_evars
=============================================================================
