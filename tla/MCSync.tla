------------------------------- MODULE MCSync -------------------------------
(***************************************************************************)
(* The objects that threads meet at: Future and Promise, Wakeup, Queue,    *)
(* the delayed queues and RPCRequest.  A behaviour is one of a single      *)
(* object; the others rest, in a state in which none of their threads has  *)
(* to move.                                                                *)
(***************************************************************************)
EXTENDS Future, TLC

CONSTANTS
    WakeThreads, Callbacks, MaxGen,                        \* of the Wakeup
    Procs, Jobs, NoJob, Unbounded, QueueSize,              \* of the Queue
    DelayProducers, DelayConsumers, DelayJobs, MaxTime, DelaySize, MaxInserts,
    Runners, Cancellers, RPCWaiters, RPCTimedWaiters, RPCClients

ASSUME NoneAssumption == None \notin RPCClients \cup {"failed", "cancelled"}
ASSUME DelayAssumption == MaxTime \in Nat /\ DelayProducers \cap DelayConsumers = {}

VARIABLES
    object,                                                \* the one that moves
    gen, callbacks, wpc, oldgen, batch, asked, ran,
    max_size, queue, op, cv, arg, qgot, notifying, inserted, taken,
    coalescing, dqueue, length, map, now, dpc, darg, until, inserts, due, struck,
    rready, running, error, on_ready, on_cancel, rpc, rcalls, cancelcalls, replaced, twice, crashed

W == INSTANCE Wakeup WITH Threads <- WakeThreads, pc <- wpc
Q == INSTANCE ThreadQueue WITH MaxSize <- QueueSize, got <- qgot
D == INSTANCE DelayedQueue WITH
       Producers <- DelayProducers, Consumers <- DelayConsumers, Jobs <- DelayJobs, MaxSize <- DelaySize,
       queue <- dqueue, pc <- dpc, arg <- darg
R == INSTANCE RPCRequest WITH
       Waiters <- RPCWaiters, TimedWaiters <- RPCTimedWaiters, Clients <- RPCClients,
       ready <- rready, pc <- rpc, calls <- rcalls

wakeVars == <<gen, callbacks, wpc, oldgen, batch, asked, ran>>
queueVars == <<max_size, queue, op, cv, arg, qgot, notifying, inserted, taken>>
delayVars == <<coalescing, dqueue, length, map, now, dpc, darg, until, inserts, due, struck>>
requestVars == <<rready, running, error, on_ready, on_cancel, rpc, rcalls, cancelcalls, replaced, twice, crashed>>

FutureRests ==
    /\ ready = FALSE /\ status = "success" /\ on_success = None /\ on_failure = None
    /\ pc = [t \in Threads |-> "done"]
    /\ got = [t \in Waiters \cup TimedWaiters |-> "nothing"]
    /\ calls = [c \in Clients |-> 0]

DelayRests ==
    /\ coalescing = FALSE /\ dqueue = << >> /\ length = 0 /\ now = MaxTime
    /\ map = [j \in DelayJobs |-> D!Never] /\ due = [j \in DelayJobs |-> D!Never]
    /\ dpc = [t \in DelayProducers \cup DelayConsumers |-> "asleep"]
    /\ darg = [p \in DelayProducers |-> << >>]
    /\ until = [c \in DelayConsumers |-> 0]
    /\ inserts = 0 /\ struck = FALSE

SyncInit ==
    /\ W!Init
    /\ Q!QueueInit(QueueSize)
    /\ R!Init
    /\ \/ object = "future" /\ Init /\ DelayRests
       \/ object = "delayed" /\ FutureRests /\ D!Init
       \/ object \in {"wakeup", "queue", "request"} /\ FutureRests /\ DelayRests

SyncNext ==
    /\ \/ object = "future" /\ Next /\ UNCHANGED <<wakeVars, queueVars, delayVars, requestVars>>
       \/ object = "wakeup" /\ W!Next /\ UNCHANGED <<vars, queueVars, delayVars, requestVars>>
       \/ object = "queue" /\ Q!QueueNext /\ UNCHANGED <<vars, wakeVars, delayVars, requestVars>>
       \/ object = "delayed" /\ D!Next /\ UNCHANGED <<vars, wakeVars, queueVars, requestVars>>
       \/ object = "request" /\ R!Next /\ UNCHANGED <<vars, wakeVars, queueVars, delayVars>>
    /\ UNCHANGED object

SyncSpec ==
    /\ SyncInit
    /\ [][SyncNext]_<<object, vars, wakeVars, queueVars, delayVars, requestVars>>
    /\ Fairness /\ W!Fairness /\ Q!QueueFairness /\ D!Fairness /\ R!Fairness
-----------------------------------------------------------------------------
\* A callback that was handed to Wakeup::onWakeup() runs once its wakeup has
\* come, not before, and only once, although several threads run callbacks
\* at the same time and the generation may have been read long before.
WakeupCallbacksRunOnce == []W!OnceAndNotEarly /\ W!CallbacksRun

\* What comes out of a Queue is what went in, in that order, and no pop()
\* stays blocked beside a job, although consumers, blocked producers and
\* waitUntilEmpty() are woken through one condition variable.
QueuePopsProceed == []Q!FirstInFirstOut /\ Q!PopsProceed

\* DelayedQueue and CoalescingDelayedQueue: no job comes out before its
\* time, and every job comes out unless a move of another one has erased it.
DelayedJobsComeOut == D!DueJobsComeOut

\* RPCRequest: the first end of a job is final, all who wait return, and the
\* client that asked last hears of it, once if the job does not return after
\* it has been cancelled.
RequestsSettle == []R!HeardOnce /\ R!ResultFinal /\ R!EverybodyHears
=============================================================================
