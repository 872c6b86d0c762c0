\* Competing producers, waiters and clients of a promise; three threads at a
\* wakeup counter; three at a queue of one place; delayed queues of two;
\* a request that is run, cancelled, waited for and listened to.
CONSTANTS
    Producers = {p1, p2}
    Waiters = {w1}
    TimedWaiters = {v1}
    Clients = {c1, c2, c3}
    ReadyClients = {c3}
    None = None
    WakeThreads = {t1, t2, t3}
    Callbacks = {b1, b2}
    MaxGen = 2
    Procs = {q1, q2, q3}
    Jobs = {j1, j2}
    NoJob = NoJob
    Unbounded = Unbounded
    QueueSize = 1
    DelayProducers = {d1}
    DelayConsumers = {e1, e2}
    DelayJobs = {k1, k2}
    MaxTime = 2
    DelaySize = 2
    MaxInserts = 3
    Runners = {u1}
    Cancellers = {x1}
    RPCWaiters = {w2}
    RPCTimedWaiters = {v2}
    RPCClients = {c4, c5}
SPECIFICATION SyncSpec
INVARIANTS CalledBackOnce
PROPERTIES ClientsHear WakeupCallbacksRunOnce QueuePopsProceed DelayedJobsComeOut RequestsSettle
\* Everybody may be done in the end, or wait for a call that does not come.
CHECK_DEADLOCK FALSE
