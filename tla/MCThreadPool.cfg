\* Two clients; a handler that logs or aborts, and a thread start that fails.
CONSTANTS
    Tasks = {t1, t2, t3}
    Parking = {t1, t2}
    Selecting = {t1}
    Threads = {w1, w2, w3}
    Clients = {c1, c2}
    HandlerReturns = {TRUE, FALSE}
    MaxStartFailures = 1
    NoTask = NoTask
SPECIFICATION FairSpec
INVARIANTS QueueHasThreads NoLostWakeup
PROPERTIES EveryTaskStarts
\* An aborted process takes no further step.
CHECK_DEADLOCK FALSE
