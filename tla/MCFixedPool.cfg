\* Pools that block or throw, with and without a bound, and jobs that submit jobs.
CONSTANTS
    Workers = {w1, w2}
    Clients = {c1}
    Stopper = s
    Procs = {w1, w2, c1, s}
    Jobs = {j1, j2, j3}
    NoJob = NoJob
    Unbounded = Unbounded
    MaxSize = 1
    Uses <- SomeUses
SPECIFICATION FairSpec
PROPERTIES PoolIsExecutor StopTerminates
\* Stopped pools rest, and a job may block for ever on its own full queue.
CHECK_DEADLOCK FALSE
