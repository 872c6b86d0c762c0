\* One request to each kind of service, with and without a body.
CONSTANTS
    Services = {"simple", "push", "pull"}
    MaxPieces = 4
    MaxUnits = 5
    MaxBuf = 2
    MayFail = TRUE
    MayThrow = TRUE
SPECIFICATION FairSpec
INVARIANTS BytesInOrder NoLockCycle LifetimesRight
PROPERTIES ResponseCompletes
\* One connection: it is over in the end, or abandoned.
CHECK_DEADLOCK FALSE
