\* What becomes of a connection that is closed.
CONSTANTS
    Services = {"push"}
    MaxPieces = 0
    MaxUnits = 1
    MaxBuf = 1
    MayFail = TRUE
    MayThrow = FALSE
SPECIFICATION FairSpec
PROPERTIES FreesItself
\* One connection: it is over in the end, or abandoned.
CHECK_DEADLOCK FALSE
