\* Two clients, one lifecycle call, then shutdown: liveness.
CONSTANTS
    Clients = {c1, c2}
    Main = main
    NoOne = none
    MaxOps = 1
    CmdCap = 1
    BlockCap = 1
    TrackHistory = FALSE
SPECIFICATION FairSpec
PROPERTIES
    LockIsReleased
    FullQueueDrains
    StreamDelivers
    DrainPipesExit
    ShutdownCompletes
CHECK_DEADLOCK FALSE
CONSTRAINT LiveBound
