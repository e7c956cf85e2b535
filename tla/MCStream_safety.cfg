\* Two clients, two lifecycle calls, queues of one: safety.
CONSTANTS
    Clients = {c1, c2}
    Main = main
    NoOne = none
    MaxOps = 2
    CmdCap = 1
    BlockCap = 1
    TrackHistory = TRUE
SPECIFICATION Spec
SYMMETRY ClientSymmetry
VIEW ControlState
CONSTRAINT SafetyBound
INVARIANTS
    TypeOK
    RunningMeansStreaming
    DeviceOpenWhileLive
    OverlapOnlyIfOverdue
    OnlyShutdownClears
    DrainNeverStalls
PROPERTIES
    OneStreamAtATime
CHECK_DEADLOCK FALSE
