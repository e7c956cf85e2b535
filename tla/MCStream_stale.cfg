\* drainPendingCmds' comment: no stale command on a reopened device.
CONSTANTS
    Clients = {c1, c2}
    Main = main
    NoOne = none
    MaxOps = 2
    CmdCap = 1
    BlockCap = 1
    TrackHistory = TRUE
SPECIFICATION Spec
INVARIANT NoStaleCommand
CHECK_DEADLOCK FALSE
