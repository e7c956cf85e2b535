\* Receiver's comment: one goroutine mutates DSP state.
CONSTANTS
    Clients = {c1, c2}
    Main = main
    NoOne = none
    MaxOps = 2
    CmdCap = 1
    BlockCap = 1
    TrackHistory = TRUE
SPECIFICATION Spec
INVARIANT SingleDspGoroutine
CHECK_DEADLOCK FALSE
