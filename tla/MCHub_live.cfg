\* Two clients, one feed, one command or two frames: liveness.
CONSTANTS
    Clients = {c1, c2}
    Feeds = {audio}
    NoOne = none
    Volumes = {30}
    SendCap = 1
    MaxCmds = 1
    MaxFrames = 2
SPECIFICATION FairSpec
CONSTRAINT LiveBound
PROPERTIES
    CleanedUp
    SlowClientStallsNobody
    CommandsComplete
    WriterEnds
CHECK_DEADLOCK FALSE
