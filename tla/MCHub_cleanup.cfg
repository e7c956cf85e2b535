\* writeLoop's comment: HandleWS cleans up after a failed write.
CONSTANTS
    Clients = {c1}
    Feeds = {audio}
    NoOne = none
    Volumes = {30}
    SendCap = 1
    MaxCmds = 0
    MaxFrames = 2
SPECIFICATION FairSpec
PROPERTY WriteErrorCleansUp
CHECK_DEADLOCK FALSE
