\* Two clients, one feed, two commands or frames: safety.
CONSTANTS
    Clients = {c1, c2}
    Feeds = {audio}
    NoOne = none
    Volumes = {30}
    SendCap = 1
    MaxCmds = 2
    MaxFrames = 1
SPECIFICATION Spec
SYMMETRY ClientSymmetry
VIEW ControlState
CONSTRAINT SafetyBound
INVARIANTS
    TypeOK
    NoSendOnClosed
    NoUpdateMissed
CHECK_DEADLOCK FALSE
