SPECIFICATION FairSpec
CONSTANTS
    Cap = 1
    MaxFrames = 2
    Sessions = {s1, s2}
    NoOne = NoOne
    Broadcast = Broadcast
INVARIANTS
    TypeOK
    OpenWhileWritten
    ClosedLeavesMap
    HoldersGoOn
PROPERTIES
    PutKeepsNewest
    AudioServed
    CloseEnds
CHECK_DEADLOCK FALSE
