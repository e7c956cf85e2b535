SPECIFICATION Spec
CONSTANTS
    FrameSamples = 3
    MaxAir = 9
    MaxBlock = 5
    CprMaxAge = 2
    MaxAge = 3
    MaxTick = 5
    AwayTicks = 300
    Starts <- MCStarts
    None = None
    Sps = 5
    MinFrameBits = 54
    MaxFrameBits = 80
    Jitters <- MCJitters
    Transmissions <- MCTransmissions
    Values = {a, b}
    NA = NA
    OutOfRange = OutOfRange
    VesselMaxAge = 2
    MaxSilence = 4
    Levels <- MCLevels
INVARIANTS
    FramesFoundOnce
    TableTrue
    FramesDelivered
    QuietPlaysTrue
PROPERTIES
    KeepsKnown
CHECK_DEADLOCK FALSE
