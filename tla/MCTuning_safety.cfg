\* Two clients, all kinds of message: safety.
CONSTANTS
    Clients = {c1, c2}
    NoOne = none
    NoCmd = nocmd
    NoCall = nocall
    NoBlock = noblock
    Services = {"radio", "adsb", "meteor"}
    TuneFreqs = {7100, 100000}
    CenterFreqs = {100300}
    Rates = {1024}
    ScanKinds = {TRUE, FALSE}
    Satellites <- Catalog
    Bands <- ListPlan
    SweepBands <- SweepPlan
    MaxMsgs = 4
SPECIFICATION Spec
SYMMETRY ClientSymmetry
VIEW Live
CONSTRAINT OverlapBound
INVARIANTS
    TypeOK
    DigitalNeverDirect
    DongleFollowsConfig
    ReportCoversSweep
PROPERTIES
    RecordsMeasureTheirBand
    OneStreamAtATime
CHECK_DEADLOCK FALSE
