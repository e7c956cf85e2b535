\* One client near the first band of the sweep.
CONSTANTS
    Clients = {c1}
    NoOne = none
    NoCmd = nocmd
    NoCall = nocall
    NoBlock = noblock
    Services = {"radio"}
    TuneFreqs = {28000}
    CenterFreqs = {100300}
    Rates = {1024}
    ScanKinds = {TRUE}
    Satellites <- Catalog
    Bands <- ListPlan
    SweepBands <- SweepPlan
    MaxMsgs = 4
SPECIFICATION Spec
INVARIANT
    ScanStartsOnItsBand
CHECK_DEADLOCK FALSE
