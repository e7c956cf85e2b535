SPECIFICATION FairSpec
CONSTANTS
    FullScanStart = 28
    FullScanStep = 4
    FullScanMax = 41
    AdsbRange <- MCAdsbRange
    AisRange <- MCAisRange
    TypeRanges <- MCTypeRanges
    NeedDecode = {"ism"}
    AdsbDwell = 2
    AisDwell = 1
    Settle = 2
    MinFFT = 2
    EmitMin = 6
    Carriers <- MCCarriers
    Planes = {p1}
    PeakThreshold = 5
    MaxPeaks = 1
    InFlight = 2
    MaxScans = 2
    Cap = 1
    MaxFrames = 99
INVARIANTS
    DoneIsKept
    ReportIsTrue
PROPERTIES
    ScanCompletes
CHECK_DEADLOCK FALSE
