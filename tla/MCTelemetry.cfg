CONSTANTS
    Ten = 2
    Hundred = 2
    Sec = 2
    Wrap = 3
    Has1ms = TRUE
    MaxLate = 1
    MaxSignals = 1
    Sample <- MCSample
    FreeId = 9
    MaxMetrics = 2
    PerBatch = 1
    Window = 2
    CountCap = 1
    TotalWrap = 3
    Depth = 2
    MaxSamples = 3
SPECIFICATION Spec
INVARIANTS
    NoTickLost
    ReportIsAggregate
PROPERTIES
    SecondsRegular
    
