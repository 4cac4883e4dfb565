CONSTANTS
    Sensors = 2
    Frames <- MCFrames
    High <- MCHigh
    Low <- MCLow
    BufferSize = 2
    GoOffline = 1
    GoReconnecting = 2
    Restored = 3
    TickWrap = 4
    NormalDepth = 2
    HighDepth = 1
    Envelope = TRUE
    MaxPolls = 5
    Cold = 20
    Hot = 90
    Pace = 5
    Warn = 75
    Critical = 85
    Calm = 70
    QueueDepth = 3
SPECIFICATION AppSpec
INVARIANTS
    
    
    ModeFitsReadings
PROPERTIES
    LinkComesBack
