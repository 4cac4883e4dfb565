CONSTANTS
    Sensors = 2
    Frames <- MCFrames
    High <- MCHigh
    Low <- MCLow
    BufferSize = 2
    GoOffline = 1
    GoReconnecting = 2
    Restored = 3
    TickWrap = 4
    NormalDepth = 4
    HighDepth = 1
    Envelope = FALSE
    MaxPolls = 2
SPECIFICATION GatewaySpec
PROPERTIES
    BreachIsReported
