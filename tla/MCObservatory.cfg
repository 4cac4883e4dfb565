CONSTANTS
    main = main
    Thread = {main}
    Depth = 2
    Wrap16 = 2
    Kinds = {"FAULT", "MESSAGE", "OTHER"}
    Levels = {0, 1, 2}
    Transports = {"NULL", "FILE"}
    Faults = {"open", "write", "flush", "close"}
    MaxSeq = 8
    MaxDepth = 4
SPECIFICATION ObsSpec
INVARIANTS
    RingIsLatest
    DropsReported
    CaptureSound
CHECK_DEADLOCK FALSE
