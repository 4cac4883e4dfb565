CONSTANTS
    a = a
    b = b
    policy = policy
    FB = {a, b}
    MayHang = {a}
    Timeout <- MCTimeout
    Wrap = 8
    MaxSlots = 2
    Subscriber = policy
    Depth = 1
    StartTimes <- NearWrap
    MaxTicks = 3
SPECIFICATION Spec
PROPERTIES
    FalseAlarmOnlyByRace
    KickGate
    HangReported
