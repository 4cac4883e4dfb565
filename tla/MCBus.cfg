CONSTANTS
    x = x
    NFB = 2
    Ext = {x}
    MsgId <- MCMsgId
    Routes <- MCRoutes
    Depth <- Depth1
    Emits <- CoreEmits
    InitPublishes = FALSE
    MaxPublish <- CoreMax
SPECIFICATION Spec
INVARIANTS
    NoLostWakeup
    NoThreadAfterShutdown
    BypassBound
    LossesReported

    
    
