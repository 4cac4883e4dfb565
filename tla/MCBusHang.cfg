CONSTANTS
    x = x
    NFB = 2
    Ext = {x}
    MsgId <- MCMsgId
    Routes <- MCRoutes
    Depth <- Depth1
    Emits <- HighEmits
    InitPublishes = FALSE
    MaxPublish <- HighMax
SPECIFICATION Spec
PROPERTIES
    ShutdownReturns
CHECK_DEADLOCK FALSE
