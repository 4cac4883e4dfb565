CONSTANTS
    NFB = 3
    MsgId <- MCMsgId
    PubId <- MCPubId
    MaxSubs = 5
    SubLists <- MCSubLists
    InitFn = {"f", "g", "h"}
    DeinitFn = {"x", "y"}
    Null = "null"
    MaxLibs = 2
    MaxDeclares = 4
    Caller = {"t1", "t2"}
    Variants <- MCVariants
    Byte = {0, 49, 128, 255}
    MaxLen <- MCMaxLen
    Stride = 64
SPECIFICATION PartSpec
INVARIANTS
    SortedAfterBoot
    SearchExact
    RoutesExactly
    
    DigestIsCrc
CHECK_DEADLOCK FALSE
