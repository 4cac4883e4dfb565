CONSTANTS
    a = a
    b = b
    c = c
    Name = {a, b, c}
    Configs <- GraphConfigs
    MaxEndpoints = 3
    MaxSubFns = 2
    SubFns <- OneComposite
    MsgId = {"m"}
    MaxBoots = 2
SPECIFICATION Spec
INVARIANTS
    DependenciesReady
    BootComplete
    
    RunOrder
CHECK_DEADLOCK FALSE
