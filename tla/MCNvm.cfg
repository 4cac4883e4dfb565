CONSTANTS
    device_id = device_id
    mode = mode
    level = level
    t1 = t1
    t2 = t2
    Thread = {t1, t2}
    Key = {device_id, mode, level}
    Factory = {device_id}
    short = short
    long = long
    minus = minus
    yes = yes
    Val = {short, long, minus, yes}
    TypeOf <- MCType
    ValueOf <- MCValue
    Size <- MCSize
    MaxSize = 4
    Base = 3
    Trash <- MCTrash
    Requests <- MCRequests
    Calls <- MCCalls
    NumSlots = 2
    Faults = {"open", "write", "close", "rename"}
    Provisioned <- MCProvisioned
    Free = Free
    NoBlob = NoBlob
    None = None
SPECIFICATION CfgSpec
PROPERTIES
    Survives
    
    CallReturns
    TypedReadBack
