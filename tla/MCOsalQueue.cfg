CONSTANTS
    Depth = 2
    Thread <- MCThread
    Item <- MCItem
    Calls <- MCCalls
    NoItem = NoItem
    Counters = {"sem", "sig"}
    Initial <- MCInitial
    Limit <- MCLimit
    Mutex = "mutex"
    NoOne = NoOne
    MaxCount = 3
SPECIFICATION OsalSpec
PROPERTIES
    FifoSpec
    CounterSpec
