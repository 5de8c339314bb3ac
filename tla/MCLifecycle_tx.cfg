SPECIFICATION FairSpec
CONSTANTS
    Devices = {d1}
    NoDevice = none
    GpdNum = 1
    QueueLen = 1
    UserMax = 1
    Orderly = TRUE
INVARIANT MemoryLives
INVARIANT CleanUpAlone
INVARIANT FlagsTell
PROPERTY IoctlReturns
PROPERTY WaiterReturns
PROPERTY DoneHandedOver
