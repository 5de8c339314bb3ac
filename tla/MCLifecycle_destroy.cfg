SPECIFICATION Spec
CONSTANTS
    Devices = {d1}
    NoDevice = none
    GpdNum = 1
    QueueLen = 1
    UserMax = 1
    Orderly = TRUE
INVARIANT DevicesLive
