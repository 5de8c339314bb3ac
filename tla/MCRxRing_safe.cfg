SPECIFICATION Spec
CONSTANTS
    GpdNum = 2
    MaxFrag = 2
    QueueLen = 1
    MaxErrBits = 1
    MaxEvents = 2
INVARIANT BuffersConserved
INVARIANT TakesBuffers
INVARIANT HwHasBuffers
INVARIANT WholePackets
INVARIANT ErrorMeansHalted
CHECK_DEADLOCK FALSE
