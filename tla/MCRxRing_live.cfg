SPECIFICATION FairSpec
CONSTANTS
    GpdNum = 1
    MaxFrag = 1
    QueueLen = 1
    MaxErrBits = 2
    MaxEvents = 1
PROPERTY FragmentsTaken
PROPERTY UserReturns
PROPERTY ErrorsRecovered
PROPERTY StopReturns
CHECK_DEADLOCK FALSE
